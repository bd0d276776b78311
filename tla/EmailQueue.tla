----------------------------- MODULE EmailQueue -----------------------------
(***************************************************************************)
(* The jobs of src/src/jobs/queues/email.queue.ts and the worker of        *)
(* src/src/jobs/workers/email.worker.ts.  A job is a record in Redis; a    *)
(* run of it is a call of the worker's processor in the process.  How      *)
(* BullMQ moves a job from one state to the next is modelled from its use: *)
(* the options of the queue and of the worker, and its defaults.           *)
(*                                                                         *)
(* A module of parts, like RateLimiter.                                    *)
(***************************************************************************)
EXTENDS Naturals, FiniteSets

CONSTANTS
  Jobs,          \* supply of job ids
  ATTEMPTS,      \* attempts: 3
  CONCURRENCY,   \* concurrency: 5
  MaxStalled     \* BullMQ's maxStalledCount: 1

ASSUME QueueAssumption == /\ ATTEMPTS \in Nat \ {0} /\ CONCURRENCY \in Nat \ {0}
                          /\ MaxStalled \in Nat

VARIABLES
  job,    \* the job's record in Redis
  run,    \* what the processor is doing with it: awaiting SMTP, or done
  sent    \* history: how often the SMTP server has taken its mail

queueVars == <<job, run, sent>>

-----------------------------------------------------------------------------
\* A job that is settled is not run again.  "flushed": FLUSHALL has removed it.
Settled == {"completed", "failed", "flushed"}
Job == [state: {"none", "wait", "active", "delayed"} \cup Settled,
        attemptsMade: 0 .. ATTEMPTS, stalled: 0 .. MaxStalled + 1]
NoJob == [state |-> "none", attemptsMade |-> 0, stalled |-> 0]

QueueTypeOK ==
  /\ job \in [Jobs -> Job]
  /\ run \in [Jobs -> {"no", "sending", "sent"}]
  /\ sent \in [Jobs -> Nat]

Running == {j \in Jobs : run[j] # "no"}

\* emailQueue.add.
Add(j) == /\ job[j].state = "none"
          /\ job' = [job EXCEPT ![j].state = "wait"]
          /\ UNCHANGED <<run, sent>>

Take(j) == /\ job[j].state = "wait"
           /\ Cardinality(Running) < CONCURRENCY
           /\ job' = [job EXCEPT ![j].state = "active"]
           /\ run' = [run EXCEPT ![j] = "sending"]
           /\ UNCHANGED sent

\* transporter.sendMail resolves: the server has the mail.
Send(j) == /\ run[j] = "sending"
           /\ run' = [run EXCEPT ![j] = "sent"]
           /\ sent' = [sent EXCEPT ![j] = @ + 1]
           /\ UNCHANGED job

\* The processor returns, and the job is moved to the completed ones.
Complete(j) ==
  /\ run[j] = "sent"
  /\ run' = [run EXCEPT ![j] = "no"]
  /\ job' = [job EXCEPT ![j].state = IF @ = "active" THEN "completed" ELSE @]
  /\ UNCHANGED sent

AttemptsLeftOneMore(n) == n <= ATTEMPTS   \* mutant: three retries, not three attempts
AttemptsLeft(n) == n < ATTEMPTS

\* sendMail rejects, before or after the server has taken the mail; the service
\* rethrows, and the job waits for its back-off or is failed for good.
Fail(j) ==
  /\ run[j] = "sending"
  /\ run' = [run EXCEPT ![j] = "no"]
  /\ \/ UNCHANGED sent
     \/ sent' = [sent EXCEPT ![j] = @ + 1]
  /\ LET n == job[j].attemptsMade + 1 IN
     job' = IF job[j].state # "active" THEN job
            ELSE [job EXCEPT ![j].attemptsMade = n,
                             ![j].state = IF AttemptsLeft(n) THEN "delayed" ELSE "failed"]

\* The back-off is over.
Promote(j) == /\ job[j].state = "delayed"
              /\ job' = [job EXCEPT ![j].state = "wait"]
              /\ UNCHANGED <<run, sent>>

ForgivenAlways(n) == TRUE   \* mutant: maxStalledCount is not applied
Forgiven(n) == n < MaxStalled

StallUnseen(j) == FALSE   \* mutant: skipStalledCheck
\* A worker finds an active job whose lock nobody renews: its process has died.
Stall(j) ==
  /\ job[j].state = "active" /\ run[j] = "no"
  /\ LET n == job[j].stalled IN
     job' = [job EXCEPT ![j].stalled = n + 1,
                        ![j].state = IF Forgiven(n) THEN "wait" ELSE "failed"]
  /\ UNCHANGED <<run, sent>>

RunStep(j) == Send(j) \/ Complete(j) \/ Fail(j)

\* The process dies with everything it runs.
RunsDie == run' = [j \in Jobs |-> "no"] /\ UNCHANGED <<job, sent>>

\* The records go, also those of jobs that are being run.
FlushJobs ==
  /\ job' = [j \in Jobs |-> IF job[j].state = "none" THEN job[j]
                            ELSE [NoJob EXCEPT !.state = "flushed"]]
  /\ UNCHANGED <<run, sent>>

QueueInit ==
  /\ job = [j \in Jobs |-> NoJob]
  /\ run = [j \in Jobs |-> "no"]
  /\ sent = [j \in Jobs |-> 0]

-----------------------------------------------------------------------------
\* A mail may leave more than once: when SMTP fails after the server has taken
\* it, or the process dies before the job is marked.  It leaves at most once
\* for each attempt and once more for each death that is forgiven; and a job
\* that is completed has left.
MailsBounded ==
  \A j \in Jobs : /\ sent[j] <= ATTEMPTS + MaxStalled
                  /\ job[j].state = "completed" => sent[j] > 0
=============================================================================
