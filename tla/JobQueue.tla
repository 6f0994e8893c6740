------------------------------ MODULE JobQueue ------------------------------
(***************************************************************************)
(* A BullMQ queue as this service uses it: the Redis side of a queue (one  *)
(* record per job) and the workers the service's processors run in, one    *)
(* job at a time each.  The library is not part of the repository; its     *)
(* behaviour is modelled from how app.module.ts, email.service.ts and      *)
(* person.service.ts configure and call it.                                *)
(*                                                                         *)
(* Jobs are taken in any order: the order of the waiting list is not       *)
(* modelled, nor is the trimming of finished jobs (removeOnComplete,       *)
(* removeOnFail), which only forgets records nobody reads again.           *)
(***************************************************************************)
EXTENDS Naturals

CONSTANTS JobIds,     \* ids Redis may hand out
          Workers,    \* one worker per running instance of the service
          Payloads,   \* what a job's data may be
          Attempts,   \* the "attempts" option of the jobs
          MaxStalls,  \* BullMQ's maxStalledCount
          None        \* no payload, no owner, no job

ASSUME AttemptsAssumption == Attempts \in Nat \ {0}
ASSUME MaxStallsAssumption == MaxStalls \in Nat
ASSUME NoneAssumption == None \notin Payloads /\ None \notin Workers

VARIABLES jobs,     \* job id -> its record in Redis
          running,  \* worker -> the job it is processing and which run of it
          link      \* worker's instance -> its connection to Redis is up

queueVars == <<jobs, running, link>>

States == {"absent", "waiting", "active", "delayed", "completed", "failed"}

Job == [state : States, data : Payloads \cup {None}, owner : Workers \cup {None},
        made : Nat, stalls : Nat, runs : Nat]

Run == [job : JobIds, run : Nat]

NoJob == [state |-> "absent", data |-> None, owner |-> None,
          made |-> 0, stalls |-> 0, runs |-> 0]

Present(j) == jobs[j].state # "absent"

Ended(j) == jobs[j].state \in {"completed", "failed"}

\* The worker is processing job j (its lock on j may have been lost meanwhile).
Runs(w, j) == running[w] # None /\ running[w].job = j

QueueInit ==
  /\ jobs = [j \in JobIds |-> NoJob]
  /\ running = [w \in Workers |-> None]
  /\ link = [w \in Workers |-> TRUE]

\* Queue.add reaches Redis: a new job waits.
AddJob(j, data) ==
  /\ ~ Present(j)
  /\ jobs' = [jobs EXCEPT ![j] = [NoJob EXCEPT !.state = "waiting", !.data = data]]
  /\ UNCHANGED <<running, link>>

\* An idle worker takes a waiting job and locks it.
TakeJob(w, j) ==
  /\ link[w] /\ running[w] = None
  /\ jobs[j].state = "waiting"
  /\ jobs' = [jobs EXCEPT ![j].state = "active", ![j].owner = w, ![j].runs = @ + 1]
  /\ running' = [running EXCEPT ![w] = [job |-> j, run |-> jobs[j].runs + 1]]
  /\ UNCHANGED link

\* The worker still holds the lock of the job it runs.
Holds(w) == LET j == running[w].job IN jobs[j].state = "active" /\ jobs[j].owner = w

\* process() returned: the job completes, unless its lock was lost, in which
\* case Redis refuses and the worker moves on.
FinishJob(w) ==
  /\ running[w] # None /\ link[w]
  /\ jobs' = IF Holds(w)
             THEN [jobs EXCEPT ![running[w].job].state = "completed",
                               ![running[w].job].owner = None]
             ELSE jobs
  /\ running' = [running EXCEPT ![w] = None]
  /\ UNCHANGED link

\* What becomes of a job whose run failed: retried after a backoff while
\* attempts remain.
AfterFailure(job) ==
  [job EXCEPT !.state = IF job.made + 1 < Attempts THEN "delayed" ELSE "failed",
              !.owner = None, !.made = @ + 1]

\* process() threw.
FailJob(w) ==
  /\ running[w] # None /\ link[w]
  /\ jobs' = IF Holds(w)
             THEN [jobs EXCEPT ![running[w].job] = AfterFailure(@)]
             ELSE jobs
  /\ running' = [running EXCEPT ![w] = None]
  /\ UNCHANGED link

\* The backoff delay of a failed attempt is over; a connected worker promotes it.
PromoteJob(j) ==
  /\ jobs[j].state = "delayed"
  /\ \E w \in Workers : link[w]
  /\ jobs' = [jobs EXCEPT ![j].state = "waiting"]
  /\ UNCHANGED <<running, link>>

\* Nobody renews the lock: its owner died, or cannot reach Redis.
LockLapsed(j) == LET w == jobs[j].owner IN ~ (Runs(w, j) /\ link[w])

\* Some connected worker's stalled check finds the lapsed lock.
StallJob(j) ==
  /\ jobs[j].state = "active" /\ LockLapsed(j)
  /\ \E w \in Workers : link[w]
  /\ jobs' = [jobs EXCEPT ![j].state = IF jobs[j].stalls < MaxStalls
                                       THEN "waiting" ELSE "failed",
                          ![j].owner = None, ![j].stalls = @ + 1]
  /\ UNCHANGED <<running, link>>

\* The process that hosts the worker dies and is started again.
RestartWorker(w) ==
  /\ running' = [running EXCEPT ![w] = None]
  /\ UNCHANGED <<jobs, link>>

DropLink(w) ==
  /\ link[w] /\ link' = [link EXCEPT ![w] = FALSE]
  /\ UNCHANGED <<jobs, running>>

Reconnect(w) ==
  /\ ~ link[w] /\ link' = [link EXCEPT ![w] = TRUE]
  /\ UNCHANGED <<jobs, running>>

QueueTypeOK ==
  /\ jobs \in [JobIds -> Job]
  /\ running \in [Workers -> Run \cup {None}]
  /\ link \in [Workers -> BOOLEAN]
=============================================================================
