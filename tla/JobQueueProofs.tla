--------------------------- MODULE JobQueueProofs ---------------------------
(***************************************************************************)
(* What the steps of a queue keep, for every number of jobs, workers,      *)
(* attempts and stalls: the jobs stay well typed, their data stays what it *)
(* was, and every run of a job is accounted for.                           *)
(***************************************************************************)
EXTENDS JobQueue, TLAPS

\* Every run of a job is accounted for, and the limits hold the job back.
Accounted(job) ==
  /\ job.state = "absent" => job = NoJob
  /\ job.runs = job.made + job.stalls
                + (IF job.state \in {"active", "completed"} THEN 1 ELSE 0)
  /\ job.state \in {"absent", "waiting", "delayed", "active", "completed"}
       => job.made < Attempts /\ job.stalls <= MaxStalls
  /\ job.state = "failed" => \/ job.made = Attempts /\ job.stalls <= MaxStalls
                             \/ job.made < Attempts /\ job.stalls = MaxStalls + 1

JobsAccounted == \A j \in JobIds : Accounted(jobs[j])

JobsOK == jobs \in [JobIds -> Job] /\ JobsAccounted

SameData == \A k \in JobIds : jobs'[k].data = jobs[k].data
RunsGrow == \A k \in JobIds : jobs'[k].runs >= jobs[k].runs
NoneCompletes ==
  \A k \in JobIds : jobs'[k].state = "completed" => jobs[k].state = "completed"

\* One job replaced by a sound one leaves all of them sound.
LEMMA OneJob ==
  ASSUME JobsOK, NEW j \in JobIds, NEW b \in Job, Accounted(b), jobs' = [jobs EXCEPT ![j] = b]
  PROVE  JobsOK' /\ jobs'[j] = b /\ \A k \in JobIds \ {j} : jobs'[k] = jobs[k]
<1>1. jobs'[j] = b /\ \A k \in JobIds \ {j} : jobs'[k] = jobs[k]
  BY DEF JobsOK
<1>2. jobs' \in [JobIds -> Job]
  BY DEF JobsOK
<1>3. \A k \in JobIds : Accounted(jobs'[k])
  BY <1>1 DEF JobsOK, JobsAccounted
<1> QED BY <1>1, <1>2, <1>3 DEF JobsOK, JobsAccounted

\* Queue.add: a new job waits, with none of its attempts made.
LEMMA AddKeepsJobs ==
  ASSUME JobsOK, NEW j \in JobIds, NEW e \in Payloads, AddJob(j, e)
  PROVE  /\ JobsOK' /\ RunsGrow /\ NoneCompletes
         /\ jobs'[j].data = e
         /\ \A k \in JobIds \ {j} : jobs'[k] = jobs[k]
         /\ jobs[j].data \notin Payloads
<1> DEFINE b == [state |-> "waiting", data |-> e, owner |-> None,
                 made |-> 0, stalls |-> 0, runs |-> 0]
<1>1. jobs' = [jobs EXCEPT ![j] = b]
  <2>1. jobs'[j] = [NoJob EXCEPT !.state = "waiting", !.data = e]
    BY DEF AddJob, JobsOK
  <2>2. jobs'[j] = b
    BY <2>1 DEF NoJob
  <2> QED BY <2>1, <2>2 DEF AddJob
<1>2. b \in Job
  BY DEF Job, States
<1>3. Accounted(b)
  BY AttemptsAssumption, MaxStallsAssumption DEF Accounted
<1>4. jobs[j] = NoJob
  BY DEF AddJob, Present, JobsOK, JobsAccounted, Accounted
<1>5. jobs[j].runs = 0 /\ jobs[j].data = None
  BY <1>4 DEF NoJob
<1>6. JobsOK' /\ jobs'[j] = b /\ \A k \in JobIds \ {j} : jobs'[k] = jobs[k]
  BY <1>1, <1>2, <1>3, OneJob
<1>7. \A k \in JobIds : jobs[k].runs \in Nat
  BY DEF JobsOK, Job
<1>8. RunsGrow /\ NoneCompletes
  BY <1>5, <1>6, <1>7 DEF RunsGrow, NoneCompletes
<1> QED BY <1>5, <1>6, <1>8, NoneAssumption

\* A worker locks a waiting job.
LEMMA TakeKeepsJobs ==
  ASSUME JobsOK, NEW w \in Workers, NEW j \in JobIds, TakeJob(w, j)
  PROVE  JobsOK' /\ SameData /\ RunsGrow /\ NoneCompletes /\ jobs'[j].runs = jobs[j].runs + 1
<1> DEFINE a == jobs[j]
           b == [state |-> "active", data |-> a.data, owner |-> w,
                 made |-> a.made, stalls |-> a.stalls, runs |-> a.runs + 1]
<1>1. a \in Job /\ a.state = "waiting" /\ Accounted(a)
  BY DEF TakeJob, JobsOK, JobsAccounted
<1>2. jobs' = [jobs EXCEPT ![j] = b]
  BY <1>1 DEF TakeJob, JobsOK, Job
<1>3. b \in Job
  BY <1>1 DEF Job, States
<1>4. Accounted(b)
  BY <1>1 DEF Accounted, Job
<1>5. JobsOK' /\ jobs'[j] = b /\ \A k \in JobIds \ {j} : jobs'[k] = jobs[k]
  BY <1>2, <1>3, <1>4, OneJob
<1>6. \A k \in JobIds : jobs[k].runs \in Nat
  BY DEF JobsOK, Job
<1> QED BY <1>5, <1>6 DEF SameData, RunsGrow, NoneCompletes

\* A run that ends: what becomes of the job whose lock the worker holds.
LEMMA FinishKeepsJobs ==
  ASSUME JobsOK, NEW w \in Workers, running[w] \in Run, FinishJob(w)
  PROVE  /\ JobsOK' /\ SameData /\ RunsGrow
         /\ \A k \in JobIds : jobs'[k].state = "completed"
                              => jobs[k].state = "completed" \/ k = running[w].job
<1> DEFINE j == running[w].job
           a == jobs[j]
           b == [state |-> "completed", data |-> a.data, owner |-> None,
                 made |-> a.made, stalls |-> a.stalls, runs |-> a.runs]
<1>1. j \in JobIds /\ a \in Job /\ Accounted(a) /\ \A k \in JobIds : jobs[k].runs \in Nat
  BY DEF JobsOK, JobsAccounted, Run, Job
<1>2. CASE Holds(w)
  <2>1. jobs' = [jobs EXCEPT ![j] = b]
    <3>1. jobs'[j] = [[a EXCEPT !.state = "completed"] EXCEPT !.owner = None]
      BY <1>1, <1>2 DEF FinishJob, JobsOK
    <3>2. jobs'[j] = b
      BY <1>1, <3>1 DEF Job
    <3>3. jobs' = [jobs EXCEPT ![j] = jobs'[j]]
      BY <1>1, <1>2, <3>1 DEF FinishJob, JobsOK
    <3> QED BY <3>2, <3>3
  <2>2. b \in Job
    BY <1>1 DEF Job, States
  <2>3. Accounted(b)
    BY <1>1, <1>2 DEF Accounted, Job, Holds
  <2>4. JobsOK' /\ jobs'[j] = b /\ \A k \in JobIds \ {j} : jobs'[k] = jobs[k]
    BY <1>1, <2>1, <2>2, <2>3, OneJob
  <2> QED BY <1>1, <2>4 DEF SameData, RunsGrow
<1>3. CASE ~ Holds(w)
  BY <1>1, <1>3 DEF FinishJob, JobsOK, JobsAccounted, SameData, RunsGrow
<1> QED BY <1>2, <1>3

\* process() threw: one more attempt is made, a retry or the end follows.
LEMMA FailKeepsJobs ==
  ASSUME JobsOK, NEW w \in Workers, running[w] \in Run, FailJob(w)
  PROVE  JobsOK' /\ SameData /\ RunsGrow /\ NoneCompletes
<1> DEFINE j == running[w].job
           a == jobs[j]
           b == [state |-> IF a.made + 1 < Attempts THEN "delayed" ELSE "failed",
                 data |-> a.data, owner |-> None,
                 made |-> a.made + 1, stalls |-> a.stalls, runs |-> a.runs]
<1>1. j \in JobIds /\ a \in Job /\ Accounted(a) /\ \A k \in JobIds : jobs[k].runs \in Nat
  BY DEF JobsOK, JobsAccounted, Run, Job
<1>2. CASE Holds(w)
  <2>1. jobs' = [jobs EXCEPT ![j] = b]
    <3>1. jobs'[j] = AfterFailure(a)
      BY <1>1, <1>2 DEF FailJob, JobsOK
    <3>2. jobs'[j] = b
      BY <1>1, <3>1 DEF AfterFailure, Job
    <3> QED BY <1>2, <3>1, <3>2 DEF FailJob
  <2>2. b \in Job
    BY <1>1 DEF Job, States
  <2>3. Accounted(b)
    BY <1>1, <1>2, AttemptsAssumption DEF Accounted, Job, Holds
  <2>4. JobsOK' /\ jobs'[j] = b /\ \A k \in JobIds \ {j} : jobs'[k] = jobs[k]
    BY <1>1, <2>1, <2>2, <2>3, OneJob
  <2> QED BY <1>1, <2>4 DEF SameData, RunsGrow, NoneCompletes
<1>3. CASE ~ Holds(w)
  BY <1>1, <1>3 DEF FailJob, JobsOK, JobsAccounted, SameData, RunsGrow, NoneCompletes
<1> QED BY <1>2, <1>3

\* A retry comes due.
LEMMA PromoteKeepsJobs ==
  ASSUME JobsOK, NEW j \in JobIds, PromoteJob(j)
  PROVE  JobsOK' /\ SameData /\ RunsGrow /\ NoneCompletes
<1> DEFINE a == jobs[j]
           b == [state |-> "waiting", data |-> a.data, owner |-> a.owner,
                 made |-> a.made, stalls |-> a.stalls, runs |-> a.runs]
<1>1. a \in Job /\ a.state = "delayed" /\ Accounted(a) /\ \A k \in JobIds : jobs[k].runs \in Nat
  BY DEF PromoteJob, JobsOK, JobsAccounted, Job
<1>2. jobs' = [jobs EXCEPT ![j] = b]
  <2>1. [a EXCEPT !.state = "waiting"] = b
    BY <1>1 DEF Job
  <2> QED BY <2>1 DEF PromoteJob
<1>3. b \in Job
  BY <1>1 DEF Job, States
<1>4. Accounted(b)
  BY <1>1 DEF Accounted, Job
<1>5. JobsOK' /\ jobs'[j] = b /\ \A k \in JobIds \ {j} : jobs'[k] = jobs[k]
  BY <1>2, <1>3, <1>4, OneJob
<1> QED BY <1>1, <1>5 DEF SameData, RunsGrow, NoneCompletes

\* The stalled check takes a job from its owner.
LEMMA StallKeepsJobs ==
  ASSUME JobsOK, NEW j \in JobIds, StallJob(j)
  PROVE  /\ JobsOK' /\ SameData /\ RunsGrow /\ NoneCompletes
         /\ jobs'[j].state \in {"waiting", "failed"}
<1> DEFINE a == jobs[j]
           b == [state |-> IF a.stalls < MaxStalls THEN "waiting" ELSE "failed",
                 data |-> a.data, owner |-> None,
                 made |-> a.made, stalls |-> a.stalls + 1, runs |-> a.runs]
<1>1. a \in Job /\ a.state = "active" /\ Accounted(a) /\ \A k \in JobIds : jobs[k].runs \in Nat
  BY DEF StallJob, JobsOK, JobsAccounted, Job
<1>2. jobs' = [jobs EXCEPT ![j] = b]
  BY <1>1 DEF StallJob, JobsOK, Job
<1>3. b \in Job
  BY <1>1 DEF Job, States
<1>4. Accounted(b)
  BY <1>1, MaxStallsAssumption, AttemptsAssumption DEF Accounted, Job
<1>5. JobsOK' /\ jobs'[j] = b /\ \A k \in JobIds \ {j} : jobs'[k] = jobs[k]
  BY <1>2, <1>3, <1>4, OneJob
<1> QED BY <1>1, <1>5 DEF SameData, RunsGrow, NoneCompletes

\* The steps of a run, a retry and a stall touch one job at most, which is in
\* use and not ended: an end is never revised.
LEMMA EndsAreFinal ==
  ASSUME JobsOK,
         \/ \E w \in Workers, j \in JobIds : TakeJob(w, j)
         \/ \E w \in Workers : running[w] \in Run /\ (FinishJob(w) \/ FailJob(w))
         \/ \E j \in JobIds : PromoteJob(j) \/ StallJob(j)
  PROVE  \/ jobs' = jobs
         \/ \E j \in JobIds : /\ Present(j) /\ ~ Ended(j) /\ jobs'[j].state # "absent"
                              /\ \A k \in JobIds \ {j} : jobs'[k] = jobs[k]
<1>1. ASSUME NEW j \in JobIds, jobs' = [jobs EXCEPT ![j] = jobs'[j]], Present(j), ~ Ended(j),
             jobs'[j].state # "absent"
      PROVE  \E k \in JobIds : /\ Present(k) /\ ~ Ended(k) /\ jobs'[k].state # "absent"
                               /\ \A l \in JobIds \ {k} : jobs'[l] = jobs[l]
  BY <1>1 DEF JobsOK
<1>2. ASSUME NEW w \in Workers, NEW j \in JobIds, TakeJob(w, j)
      PROVE  /\ jobs' = [jobs EXCEPT ![j] = jobs'[j]] /\ Present(j) /\ ~ Ended(j)
             /\ jobs'[j].state # "absent"
  BY <1>2 DEF TakeJob, JobsOK, Job, Present, Ended
<1>3. ASSUME NEW w \in Workers, running[w] \in Run, FinishJob(w) \/ FailJob(w), jobs' # jobs
      PROVE  LET j == running[w].job
             IN  /\ j \in JobIds /\ jobs' = [jobs EXCEPT ![j] = jobs'[j]]
                 /\ Present(j) /\ ~ Ended(j) /\ jobs'[j].state # "absent"
  <2> DEFINE j == running[w].job
  <2>1. j \in JobIds /\ Holds(w) /\ jobs[j] \in Job
    BY <1>3 DEF FinishJob, FailJob, Run, JobsOK
  <2>2. Present(j) /\ ~ Ended(j)
    BY <2>1 DEF Holds, Present, Ended
  <2>3. jobs' = [jobs EXCEPT ![j] = jobs'[j]]
    BY <1>3, <2>1 DEF FinishJob, FailJob, JobsOK
  <2>4. jobs'[j].state # "absent"
    <3>1. CASE FinishJob(w)
      <4>1. jobs'[j] = [[jobs[j] EXCEPT !.state = "completed"] EXCEPT !.owner = None]
        BY <3>1, <2>1 DEF FinishJob, JobsOK
      <4> QED BY <4>1, <2>1 DEF Job
    <3>2. CASE FailJob(w)
      <4>1. jobs'[j] = AfterFailure(jobs[j])
        BY <3>2, <2>1 DEF FailJob, JobsOK
      <4> QED BY <4>1, <2>1 DEF AfterFailure, Job
    <3> QED BY <1>3, <3>1, <3>2
  <2> QED BY <2>1, <2>2, <2>3, <2>4
<1>4. ASSUME NEW j \in JobIds, PromoteJob(j) \/ StallJob(j)
      PROVE  /\ jobs' = [jobs EXCEPT ![j] = jobs'[j]] /\ Present(j) /\ ~ Ended(j)
             /\ jobs'[j].state # "absent"
  <2>1. jobs[j] \in Job /\ jobs[j].state \in {"delayed", "active"}
    BY <1>4 DEF PromoteJob, StallJob, JobsOK
  <2>2. Present(j) /\ ~ Ended(j)
    BY <2>1 DEF Present, Ended
  <2>3. jobs' = [jobs EXCEPT ![j] = jobs'[j]]
    BY <1>4 DEF PromoteJob, StallJob, JobsOK
  <2>4. CASE PromoteJob(j)
    <3>1. jobs'[j] = [jobs[j] EXCEPT !.state = "waiting"]
      BY <2>4 DEF PromoteJob, JobsOK
    <3> QED BY <2>1, <2>2, <2>3, <3>1 DEF Job
  <2>5. CASE StallJob(j)
    <3>1. jobs'[j].state = "waiting" \/ jobs'[j].state = "failed"
      BY <2>5, StallKeepsJobs
    <3> QED BY <2>2, <2>3, <3>1
  <2> QED BY <1>4, <2>4, <2>5
<1> QED BY <1>1, <1>2, <1>3, <1>4

-----------------------------------------------------------------------------
(* How many more steps a job can take: an attempt is taken, fails and is   *)
(* promoted, a stall costs the take it undoes and itself.                  *)

StepsLeft(job) ==
  IF job.state \in {"completed", "failed"} THEN 0
  ELSE 3 * (Attempts - job.made) + 2 * (MaxStalls - job.stalls)
       - (IF job.state = "waiting" THEN 1 ELSE IF job.state = "active" THEN 2 ELSE 0)

\* Whatever happens to a job brings it closer to its end.
Closer ==
  \A k \in JobIds : jobs'[k] # jobs[k] => StepsLeft(jobs'[k]) < StepsLeft(jobs[k])

\* No job has more than its attempts and its stalls allow, and only an ended
\* job has none.
LEMMA StepsBounded ==
  ASSUME NEW a \in Job, Accounted(a)
  PROVE  /\ StepsLeft(a) \in 0 .. (3 * Attempts + 2 * MaxStalls)
         /\ StepsLeft(a) = 0 <=> a.state \in {"completed", "failed"}
<1>1. a.made \in Nat /\ a.stalls \in Nat /\ a.state \in States
  BY DEF Job
<1>2. CASE a.state \in {"completed", "failed"}
  BY <1>2, AttemptsAssumption, MaxStallsAssumption DEF StepsLeft
<1>3. CASE a.state \notin {"completed", "failed"}
  <2>1. a.made < Attempts /\ a.stalls <= MaxStalls
    BY <1>1, <1>3, AttemptsAssumption, MaxStallsAssumption DEF Accounted, States
  <2> QED BY <1>1, <1>3, <2>1, AttemptsAssumption, MaxStallsAssumption DEF StepsLeft
<1> QED BY <1>2, <1>3

\* One job brought closer, the others left alone.
LEMMA OneCloser ==
  ASSUME NEW j \in JobIds, jobs' = [jobs EXCEPT ![j] = jobs'[j]], JobsOK,
         StepsLeft(jobs'[j]) < StepsLeft(jobs[j])
  PROVE  Closer
BY DEF Closer, JobsOK

LEMMA AddIsCloser ==
  ASSUME JobsOK, NEW j \in JobIds, NEW e \in Payloads, AddJob(j, e)
  PROVE  Closer
<1>1. jobs[j] = NoJob
  BY DEF AddJob, Present, JobsOK, JobsAccounted, Accounted
<1>2. jobs'[j] = [NoJob EXCEPT !.state = "waiting", !.data = e]
  BY DEF AddJob, JobsOK
<1>3. /\ jobs'[j].state = "waiting" /\ jobs'[j].made = 0 /\ jobs'[j].stalls = 0
      /\ jobs[j].state = "absent" /\ jobs[j].made = 0 /\ jobs[j].stalls = 0
  BY <1>1, <1>2 DEF NoJob
<1>4. StepsLeft(jobs'[j]) < StepsLeft(jobs[j])
  BY <1>3, AttemptsAssumption, MaxStallsAssumption DEF StepsLeft
<1>5. jobs' = [jobs EXCEPT ![j] = jobs'[j]]
  BY <1>2 DEF AddJob, JobsOK
<1> QED BY <1>4, <1>5, OneCloser

LEMMA TakeIsCloser ==
  ASSUME JobsOK, NEW w \in Workers, NEW j \in JobIds, TakeJob(w, j)
  PROVE  Closer
<1>1. jobs[j] \in Job /\ jobs[j].state = "waiting"
  BY DEF TakeJob, JobsOK
<1>2. /\ jobs'[j].state = "active" /\ jobs'[j].made = jobs[j].made
      /\ jobs'[j].stalls = jobs[j].stalls
      /\ jobs' = [jobs EXCEPT ![j] = jobs'[j]]
  BY <1>1 DEF TakeJob, JobsOK, Job
<1>3. StepsLeft(jobs'[j]) < StepsLeft(jobs[j])
  BY <1>1, <1>2, AttemptsAssumption, MaxStallsAssumption DEF StepsLeft, Job
<1> QED BY <1>2, <1>3, OneCloser

LEMMA RunEndIsCloser ==
  ASSUME JobsOK, NEW w \in Workers, running[w] \in Run, FinishJob(w) \/ FailJob(w)
  PROVE  Closer
<1> DEFINE j == running[w].job
<1>1. j \in JobIds /\ jobs[j] \in Job /\ Accounted(jobs[j])
  BY DEF JobsOK, JobsAccounted, Run
<1>2. CASE ~ Holds(w)
  BY <1>2 DEF FinishJob, FailJob, Closer
<1>3. CASE Holds(w)
  <2>1. jobs[j].state = "active" /\ StepsLeft(jobs[j]) > 0
    BY <1>1, <1>3, StepsBounded, AttemptsAssumption, MaxStallsAssumption DEF Holds
  <2>2. CASE FinishJob(w)
    <3>1. jobs'[j] = [[jobs[j] EXCEPT !.state = "completed"] EXCEPT !.owner = None]
      BY <1>1, <1>3, <2>2 DEF FinishJob, JobsOK
    <3>2. jobs'[j].state = "completed"
      BY <1>1, <3>1 DEF Job
    <3>3. jobs' = [jobs EXCEPT ![j] = jobs'[j]]
      BY <1>1, <1>3, <2>2, <3>1 DEF FinishJob, JobsOK
    <3>4. StepsLeft(jobs'[j]) = 0
      BY <3>2 DEF StepsLeft
    <3> QED BY <1>1, <2>1, <3>3, <3>4, OneCloser
  <2>3. CASE FailJob(w)
    <3>1. jobs'[j] = AfterFailure(jobs[j]) /\ jobs' = [jobs EXCEPT ![j] = jobs'[j]]
      BY <1>1, <1>3, <2>3 DEF FailJob, JobsOK
    <3>2. /\ jobs'[j].state \in {"delayed", "failed"} /\ jobs'[j].made = jobs[j].made + 1
          /\ jobs'[j].stalls = jobs[j].stalls
      BY <1>1, <3>1 DEF AfterFailure, Job
    <3>3. StepsLeft(jobs'[j]) < StepsLeft(jobs[j])
      BY <1>1, <2>1, <3>2, AttemptsAssumption, MaxStallsAssumption DEF StepsLeft, Job
    <3> QED BY <1>1, <3>1, <3>3, OneCloser
  <2> QED BY <2>2, <2>3
<1> QED BY <1>2, <1>3

LEMMA PromoteIsCloser ==
  ASSUME JobsOK, NEW j \in JobIds, PromoteJob(j)
  PROVE  Closer
<1>1. jobs[j] \in Job /\ jobs[j].state = "delayed"
  BY DEF PromoteJob, JobsOK
<1>2. jobs'[j] = [jobs[j] EXCEPT !.state = "waiting"] /\ jobs' = [jobs EXCEPT ![j] = jobs'[j]]
  BY DEF PromoteJob, JobsOK
<1>3. /\ jobs'[j].state = "waiting" /\ jobs'[j].made = jobs[j].made
      /\ jobs'[j].stalls = jobs[j].stalls
  BY <1>1, <1>2 DEF Job
<1>4. StepsLeft(jobs'[j]) < StepsLeft(jobs[j])
  BY <1>1, <1>3, AttemptsAssumption, MaxStallsAssumption DEF StepsLeft, Job
<1> QED BY <1>2, <1>4, OneCloser

LEMMA StallIsCloser ==
  ASSUME JobsOK, NEW j \in JobIds, StallJob(j)
  PROVE  Closer
<1>1. jobs[j] \in Job /\ jobs[j].state = "active" /\ Accounted(jobs[j])
  BY DEF StallJob, JobsOK, JobsAccounted
<1>2. /\ jobs'[j].state \in {"waiting", "failed"} /\ jobs'[j].made = jobs[j].made
      /\ jobs'[j].stalls = jobs[j].stalls + 1
      /\ jobs' = [jobs EXCEPT ![j] = jobs'[j]]
  BY <1>1 DEF StallJob, JobsOK, Job
<1>3. StepsLeft(jobs[j]) > 0
  BY <1>1, StepsBounded, AttemptsAssumption, MaxStallsAssumption
<1>4. StepsLeft(jobs'[j]) < StepsLeft(jobs[j])
  BY <1>1, <1>2, <1>3, AttemptsAssumption, MaxStallsAssumption DEF StepsLeft, Job
<1> QED BY <1>2, <1>4, OneCloser
=============================================================================
