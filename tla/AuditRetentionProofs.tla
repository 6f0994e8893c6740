------------------------ MODULE AuditRetentionProofs ------------------------
(***************************************************************************)
(* Proofs about AuditRetention, for every number of entries, instances and *)
(* jobs, every retention period and every difference of clocks.  That a    *)
(* completed clean-up leaves nothing behind rests on what it may not see:  *)
(* an insert under way carries a date no older than a database call takes. *)
(***************************************************************************)
EXTENDS AuditRetention, JobQueueProofs

\* An entry under way belongs to an instance, and is not older than its insert;
\* no instance has anything to do with the others.
WritesAreFresh ==
  \A e \in Entries :
    /\ phase[e] = "writing" =>
         writer[e] \in Workers /\ age[e] + ahead[writer[e]] <= MaxLag
    /\ writer[e] # None => phase[e] = "writing"

AgesAreCapped ==
  \A e \in Entries : phase[e] = "stored" => age[e] <= Cap

WorkersHaveRuns ==
  \A w \in Workers : work[w] # "idle" => running[w] \in Run

IndInv == /\ TypeOK /\ JobsAccounted /\ WritesAreFresh /\ AgesAreCapped
          /\ WorkersHaveRuns /\ ReportIsTrue

CapIsLarge == Cap \in Nat /\ MaxLag < Cap /\ Retention < Cap

\* The bound on ages is beyond every age a clean-up compares.
LEMMA CapFact == CapIsLarge
BY TimeAssumption DEF Cap, CapIsLarge

\* Before any instance has booted the invariant holds.
LEMMA InitInv == Init => IndInv
<1> SUFFICES ASSUME Init PROVE IndInv
  OBVIOUS
<1>1. \A j \in JobIds : jobs[j] = NoJob
  BY DEF Init, QueueInit
<1>2. NoJob \in Job /\ Accounted(NoJob)
  BY AttemptsAssumption, MaxStallsAssumption DEF NoJob, Job, States, Accounted
<1>3. TypeOK
  <2>1. QueueTypeOK
    BY <1>2 DEF Init, QueueInit, QueueTypeOK
  <2> QED BY <2>1, TimeAssumption DEF Init, TypeOK, Late
<1>4. JobsAccounted
  BY <1>1, <1>2 DEF JobsAccounted
<1>5. WritesAreFresh /\ AgesAreCapped /\ WorkersHaveRuns /\ ReportIsTrue
  BY DEF Init, WritesAreFresh, AgesAreCapped, WorkersHaveRuns, ReportIsTrue
<1> QED BY <1>3, <1>4, <1>5 DEF IndInv

-----------------------------------------------------------------------------
\* A step of the queue that no entry and no clock takes part in.
LEMMA QueueStep ==
  ASSUME IndInv, JobsOK', QueueTypeOK', WorkersHaveRuns',
         UNCHANGED <<entries, ahead, report>>,
         booted' \in [Workers -> BOOLEAN],
         pending' \in {"none", "delayed", "due"}, hour' = hour,
         work' \in [Workers -> {"idle", "taken", "deleting", "done", "failed"}],
         waited' \in [Workers -> 0 .. MaxLag]
  PROVE  IndInv'
<1> USE DEF IndInv, entries
<1>1. TypeOK'
  BY DEF TypeOK
<1>2. WritesAreFresh' /\ AgesAreCapped' /\ ReportIsTrue'
  BY DEF WritesAreFresh, AgesAreCapped, ReportIsTrue
<1> QED BY <1>1, <1>2 DEF JobsOK

\* AuditService.log keeps it: the insert is sent, executed or fails.
LEMMA EntryInv ==
  ASSUME IndInv, NEW e \in Entries,
         (\E w \in Workers : Log(e, w)) \/ Store(e) \/ StoreFails(e)
  PROVE  IndInv'
<1> USE DEF IndInv, schedule, cleaners, queueVars
<1>1. UNCHANGED <<jobs, running, link, booted, pending, hour, work, waited, report, ahead>>
  BY DEF Log, Store, StoreFails
<1>2. TypeOK'
  <2>1. /\ phase' \in [Entries -> {"idle", "writing", "stored", "lost", "deleted"}]
        /\ writer' \in [Entries -> Workers \cup {None}]
    BY DEF Log, Store, StoreFails, TypeOK
  <2>2. age' \in [Entries -> Int]
    BY TimeAssumption DEF Log, Store, StoreFails, TypeOK
  <2> QED BY <1>1, <2>1, <2>2 DEF TypeOK, QueueTypeOK
<1>3. JobsAccounted' /\ WorkersHaveRuns'
  BY <1>1 DEF JobsAccounted, WorkersHaveRuns
<1>4. CASE \E w \in Workers : Log(e, w)
  <2>1. PICK w \in Workers : Log(e, w)
    BY <1>4
  <2>2. WritesAreFresh'
    <3>1. ahead[w] \in 0 .. Skew /\ - ahead[w] + ahead[w] <= MaxLag
      BY TimeAssumption DEF TypeOK
    <3> QED BY <1>1, <2>1, <3>1 DEF Log, WritesAreFresh, TypeOK
  <2>3. AgesAreCapped' /\ ReportIsTrue'
    BY <1>1, <2>1 DEF Log, AgesAreCapped, ReportIsTrue, TypeOK
  <2> QED BY <1>2, <1>3, <2>2, <2>3
<1>5. CASE Store(e)
  <2>1. WritesAreFresh'
    BY <1>1, <1>5 DEF Store, WritesAreFresh, TypeOK
  <2>2. age[e] \in Int /\ age[e] <= MaxLag
    <3>1. writer[e] \in Workers /\ age[e] + ahead[writer[e]] <= MaxLag
      BY <1>5 DEF Store, WritesAreFresh
    <3>2. age[e] \in Int /\ ahead[writer[e]] \in 0 .. Skew
      BY <3>1 DEF TypeOK
    <3> QED BY <3>1, <3>2, TimeAssumption
  <2>3. age[e] <= Cap /\ age[e] <= Retention + report
    BY <2>2, CapFact, TimeAssumption DEF CapIsLarge, Late, TypeOK
  <2>4. AgesAreCapped' /\ ReportIsTrue'
    BY <1>1, <1>5, <2>3 DEF Store, AgesAreCapped, ReportIsTrue, TypeOK
  <2> QED BY <1>2, <1>3, <2>1, <2>4
<1>6. CASE StoreFails(e)
  <2>1. WritesAreFresh' /\ AgesAreCapped' /\ ReportIsTrue'
    BY <1>1, <1>6 DEF StoreFails, WritesAreFresh, AgesAreCapped, ReportIsTrue, TypeOK
  <2> QED BY <1>2, <1>3, <2>1
<1> QED BY <1>4, <1>5, <1>6

\* What an executed delete leaves is not older than its cutoff.
LEMMA DeleteInv ==
  ASSUME IndInv, NEW w \in Workers, Delete(w) \/ DeleteReplyLost(w)
  PROVE  IndInv'
<1> USE DEF IndInv, schedule, queueVars
<1>1. /\ work[w] = "deleting"
      /\ phase' = [e \in Entries |-> IF e \in Expired(w) THEN "deleted" ELSE phase[e]]
      /\ age' = [e \in Entries |-> IF e \in Expired(w) THEN 0 ELSE age[e]]
      /\ waited' = [waited EXCEPT ![w] = 0]
      /\ UNCHANGED <<writer, booted, pending, hour, ahead, jobs, running, link>>
  BY DEF Delete, DeleteReplyLost, DeleteOlderThan
<1>2. work' = [work EXCEPT ![w] = work'[w]] /\ work'[w] \in {"done", "failed"}
  BY DEF Delete, DeleteReplyLost, TypeOK
<1>3. report' = report \/ report' = waited[w]
  BY DEF Delete, DeleteReplyLost
<1>4. waited[w] \in 0 .. MaxLag /\ ahead[w] \in 0 .. Skew /\ waited[w] \in 0 .. Late
  BY CapFact, TimeAssumption DEF TypeOK, CapIsLarge, Late
<1>5. TypeOK'
  <2>1. phase' \in [Entries -> {"idle", "writing", "stored", "lost", "deleted"}]
    BY <1>1 DEF TypeOK
  <2>2. age' \in [Entries -> Int]
    BY <1>1 DEF TypeOK
  <2>3. waited' \in [Workers -> 0 .. MaxLag]
    BY <1>1, TimeAssumption DEF TypeOK
  <2>4. /\ report' \in 0 .. Late
        /\ work' \in [Workers -> {"idle", "taken", "deleting", "done", "failed"}]
    BY <1>2, <1>3, <1>4 DEF TypeOK
  <2> QED BY <1>1, <2>1, <2>2, <2>3, <2>4 DEF TypeOK, QueueTypeOK
<1>6. JobsAccounted' /\ WorkersHaveRuns'
  BY <1>1, <1>2 DEF JobsAccounted, WorkersHaveRuns, TypeOK
<1>7. WritesAreFresh' /\ AgesAreCapped'
  BY <1>1 DEF WritesAreFresh, AgesAreCapped, Expired
<1>8. ReportIsTrue'
  <2> SUFFICES ASSUME NEW e \in Entries, phase'[e] = "stored"
               PROVE  age'[e] <= Retention + report'
    BY DEF ReportIsTrue
  <2>1. phase[e] = "stored" /\ e \notin Expired(w) /\ age'[e] = age[e]
    BY <1>1
  <2>2. age[e] \in Int /\ age[e] <= Retention + waited[w] - ahead[w]
    BY <2>1, <1>4, TimeAssumption DEF Expired, TypeOK
  <2>3. CASE report' = waited[w]
    BY <2>1, <2>2, <2>3, <1>4, TimeAssumption
  <2>4. CASE report' = report
    BY <2>1, <2>4 DEF ReportIsTrue
  <2> QED BY <1>3, <2>3, <2>4
<1> QED BY <1>5, <1>6, <1>7, <1>8

\* Entries, clean-ups and the report grow older together.
LEMMA TickInv ==
  ASSUME IndInv, Tick
  PROVE  IndInv'
<1> USE DEF IndInv, queueVars, Tick
<1>1. UNCHANGED <<jobs, running, link, phase, writer, work, booted, ahead>>
  OBVIOUS
<1>2. \A e \in Entries : phase[e] \in {"writing", "stored"} =>
        age'[e] \in Int /\ age'[e] <= Cap /\ age'[e] <= age[e] + 1
  BY CapFact DEF TypeOK, Smaller, CapIsLarge
<1>3. /\ report' \in 0 .. Late
      /\ report' = report + 1 \/ report' = Late
  BY TimeAssumption DEF TypeOK, Smaller, Late
<1>4. TypeOK'
  <2>1. age' \in [Entries -> Int]
    BY CapFact DEF TypeOK, Smaller, CapIsLarge
  <2>2. waited' \in [Workers -> 0 .. MaxLag]
    BY TimeAssumption DEF TypeOK
  <2>3. hour' \in 0 .. Day - 1 /\ pending' \in {"none", "delayed", "due"}
    BY TimeAssumption DEF TypeOK
  <2> QED BY <1>1, <1>3, <2>1, <2>2, <2>3 DEF TypeOK, QueueTypeOK
<1>5. JobsAccounted' /\ WorkersHaveRuns'
  BY <1>1 DEF JobsAccounted, WorkersHaveRuns
<1>6. WritesAreFresh'
  <2> SUFFICES ASSUME NEW e \in Entries, phase[e] = "writing"
               PROVE  writer[e] \in Workers /\ age'[e] + ahead[writer[e]] <= MaxLag
    BY <1>1 DEF WritesAreFresh
  <2>1. writer[e] \in Workers /\ ahead[writer[e]] \in 0 .. Skew
    BY DEF WritesAreFresh, TypeOK
  <2>2. age[e] + ahead[writer[e]] < MaxLag
    OBVIOUS
  <2>3. age[e] \in Int /\ age'[e] \in Int /\ age'[e] <= age[e] + 1
    BY <1>2 DEF TypeOK
  <2> QED BY <2>1, <2>2, <2>3, TimeAssumption
<1>7. AgesAreCapped'
  BY <1>1, <1>2 DEF AgesAreCapped
<1>8. ReportIsTrue'
  <2> SUFFICES ASSUME NEW e \in Entries, phase[e] = "stored"
               PROVE  age'[e] <= Retention + report'
    BY <1>1 DEF ReportIsTrue
  <2>1. age[e] \in Int /\ age[e] <= Retention + report /\ report \in Nat
    BY DEF ReportIsTrue, TypeOK
  <2>2. age'[e] \in Int /\ age'[e] <= Cap /\ age'[e] <= age[e] + 1
    BY <1>2
  <2> QED BY <2>1, <2>2, <1>3, CapFact, TimeAssumption DEF CapIsLarge, Cap, Late
<1> QED BY <1>4, <1>5, <1>6, <1>7, <1>8

\* An instance that ends gives up its inserts and its clean-up.
LEMMA RestartInv ==
  ASSUME IndInv, NEW w \in Workers, Restart(w)
  PROVE  IndInv'
<1> USE DEF IndInv, Restart, RestartWorker
<1>1. UNCHANGED <<jobs, link, pending, hour, report, ahead>>
  OBVIOUS
<1>2. TypeOK'
  <2>1. /\ phase' \in [Entries -> {"idle", "writing", "stored", "lost", "deleted"}]
        /\ writer' \in [Entries -> Workers \cup {None}] /\ age' \in [Entries -> Int]
    BY DEF TypeOK
  <2>2. waited' \in [Workers -> 0 .. MaxLag] /\ booted' \in [Workers -> BOOLEAN]
    BY TimeAssumption DEF TypeOK
  <2>3. QueueTypeOK' /\ work' \in [Workers -> {"idle", "taken", "deleting", "done", "failed"}]
    BY DEF TypeOK, QueueTypeOK
  <2> QED BY <1>1, <2>1, <2>2, <2>3 DEF TypeOK
<1>3. JobsAccounted' /\ WorkersHaveRuns'
  BY DEF JobsAccounted, WorkersHaveRuns, TypeOK, QueueTypeOK
<1>4. \A e \in Entries : /\ phase'[e] \in {"writing", "stored"} => phase'[e] = phase[e]
                         /\ writer[e] # w => age'[e] = age[e] /\ writer'[e] = writer[e]
                         /\ writer[e] = w => phase'[e] = "lost"
  BY DEF TypeOK
<1>5. WritesAreFresh' /\ AgesAreCapped' /\ ReportIsTrue'
  BY <1>1, <1>4 DEF WritesAreFresh, AgesAreCapped, ReportIsTrue
<1> QED BY <1>2, <1>3, <1>5

\* The worker's run starts, and ends.
LEMMA RunInv ==
  ASSUME IndInv, NEW w \in Workers,
         \/ \E j \in JobIds : Take(w, j)
         \/ Process(w) \/ DeleteFails(w) \/ Finish(w) \/ Throw(w)
  PROVE  IndInv'
<1> USE DEF entries, schedule, queueVars
<1>1. JobsOK /\ TypeOK
  BY DEF IndInv, TypeOK, QueueTypeOK, JobsOK
<1>2. UNCHANGED <<phase, writer, age, ahead, report, booted, hour, link>>
  BY DEF Take, TakeJob, Process, DeleteFails, Finish, FinishJob, Throw, FailJob
<1>3. /\ pending' \in {"none", "delayed", "due"}
      /\ waited' \in [Workers -> 0 .. MaxLag]
      /\ work' \in [Workers -> {"idle", "taken", "deleting", "done", "failed"}]
  BY <1>1, TimeAssumption DEF Take, Process, DeleteFails, Finish, Throw, TypeOK
<1>4. CASE \E j \in JobIds : Take(w, j)
  <2>1. PICK j \in JobIds : Take(w, j)
    BY <1>4
  <2> DEFINE r == [job |-> j, run |-> jobs[j].runs + 1]
  <2>2. JobsOK' /\ r \in Run /\ running' = [running EXCEPT ![w] = r]
    BY <1>1, <2>1, TakeKeepsJobs DEF Take, TakeJob, Run, JobsOK, Job
  <2>3. QueueTypeOK'
    BY <1>1, <1>2, <2>2 DEF TypeOK, QueueTypeOK, JobsOK
  <2>4. WorkersHaveRuns'
    BY <1>1, <2>1, <2>2 DEF Take, IndInv, WorkersHaveRuns, TypeOK, QueueTypeOK
  <2> QED BY <1>1, <1>2, <1>3, <2>2, <2>3, <2>4, QueueStep DEF TypeOK
<1>5. CASE Process(w) \/ DeleteFails(w)
  <2>1. JobsOK' /\ QueueTypeOK' /\ UNCHANGED running
    BY <1>1, <1>5 DEF Process, DeleteFails, JobsOK, JobsAccounted, TypeOK, QueueTypeOK
  <2>2. WorkersHaveRuns'
    BY <1>1, <1>5 DEF Process, DeleteFails, IndInv, WorkersHaveRuns, TypeOK
  <2> QED BY <1>1, <1>2, <1>3, <2>1, <2>2, QueueStep DEF TypeOK
<1>6. CASE Finish(w) \/ Throw(w)
  <2>1. /\ running[w] \in Run /\ running' = [running EXCEPT ![w] = None]
        /\ work' = [work EXCEPT ![w] = "idle"]
    BY <1>6 DEF Finish, Throw, FinishJob, FailJob, IndInv, WorkersHaveRuns
  <2>2. JobsOK'
    BY <1>1, <1>6, <2>1, FinishKeepsJobs, FailKeepsJobs DEF Finish, Throw
  <2>3. QueueTypeOK' /\ WorkersHaveRuns'
    BY <1>1, <1>2, <2>1, <2>2 DEF IndInv, WorkersHaveRuns, TypeOK, QueueTypeOK, JobsOK
  <2> QED BY <1>1, <1>2, <1>3, <2>2, <2>3, QueueStep DEF TypeOK
<1> QED BY <1>4, <1>5, <1>6

\* The steps of the schedule and the queue.
LEMMA ScheduleInv ==
  ASSUME IndInv,
         \/ \E w \in Workers : Boot(w) \/ LoseRedis(w) \/ RegainRedis(w)
         \/ \E j \in JobIds : Fire(j) \/ Promote(j) \/ Stall(j) \/ Trim(j)
         \/ UNCHANGED vars
  PROVE  IndInv'
<1> USE DEF entries, schedule, cleaners, queueVars, Others, vars
<1>1. JobsOK /\ TypeOK
  BY DEF IndInv, TypeOK, QueueTypeOK, JobsOK
<1>2. UNCHANGED <<phase, writer, age, ahead, report, hour, work, waited, running>>
  BY DEF Boot, LoseRedis, RegainRedis, DropLink, Reconnect, Fire, AddJob, Promote, PromoteJob,
     Stall, StallJob, Trim
<1>3. booted' \in [Workers -> BOOLEAN] /\ pending' \in {"none", "delayed", "due"}
  BY <1>1 DEF Boot, LoseRedis, RegainRedis, Fire, Promote, Stall, Trim, TypeOK
<1>4. link' \in [Workers -> BOOLEAN]
  BY <1>1 DEF Boot, LoseRedis, RegainRedis, DropLink, Reconnect, Fire, AddJob, Promote,
     PromoteJob, Stall, StallJob, Trim, TypeOK, QueueTypeOK
<1>5. JobsOK'
  <2>1. CASE UNCHANGED jobs
    BY <1>1, <2>1 DEF JobsOK, JobsAccounted
  <2>2. ASSUME NEW j \in JobIds, Trim(j)
        PROVE  JobsOK'
    <3>1. NoJob \in Job /\ Accounted(NoJob)
      BY AttemptsAssumption, MaxStallsAssumption DEF NoJob, Job, States, Accounted
    <3> QED BY <1>1, <2>2, <3>1, OneJob DEF Trim
  <2>3. ASSUME NEW j \in JobIds, Fire(j) \/ Promote(j) \/ Stall(j)
        PROVE  JobsOK'
    BY <1>1, <2>3, PayloadAssumption, AddKeepsJobs, PromoteKeepsJobs, StallKeepsJobs
       DEF Fire, Promote, Stall
  <2> QED BY <2>1, <2>2, <2>3 DEF Boot, LoseRedis, RegainRedis, DropLink, Reconnect
<1>6. QueueTypeOK' /\ WorkersHaveRuns'
  BY <1>1, <1>2, <1>4, <1>5 DEF IndInv, WorkersHaveRuns, TypeOK, QueueTypeOK, JobsOK
<1> QED BY <1>1, <1>2, <1>3, <1>5, <1>6, QueueStep DEF TypeOK

\* Every step of the specification keeps the invariant.
THEOREM NextInv == IndInv /\ [Next]_vars => IndInv'
<1> SUFFICES ASSUME IndInv, [Next]_vars PROVE IndInv'
  OBVIOUS
<1> QED BY EntryInv, DeleteInv, TickInv, RestartInv, RunInv, ScheduleInv DEF Next

\* The inductive invariant holds throughout.
THEOREM Invariance == Spec => []IndInv
BY InitInv, NextInv, PTL DEF Spec

-----------------------------------------------------------------------------
(* The results. *)

\* Every variable keeps its type.
THEOREM Typing == Spec => []TypeOK
<1>1. IndInv => TypeOK
  BY DEF IndInv
<1> QED BY <1>1, Invariance, PTL

\* "Audit cleanup completed" is logged only of a clean-up that left no entry
\* older than the retention period (AuditCleanupProcessor.process).
THEOREM ReportsAreTrue == Spec => []ReportIsTrue
<1>1. IndInv => ReportIsTrue
  BY DEF IndInv
<1> QED BY <1>1, Invariance, PTL

\* No step deletes an entry before its retention period is over, up to the
\* difference of the clocks (AuditRepository.deleteOlderThan).
THEOREM RetentionIsKept == Spec => NoneDeletedEarly
<1> DEFINE Kept == \A e \in Entries : phase[e] = "stored" /\ phase'[e] = "deleted"
                                      => age[e] > Retention - Skew
<1>1. IndInv /\ [Next]_vars => [Kept]_vars
  <2> SUFFICES ASSUME IndInv, Next, NEW e \in Entries, phase[e] = "stored",
                      phase'[e] = "deleted"
               PROVE  age[e] > Retention - Skew
    OBVIOUS
  <2> USE DEF entries, Others
  <2>1. TypeOK
    BY DEF IndInv
  <2>2. \E w \in Workers : DeleteOlderThan(w)
    <3>1. ASSUME NEW f \in Entries, (\E w \in Workers : Log(f, w)) \/ Store(f) \/ StoreFails(f)
          PROVE  FALSE
      BY <2>1, <3>1 DEF Log, Store, StoreFails, TypeOK
    <3>2. ASSUME NEW w \in Workers,
                 Boot(w) \/ (\E j \in JobIds : Take(w, j)) \/ Process(w) \/ DeleteFails(w)
                 \/ Finish(w) \/ Throw(w) \/ LoseRedis(w) \/ RegainRedis(w) \/ Restart(w)
          PROVE  FALSE
      BY <2>1, <3>2 DEF Boot, Take, Process, DeleteFails, Finish, Throw, LoseRedis,
         RegainRedis, Restart, TypeOK
    <3>3. ASSUME Tick \/ \E j \in JobIds : Fire(j) \/ Promote(j) \/ Stall(j) \/ Trim(j)
          PROVE  FALSE
      BY <3>3 DEF Tick, Fire, Promote, Stall, Trim
    <3> QED BY <3>1, <3>2, <3>3 DEF Next, Delete, DeleteReplyLost
  <2>3. PICK w \in Workers : DeleteOlderThan(w)
    BY <2>2
  <2>4. age[e] > Retention + waited[w] - ahead[w]
    BY <2>3 DEF DeleteOlderThan, Expired
  <2> QED BY <2>1, <2>4, TimeAssumption DEF TypeOK
<1>2. NoneDeletedEarly <=> [][Kept]_vars
  BY DEF NoneDeletedEarly
<1> QED BY <1>1, <1>2, Invariance, PTL DEF Spec

-----------------------------------------------------------------------------
(* The implementation of RetentionLedger. *)

\* Before any event was logged the ledger is in its initial state.
LEMMA InitImplements == Init => Ledger!Init
BY DEF Init, Ledger!Init, Late, Ledger!Late

\* AuditService.log is an entry written, kept or lost.
LEMMA EntrySteps ==
  ASSUME IndInv, NEW e \in Entries,
         (\E w \in Workers : Log(e, w)) \/ Store(e) \/ StoreFails(e)
  PROVE  Ledger!Next
<1>1. TypeOK /\ UNCHANGED report
  BY DEF IndInv, Log, Store, StoreFails, cleaners
<1>2. CASE \E w \in Workers : Log(e, w)
  <2>1. PICK w \in Workers : Log(e, w)
    BY <1>2
  <2>2. - ahead[w] \in - Skew .. 0
    BY <1>1, TimeAssumption DEF TypeOK
  <2>3. Ledger!Write(e, - ahead[w])
    BY <1>1, <2>1, <2>2 DEF Log, Ledger!Write
  <2> QED BY <2>2, <2>3 DEF Ledger!Next
<1>3. CASE Store(e)
  <2>1. age[e] <= MaxLag
    <3>1. writer[e] \in Workers /\ age[e] + ahead[writer[e]] <= MaxLag
      BY <1>3 DEF IndInv, Store, WritesAreFresh
    <3>2. age[e] \in Int /\ ahead[writer[e]] \in 0 .. Skew
      BY <1>1, <3>1 DEF TypeOK
    <3> QED BY <3>1, <3>2, TimeAssumption
  <2>2. Ledger!Keep(e)
    BY <1>1, <1>3, <2>1 DEF Store, Ledger!Keep
  <2> QED BY <2>2 DEF Ledger!Next
<1>4. CASE StoreFails(e)
  <2>1. Ledger!Remove({e}, "lost")
    BY <1>1, <1>4 DEF StoreFails, Ledger!Remove, TypeOK
  <2>2. Ledger!Lose({e})
    BY <1>1, <1>4, <2>1 DEF StoreFails, Ledger!Lose
  <2> QED BY <2>2 DEF Ledger!Next
<1> QED BY <1>2, <1>3, <1>4

\* An executed delete is a clean-up of the ledger, reported if its count arrived.
LEMMA DeleteSteps ==
  ASSUME IndInv, NEW w \in Workers, Delete(w) \/ DeleteReplyLost(w)
  PROVE  Ledger!Next
<1> DEFINE S == Expired(w)
<1>1. TypeOK /\ waited[w] \in 0 .. MaxLag /\ ahead[w] \in 0 .. Skew
  BY DEF IndInv, TypeOK
<1>2. S \in SUBSET Entries /\ Ledger!Remove(S, "deleted")
  BY DEF Expired, Delete, DeleteReplyLost, DeleteOlderThan, Ledger!Remove
<1>3. \A e \in S : Ledger!TooOld(e)
  BY <1>1, TimeAssumption DEF Expired, Ledger!TooOld, TypeOK
<1>4. \A e \in Entries \ S : phase[e] = "stored" => age[e] <= Retention + waited[w]
  BY <1>1, TimeAssumption DEF Expired, TypeOK
<1>5. report' = report \/ report' = waited[w]
  BY DEF Delete, DeleteReplyLost
<1>6. Ledger!CleanUp(S, waited[w])
  BY <1>2, <1>3, <1>4, <1>5 DEF Ledger!CleanUp
<1> QED BY <1>1, <1>2, <1>6 DEF Ledger!Next

\* An instance that ends loses the entries it was writing.
LEMMA RestartSteps ==
  ASSUME IndInv, NEW w \in Workers, Restart(w)
  PROVE  Ledger!Next
<1> DEFINE S == {e \in Entries : writer[e] = w}
<1>1. Ledger!Remove(S, "lost") /\ UNCHANGED report
  BY DEF Restart, Ledger!Remove
<1>2. \A e \in S : phase[e] = "writing"
  BY NoneAssumption DEF IndInv, WritesAreFresh
<1>3. Ledger!Lose(S)
  BY <1>1, <1>2 DEF Ledger!Lose
<1> QED BY <1>3 DEF Ledger!Next

\* Time passes for the ledger as it does for the service.
LEMMA TickSteps ==
  ASSUME IndInv, Tick
  PROVE  Ledger!Next
<1>1. /\ TypeOK /\ Cap \in Nat /\ Ledger!Cap = Cap
      /\ Late \in Nat /\ Ledger!Late = Late
  BY CapFact, TimeAssumption DEF IndInv, CapIsLarge, Cap, Ledger!Cap, Late, Ledger!Late
<1>2. \A n, m \in Int : n <= m => Smaller(n + 1, m) = Ledger!Older(n, m)
  BY <1>1 DEF Smaller, Ledger!Older
<1>3. \A e \in Entries : phase[e] \in {"writing", "stored"} => age[e] <= Cap
  <2> SUFFICES ASSUME NEW e \in Entries, phase[e] = "writing"
               PROVE  age[e] <= Cap
    BY DEF IndInv, AgesAreCapped
  <2>1. writer[e] \in Workers /\ age[e] + ahead[writer[e]] <= MaxLag
    BY DEF IndInv, WritesAreFresh
  <2>2. age[e] \in Int /\ ahead[writer[e]] \in 0 .. Skew
    BY <1>1, <2>1 DEF TypeOK
  <2> QED BY <2>1, <2>2, CapFact, TimeAssumption DEF CapIsLarge
<1>4. Ledger!Tick
  BY <1>1, <1>2, <1>3 DEF Tick, Ledger!Tick, TypeOK
<1> QED BY <1>4 DEF Ledger!Next

\* Every step of the service is one of the ledger, or none.
LEMMA NextImplements == IndInv /\ [Next]_vars => [Ledger!Next]_(Ledger!vars)
<1> SUFFICES ASSUME IndInv, [Next]_vars PROVE [Ledger!Next]_(Ledger!vars)
  OBVIOUS
<1> USE DEF Ledger!vars, entries, cleaners
<1>1. ASSUME NEW w \in Workers,
             Boot(w) \/ (\E j \in JobIds : Take(w, j)) \/ Process(w) \/ DeleteFails(w)
             \/ Finish(w) \/ Throw(w) \/ LoseRedis(w) \/ RegainRedis(w)
      PROVE  UNCHANGED Ledger!vars
  BY <1>1 DEF Boot, Take, Process, DeleteFails, Finish, Throw, LoseRedis, RegainRedis, Others
<1>2. ASSUME NEW j \in JobIds, Fire(j) \/ Promote(j) \/ Stall(j) \/ Trim(j)
      PROVE  UNCHANGED Ledger!vars
  BY <1>2 DEF Fire, Promote, Stall, Trim, Others
<1>3. CASE UNCHANGED vars
  BY <1>3 DEF vars
<1> QED BY <1>1, <1>2, <1>3, EntrySteps, DeleteSteps, RestartSteps, TickSteps DEF Next

\* The audit log implements the ledger: behind queue, retries, stalls, clocks
\* and restarts there is nothing but entries kept for their period.
THEOREM Refinement == Spec => ImplementsLedger
BY InitImplements, NextImplements, Invariance, PTL DEF Spec, ImplementsLedger, Ledger!Spec

-----------------------------------------------------------------------------
(* What follows from the ledger alone. *)

\* What the ledger keeps of ages and of its last report.
LedgerInv ==
  /\ phase \in [Entries -> {"idle", "writing", "stored", "lost", "deleted"}]
  /\ age \in [Entries -> Int] /\ report \in 0 .. Late
  /\ \A e \in Entries : phase[e] = "stored" => age[e] <= Cap
  /\ ReportIsTrue

\* A step of the ledger keeps it.
LEMMA LedgerStep ==
  ASSUME LedgerInv, [Ledger!Next]_(Ledger!vars)
  PROVE  LedgerInv'
<1> USE CapFact, TimeAssumption DEF LedgerInv, ReportIsTrue, CapIsLarge
<1>1. CASE UNCHANGED Ledger!vars
  BY <1>1 DEF Ledger!vars
<1>2. ASSUME NEW e \in Entries, NEW date \in - Skew .. 0, Ledger!Write(e, date)
      PROVE  LedgerInv'
  BY <1>2 DEF Ledger!Write
<1>3. ASSUME NEW e \in Entries, Ledger!Keep(e)
      PROVE  LedgerInv'
  <2>1. age[e] \in Int /\ age[e] <= Cap /\ age[e] <= Retention + report
    BY <1>3 DEF Ledger!Keep
  <2> QED BY <1>3, <2>1 DEF Ledger!Keep
<1>4. ASSUME NEW S \in SUBSET Entries, Ledger!Lose(S)
      PROVE  LedgerInv'
  <2>1. Ledger!Remove(S, "lost") /\ UNCHANGED report
    BY <1>4 DEF Ledger!Lose
  <2>2. /\ age' \in [Entries -> Int]
        /\ phase' \in [Entries -> {"idle", "writing", "stored", "lost", "deleted"}]
    BY <2>1 DEF Ledger!Remove
  <2>3. \A e \in Entries : phase'[e] = "stored" => phase[e] = "stored" /\ age'[e] = age[e]
    BY <2>1 DEF Ledger!Remove
  <2> QED BY <2>1, <2>2, <2>3
<1>5. ASSUME NEW S \in SUBSET Entries, NEW n \in 0 .. MaxLag, Ledger!CleanUp(S, n)
      PROVE  LedgerInv'
  <2>1. Ledger!Remove(S, "deleted")
    BY <1>5 DEF Ledger!CleanUp
  <2>2. /\ age' \in [Entries -> Int]
        /\ phase' \in [Entries -> {"idle", "writing", "stored", "lost", "deleted"}]
    BY <2>1 DEF Ledger!Remove
  <2>3. \A e \in Entries : phase'[e] = "stored" =>
          e \notin S /\ phase[e] = "stored" /\ age'[e] = age[e]
    BY <2>1 DEF Ledger!Remove
  <2>4. CASE report' = report
    BY <2>2, <2>3, <2>4
  <2>5. CASE report' = n /\ \A e \in Entries \ S : phase[e] = "stored" => age[e] <= Retention + n
    <3>1. n \in 0 .. Late /\ \A e \in Entries : phase'[e] = "stored" =>
            age'[e] <= Cap /\ age'[e] <= Retention + n
      BY <2>3, <2>5 DEF Late
    <3> QED BY <2>2, <2>5, <3>1
  <2>6. \/ report' = report
        \/ report' = n /\ \A e \in Entries \ S : phase[e] = "stored" => age[e] <= Retention + n
    BY <1>5 DEF Ledger!CleanUp
  <2> HIDE DEF LedgerInv
  <2> QED BY <2>4, <2>5, <2>6
<1>6. CASE Ledger!Tick
  <2>1. Ledger!Cap = Cap /\ Ledger!Late = Late /\ Late \in Nat
    BY DEF Ledger!Cap, Cap, Ledger!Late, Late
  <2>2. age' \in [Entries -> Int]
    BY <1>6, <2>1 DEF Ledger!Tick, Ledger!Older
  <2>3. report' \in 0 .. Late /\ (report' = report + 1 \/ report' = Late)
    BY <1>6, <2>1 DEF Ledger!Tick, Ledger!Older
  <2>4. \A e \in Entries : phase'[e] = "stored" =>
          phase[e] = "stored" /\ age'[e] <= Cap /\ age'[e] <= age[e] + 1
    BY <1>6, <2>1 DEF Ledger!Tick, Ledger!Older
  <2>5. ReportIsTrue'
    BY <2>2, <2>3, <2>4 DEF Late, Cap
  <2>6. phase' = phase
    BY <1>6 DEF Ledger!Tick
  <2> QED BY <2>2, <2>3, <2>4, <2>5, <2>6
<1> QED BY <1>1, <1>2, <1>3, <1>4, <1>5, <1>6 DEF Ledger!Next

\* The ledger promises what the service is checked for: whoever implements it
\* reports no clean-up that was none, and deletes nothing early.
THEOREM LedgerPromises == Ledger!Spec => []ReportIsTrue /\ NoneDeletedEarly
<1> DEFINE Kept == \A e \in Entries : phase[e] = "stored" /\ phase'[e] = "deleted"
                                      => age[e] > Retention - Skew
<1>1. Ledger!Init => LedgerInv
  BY TimeAssumption DEF Ledger!Init, LedgerInv, ReportIsTrue, Late, Ledger!Late
<1>2. LedgerInv /\ [Ledger!Next]_(Ledger!vars) => LedgerInv'
  BY LedgerStep
<1>3. LedgerInv /\ [Ledger!Next]_(Ledger!vars) => [Kept]_vars
  <2> SUFFICES ASSUME LedgerInv, Ledger!Next, NEW e \in Entries, phase[e] = "stored",
                      phase'[e] = "deleted"
               PROVE  age[e] > Retention - Skew
    BY DEF Ledger!vars
  <2>1. ~ Ledger!Tick
    BY DEF Ledger!Tick
  <2>2. \A f \in Entries : ~ Ledger!Keep(f) /\ \A date \in - Skew .. 0 : ~ Ledger!Write(f, date)
    BY DEF Ledger!Keep, Ledger!Write, LedgerInv
  <2>3. \A S \in SUBSET Entries : ~ Ledger!Lose(S)
    BY DEF Ledger!Lose, Ledger!Remove
  <2>4. PICK S \in SUBSET Entries : \E n \in 0 .. MaxLag : Ledger!CleanUp(S, n)
    BY <2>1, <2>2, <2>3 DEF Ledger!Next
  <2> QED BY <2>4 DEF Ledger!CleanUp, Ledger!Remove, Ledger!TooOld
<1>4. LedgerInv => ReportIsTrue
  BY DEF LedgerInv
<1>5. NoneDeletedEarly <=> [][Kept]_vars
  BY DEF NoneDeletedEarly
<1> QED BY <1>1, <1>2, <1>3, <1>4, <1>5, PTL DEF Ledger!Spec

-----------------------------------------------------------------------------
(* Why there is always a next clean-up, and why each one ends.             *)

\* The next iteration is on the schedule, or is a job nobody has taken yet, or a
\* worker that took one is about to schedule the next.
ScheduleKept ==
  \/ pending # "none"
  \/ \E j \in JobIds : jobs[j].state = "waiting" /\ jobs[j].runs = 0
  \/ \E w \in Workers : work[w] = "taken"

\* What else happens to jobs leaves a waiting one alone.
LEMMA WaitingStays ==
  ASSUME IndInv, NEW k \in JobIds, jobs[k].state = "waiting",
         \/ \E w \in Workers : Finish(w) \/ Throw(w)
         \/ \E j \in JobIds : Promote(j) \/ Stall(j) \/ Trim(j)
  PROVE  jobs'[k] = jobs[k]
<1>1. jobs \in [JobIds -> Job]
  BY DEF IndInv, TypeOK, QueueTypeOK
<1>2. ASSUME NEW w \in Workers, Finish(w) \/ Throw(w)
      PROVE  jobs'[k] = jobs[k]
  <2>1. FinishJob(w) \/ FailJob(w)
    BY <1>2 DEF Finish, Throw
  <2>2. CASE ~ Holds(w)
    BY <2>1, <2>2 DEF FinishJob, FailJob
  <2>3. CASE Holds(w)
    <3>1. running[w].job # k
      BY <2>3 DEF Holds
    <3> QED BY <1>1, <2>1, <2>3, <3>1 DEF FinishJob, FailJob
  <2> QED BY <2>2, <2>3
<1>3. ASSUME NEW j \in JobIds, Promote(j) \/ Stall(j) \/ Trim(j)
      PROVE  jobs'[k] = jobs[k]
  <2>1. j # k
    BY <1>3 DEF Promote, PromoteJob, Stall, StallJob, Trim, Ended
  <2> QED BY <1>1, <1>3, <2>1 DEF Promote, PromoteJob, Stall, StallJob, Trim
<1> QED BY <1>2, <1>3

\* A worker between taking a job and scheduling the next dies with its process.
BreaksSchedule(w) == work[w] = "taken" /\ Restart(w)

LEMMA ScheduleStep ==
  ASSUME IndInv, ScheduleKept, [Next]_vars, ~ \E w \in Workers : BreaksSchedule(w)
  PROVE  ScheduleKept'
<1>1. /\ jobs \in [JobIds -> Job] /\ pending \in {"none", "delayed", "due"}
      /\ work \in [Workers -> {"idle", "taken", "deleting", "done", "failed"}]
  BY DEF IndInv, TypeOK, QueueTypeOK
<1>2. ASSUME NEW j \in JobIds, Fire(j) PROVE ScheduleKept'
  <2>1. jobs'[j] = [NoJob EXCEPT !.state = "waiting", !.data = "cleanup"]
    BY <1>1, <1>2 DEF Fire, AddJob
  <2>2. jobs'[j].state = "waiting" /\ jobs'[j].runs = 0
    BY <2>1 DEF NoJob
  <2> QED BY <2>2 DEF ScheduleKept
<1>3. ASSUME NEW w \in Workers,
             Boot(w) \/ Process(w) \/ \E j \in JobIds : Take(w, j)
      PROVE  ScheduleKept'
  <2>1. CASE Boot(w) \/ Process(w)
    BY <2>1 DEF Boot, Process, ScheduleKept
  <2>2. CASE \E j \in JobIds : Take(w, j)
    <3>1. work'[w] = "taken"
      BY <1>1, <2>2 DEF Take
    <3> QED BY <3>1 DEF ScheduleKept
  <2> QED BY <1>3, <2>1, <2>2
<1>4. ASSUME \/ \E w \in Workers : Finish(w) \/ Throw(w)
             \/ \E j \in JobIds : Promote(j) \/ Stall(j) \/ Trim(j)
      PROVE  ScheduleKept'
  <2>1. UNCHANGED pending /\ \A w \in Workers : work[w] = "taken" => work'[w] = "taken"
    BY <1>1, <1>4 DEF Finish, Throw, Promote, Stall, Trim, Others, schedule, cleaners
  <2>2. CASE \E k \in JobIds : jobs[k].state = "waiting" /\ jobs[k].runs = 0
    <3>1. PICK k \in JobIds : jobs[k].state = "waiting" /\ jobs[k].runs = 0
      BY <2>2
    <3>2. jobs'[k] = jobs[k]
      BY <1>4, <3>1, WaitingStays
    <3> QED BY <3>1, <3>2 DEF ScheduleKept
  <2> QED BY <2>1, <2>2 DEF ScheduleKept
<1>5. ASSUME \/ \E e \in Entries : \/ \E w \in Workers : Log(e, w)
                                   \/ Store(e) \/ StoreFails(e)
             \/ \E w \in Workers : \/ Delete(w) \/ DeleteReplyLost(w) \/ DeleteFails(w)
                                   \/ LoseRedis(w) \/ RegainRedis(w) \/ Restart(w)
             \/ Tick
             \/ UNCHANGED vars
      PROVE  ScheduleKept'
  <2>1. UNCHANGED jobs
    BY <1>5 DEF Log, Store, StoreFails, Delete, DeleteReplyLost, DeleteOlderThan, DeleteFails,
       LoseRedis, RegainRedis, DropLink, Reconnect, Restart, RestartWorker, Tick, vars, queueVars
  <2>2. pending # "none" => pending' # "none"
    BY <1>5 DEF Log, Store, StoreFails, Delete, DeleteReplyLost, DeleteOlderThan, DeleteFails,
       LoseRedis, RegainRedis, Restart, Tick, vars, schedule, Others
  <2>3. \A w \in Workers : work[w] = "taken" => work'[w] = "taken"
    BY <1>1, <1>5 DEF Log, Store, StoreFails, Delete, DeleteReplyLost, DeleteOlderThan, DeleteFails,
       LoseRedis, RegainRedis, Restart, BreaksSchedule, Tick, vars, cleaners, Others
  <2> QED BY <2>1, <2>2, <2>3 DEF ScheduleKept
<1> QED BY <1>2, <1>3, <1>4, <1>5 DEF Next

\* While every instance is up, there is a next clean-up.
AllUpIsScheduled == Workers # {} /\ (\A w \in Workers : booted[w]) => ScheduleKept

LEMMA BootStep == IndInv /\ AllUpIsScheduled /\ [Next]_vars => AllUpIsScheduled'
<1> SUFFICES ASSUME IndInv, AllUpIsScheduled, [Next]_vars, NEW v \in Workers,
                    \A w \in Workers : booted'[w]
             PROVE  ScheduleKept'
  BY DEF AllUpIsScheduled
<1>1. CASE \E w \in Workers : Boot(w)
  BY <1>1 DEF Boot, ScheduleKept
<1>2. CASE ~ \E w \in Workers : Boot(w)
  <2>1. ~ \E w \in Workers : Restart(w)
    BY DEF Restart, IndInv, TypeOK
  <2>2. UNCHANGED booted
    BY <1>2, <2>1 DEF Next, Log, Store, StoreFails, Take, Process, Delete, DeleteReplyLost,
       DeleteOlderThan, DeleteFails, Finish, Throw, LoseRedis, RegainRedis, Fire, Promote,
       Stall, Trim, Tick, vars, schedule, Others
  <2> QED BY <2>1, <2>2, ScheduleStep DEF AllUpIsScheduled, BreaksSchedule
<1> QED BY <1>1, <1>2

\* While all instances are up there is a next clean-up.  Failures, stalls and
\* outages never unschedule it; the end of a process does only between taking a
\* job and scheduling the next, and then each boot (AuditCronRegistrar.
\* onModuleInit), that of the same instance to begin with, makes up for it.
THEOREM ScheduleIsNeverLost ==
  Spec => /\ []AllUpIsScheduled
          /\ [][/\ ScheduleKept => ScheduleKept' \/ \E w \in Workers : BreaksSchedule(w)
                /\ \A w \in Workers : Boot(w) => ScheduleKept']_vars
<1> DEFINE Kept == /\ ScheduleKept => ScheduleKept' \/ \E w \in Workers : BreaksSchedule(w)
                   /\ \A w \in Workers : Boot(w) => ScheduleKept'
<1>1. Init => AllUpIsScheduled
  BY DEF Init, AllUpIsScheduled
<1>2. Spec => []AllUpIsScheduled
  BY <1>1, BootStep, Invariance, PTL DEF Spec
<1>3. IndInv /\ [Next]_vars => Kept
  <2>1. \A w \in Workers : Boot(w) => ScheduleKept'
    BY DEF Boot, ScheduleKept
  <2> QED BY <2>1, ScheduleStep
<1>4. Spec => [][Kept]_vars
  BY <1>3, Invariance, PTL DEF Spec
<1> QED BY <1>2, <1>4

\* A job that changes comes closer to its end, or had ended and is forgotten.
CloserOrForgotten ==
  \A k \in JobIds : jobs'[k] # jobs[k] =>
    \/ StepsLeft(jobs'[k]) < StepsLeft(jobs[k])
    \/ Ended(k) /\ jobs'[k] = NoJob

LEMMA NextIsCloser == IndInv /\ [Next]_vars => CloserOrForgotten
<1> SUFFICES ASSUME IndInv, [Next]_vars PROVE CloserOrForgotten
  OBVIOUS
<1>1. JobsOK
  BY DEF IndInv, TypeOK, QueueTypeOK, JobsOK
<1>2. Closer => CloserOrForgotten
  BY DEF Closer, CloserOrForgotten
<1>3. ASSUME NEW j \in JobIds, Fire(j) \/ Promote(j) \/ Stall(j) PROVE Closer
  BY <1>1, <1>3, PayloadAssumption, AddIsCloser, PromoteIsCloser, StallIsCloser
     DEF Fire, Promote, Stall
<1>4. ASSUME NEW w \in Workers, NEW j \in JobIds, Take(w, j) PROVE Closer
  BY <1>1, <1>4, TakeIsCloser DEF Take
<1>5. ASSUME NEW w \in Workers, Finish(w) \/ Throw(w) PROVE Closer
  <2>1. running[w] \in Run /\ (FinishJob(w) \/ FailJob(w))
    BY <1>5 DEF Finish, Throw, IndInv, WorkersHaveRuns
  <2> QED BY <1>1, <2>1, RunEndIsCloser
<1>6. ASSUME NEW j \in JobIds, Trim(j) PROVE CloserOrForgotten
  BY <1>1, <1>6 DEF Trim, JobsOK, CloserOrForgotten
<1>7. ASSUME \/ \E e \in Entries : \/ \E w \in Workers : Log(e, w)
                                   \/ Store(e) \/ StoreFails(e)
             \/ \E w \in Workers : \/ Boot(w) \/ Process(w)
                                   \/ Delete(w) \/ DeleteReplyLost(w) \/ DeleteFails(w)
                                   \/ LoseRedis(w) \/ RegainRedis(w) \/ Restart(w)
             \/ Tick
             \/ UNCHANGED vars
      PROVE  CloserOrForgotten
  <2>1. UNCHANGED jobs
    BY <1>7 DEF Log, Store, StoreFails, Boot, Process, Delete, DeleteReplyLost,
       DeleteOlderThan, DeleteFails,
       LoseRedis, RegainRedis, DropLink, Reconnect, Restart, RestartWorker, Tick, vars, queueVars
  <2> QED BY <2>1 DEF CloserOrForgotten
<1> QED BY <1>2, <1>3, <1>4, <1>5, <1>6, <1>7 DEF Next

\* No clean-up is retried, promoted or stalled for ever: the limits of
\* defaultJobOptions and of BullMQ bound the steps of its job.
THEOREM JobsAdvance == Spec => [][CloserOrForgotten]_vars
BY NextIsCloser, Invariance, PTL DEF Spec
=============================================================================
