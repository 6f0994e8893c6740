--------------------------- MODULE AuditRetention ---------------------------
(***************************************************************************)
(* The audit log: entries written by AuditService.log, and the daily job   *)
(* that deletes those older than the retention period.  An entry is dated  *)
(* by the instance that writes it, the cutoff by the instance that cleans  *)
(* up, and the cutoff is computed before the delete is awaited.            *)
(*                                                                         *)
(* Time is relative, so that it need not end: an entry has an age, a       *)
(* running clean-up the age from which it deletes, and both grow with every*)
(* tick.  Ages are measured on the clock of an instance that is not ahead. *)
(***************************************************************************)
EXTENDS JobQueue, Integers, FiniteSets

CONSTANTS Entries,    \* audit events, each logged once
          Retention,  \* ticks of the retention period
          Day,        \* ticks from one 02:00 to the next
          Skew,       \* ticks the clocks of instances may differ by
          MaxLag      \* ticks a database call may take (a bound)

ASSUME AttemptsAssumed == Attempts = 3   \* defaultJobOptions of app.module.ts
ASSUME TimeAssumption ==
  /\ Day \in Nat \ {0} /\ MaxLag \in Nat /\ Skew \in Nat
  /\ Retention \in Nat /\ MaxLag <= Retention
ASSUME PayloadAssumption == "cleanup" \in Payloads

\* Ages beyond this one make no difference (a bound).
Cap == Retention + MaxLag + 1

\* Nor how long ago a clean-up was reported, beyond this (a bound): no entry's
\* age is too high for a report that old.
Late == MaxLag + 1

VARIABLES phase,    \* entry -> where its log() is, or what became of it
          writer,   \* entry -> the instance whose insert of it is under way
          age,      \* entry written or stored -> now minus its createdAt
          ahead,    \* instance -> ticks its clock is ahead
          booted,   \* instance -> its modules are initialised
          pending,  \* the next iteration of the repeated job, kept by Redis
          hour,     \* ticks since 02:00
          work,     \* worker -> how far its run of process() is
          waited,   \* worker -> ticks since it computed its cutoff
          report    \* ticks since the cutoff of the last clean-up logged as completed

entries == <<phase, writer, age>>
schedule == <<booted, pending, hour>>
cleaners == <<work, waited, report>>
vars == <<entries, schedule, cleaners, ahead, queueVars>>

Smaller(m, n) == IF m <= n THEN m ELSE n

Init ==
  /\ phase = [e \in Entries |-> "idle"] /\ writer = [e \in Entries |-> None]
  /\ age = [e \in Entries |-> 0]
  /\ ahead \in [Workers -> 0 .. Skew]
  /\ booted = [w \in Workers |-> FALSE]
  /\ pending = "none" /\ hour = 0
  /\ work = [w \in Workers |-> "idle"] /\ waited = [w \in Workers |-> 0]
  /\ report = Late
  /\ QueueInit

-----------------------------------------------------------------------------
\* log(event): the client dates the entry by its own clock and sends the insert.
Log(e, w) ==
  /\ phase[e] = "idle" /\ booted[w]
  /\ phase' = [phase EXCEPT ![e] = "writing"] /\ writer' = [writer EXCEPT ![e] = w]
  /\ age' = [age EXCEPT ![e] = - ahead[w]]
  /\ UNCHANGED <<schedule, cleaners, ahead, queueVars>>

\* The insert is executed.  Whether its reply arrives makes no difference:
\* log() resolves either way.
Store(e) ==
  /\ phase[e] = "writing"
  /\ phase' = [phase EXCEPT ![e] = "stored"] /\ writer' = [writer EXCEPT ![e] = None]
  /\ UNCHANGED <<age, schedule, cleaners, ahead, queueVars>>

\* Mutant: log() rethrows what the database reported.
StoreFailureRethrown(e) ==
  /\ phase[e] = "writing"
  /\ phase' = [phase EXCEPT ![e] = "rejected"] /\ writer' = [writer EXCEPT ![e] = None]
  /\ age' = [age EXCEPT ![e] = 0]
  /\ UNCHANGED <<schedule, cleaners, ahead, queueVars>>

\* The insert fails; log() writes the event to the service's log and resolves.
StoreFails(e) ==
  /\ phase[e] = "writing"
  /\ phase' = [phase EXCEPT ![e] = "lost"] /\ writer' = [writer EXCEPT ![e] = None]
  /\ age' = [age EXCEPT ![e] = 0]
  /\ UNCHANGED <<schedule, cleaners, ahead, queueVars>>

-----------------------------------------------------------------------------
\* An instance starts: onModuleInit awaits the add of the repeated job, which
\* leaves alone the iteration that is pending already.
Boot(w) ==
  /\ ~ booted[w] /\ link[w]
  /\ booted' = [booted EXCEPT ![w] = TRUE]
  /\ pending' = IF pending = "none" THEN "delayed" ELSE pending
  /\ UNCHANGED <<hour, entries, cleaners, ahead, queueVars>>

\* An iteration whose time has come is a job like any other.
Fire(j) ==
  /\ pending = "due" /\ \E w \in Workers : link[w]
  /\ AddJob(j, "cleanup")
  /\ pending' = "none"
  /\ UNCHANGED <<booted, hour, entries, cleaners, ahead>>

\* A worker takes the job.
Take(w, j) ==
  /\ booted[w] /\ TakeJob(w, j)
  /\ work' = [work EXCEPT ![w] = "taken"]
  /\ UNCHANGED <<waited, report, entries, schedule, ahead>>

\* Mutant: the job is added with a delay to the next 02:00 instead of a repeat
\* pattern, so that nothing follows it.
ProcessOnce(w) ==
  /\ work[w] = "taken" /\ link[w]
  /\ work' = [work EXCEPT ![w] = "deleting"]
  /\ UNCHANGED <<schedule, entries, waited, report, ahead, queueVars>>

\* BullMQ schedules the next iteration, by a command of its own that waits for
\* the connection, and then calls process(job), which computes the cutoff and
\* sends the delete.
Process(w) ==
  /\ work[w] = "taken" /\ link[w]
  /\ work' = [work EXCEPT ![w] = "deleting"]
  /\ pending' = IF pending = "none" THEN "delayed" ELSE pending
  /\ UNCHANGED <<booted, hour, entries, waited, report, ahead, queueVars>>

\* Mutant: entries as old as the cutoff are deleted too (lte).
ExpiredOnCutoff(w) ==
  {e \in Entries : phase[e] = "stored" /\ age[e] >= Retention + waited[w] - ahead[w]}

\* createdAt < cutoff, where cutoff is the worker's clock at the start of its
\* run, less the retention period.
Expired(w) ==
  {e \in Entries : phase[e] = "stored" /\ age[e] > Retention + waited[w] - ahead[w]}

DeleteOlderThan(w) ==
  /\ work[w] = "deleting"
  /\ phase' = [e \in Entries |-> IF e \in Expired(w) THEN "deleted" ELSE phase[e]]
  /\ age' = [e \in Entries |-> IF e \in Expired(w) THEN 0 ELSE age[e]]
  /\ waited' = [waited EXCEPT ![w] = 0]
  /\ UNCHANGED <<writer, schedule, ahead, queueVars>>

\* Mutant: a clean-up that finds another one under way leaves the deleting to it.
DeleteUnlessOther(w) ==
  /\ work[w] = "deleting" /\ work' = [work EXCEPT ![w] = "done"] /\ report' = waited[w]
  /\ IF \E v \in Workers \ {w} : work[v] = "deleting"
     THEN waited' = [waited EXCEPT ![w] = 0] /\ UNCHANGED <<entries, schedule, ahead, queueVars>>
     ELSE DeleteOlderThan(w)

\* The delete is executed and its count arrives: the clean-up is logged as completed.
Delete(w) ==
  /\ DeleteOlderThan(w)
  /\ work' = [work EXCEPT ![w] = "done"] /\ report' = waited[w]

\* The delete is executed, its reply is lost: process() rejects.
DeleteReplyLost(w) ==
  /\ DeleteOlderThan(w)
  /\ work' = [work EXCEPT ![w] = "failed"] /\ UNCHANGED report

\* Mutant: the rejection is caught as in AuditService.log, the run goes on to its log line.
DeleteFailureSwallowed(w) ==
  /\ work[w] = "deleting"
  /\ work' = [work EXCEPT ![w] = "done"] /\ report' = waited[w]
  /\ waited' = [waited EXCEPT ![w] = 0]
  /\ UNCHANGED <<entries, schedule, ahead, queueVars>>

\* The database fails or cannot be reached: process() rejects.
DeleteFails(w) ==
  /\ work[w] = "deleting"
  /\ work' = [work EXCEPT ![w] = "failed"] /\ waited' = [waited EXCEPT ![w] = 0]
  /\ UNCHANGED <<report, entries, schedule, ahead, queueVars>>

Finish(w) ==
  /\ work[w] = "done" /\ FinishJob(w)
  /\ work' = [work EXCEPT ![w] = "idle"]
  /\ UNCHANGED <<waited, report, entries, schedule, ahead>>

Throw(w) ==
  /\ work[w] = "failed" /\ FailJob(w)
  /\ work' = [work EXCEPT ![w] = "idle"]
  /\ UNCHANGED <<waited, report, entries, schedule, ahead>>

-----------------------------------------------------------------------------
\* Time passes for entries, clean-ups and the schedule alike.  A database call
\* takes at most MaxLag ticks.
Tick ==
  /\ \A e \in Entries : phase[e] = "writing" => age[e] + ahead[writer[e]] < MaxLag
  /\ \A w \in Workers : work[w] = "deleting" => waited[w] < MaxLag
  /\ age' = [e \in Entries |-> IF phase[e] \in {"writing", "stored"}
                               THEN Smaller(age[e] + 1, Cap) ELSE age[e]]
  /\ waited' = [w \in Workers |-> IF work[w] = "deleting" THEN waited[w] + 1 ELSE waited[w]]
  /\ report' = Smaller(report + 1, Late)
  /\ hour' = IF hour + 1 < Day THEN hour + 1 ELSE 0
  /\ pending' = IF pending = "delayed" /\ hour' = 0 THEN "due" ELSE pending
  /\ UNCHANGED <<phase, writer, work, booted, ahead, queueVars>>

Others == <<entries, schedule, cleaners, ahead>>

Promote(j) == PromoteJob(j) /\ UNCHANGED Others
Stall(j) == StallJob(j) /\ UNCHANGED Others
LoseRedis(w) == DropLink(w) /\ UNCHANGED Others
RegainRedis(w) == Reconnect(w) /\ UNCHANGED Others

\* Redis forgets a job that has ended (removeOnComplete, removeOnFail).
Trim(j) ==
  /\ Ended(j)
  /\ jobs' = [jobs EXCEPT ![j] = NoJob]
  /\ UNCHANGED <<running, link, Others>>

\* The process ends where it is and is started again.
Restart(w) ==
  /\ RestartWorker(w)
  /\ booted' = [booted EXCEPT ![w] = FALSE] /\ work' = [work EXCEPT ![w] = "idle"]
  /\ phase' = [e \in Entries |-> IF writer[e] = w
                                 THEN "lost" ELSE phase[e]]
  /\ writer' = [e \in Entries |-> IF writer[e] = w THEN None ELSE writer[e]]
  /\ age' = [e \in Entries |-> IF writer[e] = w THEN 0 ELSE age[e]]
  /\ waited' = [waited EXCEPT ![w] = 0]
  /\ UNCHANGED <<pending, hour, report, ahead>>

Next ==
  \/ \E e \in Entries : \/ \E w \in Workers : Log(e, w)
                        \/ Store(e) \/ StoreFails(e)
  \/ \E w \in Workers : \/ Boot(w) \/ \E j \in JobIds : Take(w, j)
                        \/ Process(w) \/ Delete(w) \/ DeleteReplyLost(w) \/ DeleteFails(w)
                        \/ Finish(w) \/ Throw(w)
                        \/ LoseRedis(w) \/ RegainRedis(w) \/ Restart(w)
  \/ \E j \in JobIds : Fire(j) \/ Promote(j) \/ Stall(j) \/ Trim(j)
  \/ Tick

Spec == Init /\ [][Next]_vars

-----------------------------------------------------------------------------
TypeOK ==
  /\ phase \in [Entries -> {"idle", "writing", "stored", "lost", "deleted"}]
  /\ writer \in [Entries -> Workers \cup {None}]
  /\ age \in [Entries -> Int]
  /\ ahead \in [Workers -> 0 .. Skew]
  /\ booted \in [Workers -> BOOLEAN]
  /\ pending \in {"none", "delayed", "due"} /\ hour \in 0 .. Day - 1
  /\ work \in [Workers -> {"idle", "taken", "deleting", "done", "failed"}]
  /\ waited \in [Workers -> 0 .. MaxLag] /\ report \in 0 .. Late
  /\ QueueTypeOK

\* An entry is never deleted before its retention period is over, up to the
\* difference of the clocks: not by a run that was retried, repeated after a
\* stall, or delayed between its cutoff and its delete.
NoneDeletedEarly ==
  [][\A e \in Entries : phase[e] = "stored" /\ phase'[e] = "deleted"
                        => age[e] > Retention - Skew]_vars

\* A clean-up that is logged as completed was one: no entry is left that was
\* older than the retention period at its cutoff, those included whose insert
\* was under way.
ReportIsTrue ==
  \A e \in Entries : phase[e] = "stored" => age[e] <= Retention + report

\* The promise of RetentionLedger, which knows of no job, worker or clock.
Ledger == INSTANCE RetentionLedger WITH status <- phase, clean <- report, Lag <- MaxLag

\* Whatever the queue, the clocks and the instances do, entries are kept and
\* deleted as the ledger says.
ImplementsLedger == Ledger!Spec

-----------------------------------------------------------------------------
\* Time goes on, database calls settle, connected workers keep working; and the
\* database is not down at every run there will be: of deletes without end one
\* is executed.  That an ended instance boots again is a premise, not fairness.
Fairness ==
  /\ WF_vars(Tick)
  /\ \A e \in Entries : WF_vars(Store(e) \/ StoreFails(e))
  /\ \A w \in Workers : /\ SF_vars(Delete(w) \/ DeleteReplyLost(w))
                        /\ WF_vars(DeleteFails(w))
                        /\ SF_vars(Finish(w) \/ Throw(w))
                        /\ SF_vars(\E j \in JobIds : Take(w, j)) /\ SF_vars(Process(w))
  /\ \A j \in JobIds : SF_vars(Fire(j)) /\ SF_vars(Promote(j) \/ Stall(j))
                       /\ WF_vars(Trim(j))

FairSpec == Spec /\ Fairness

\* Every stored entry is deleted in the end, across failed runs, restarts and
\* outages, as long as instances keep coming back and keep reaching Redis.
EveryEntryExpires ==
  (\A w \in Workers : []<> booted[w] /\ []<> link[w]) =>
  \A e \in Entries : phase[e] = "stored" ~> phase[e] = "deleted"
=============================================================================
