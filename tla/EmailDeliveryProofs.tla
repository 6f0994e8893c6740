------------------------ MODULE EmailDeliveryProofs ------------------------
(***************************************************************************)
(* Proofs about EmailDelivery, for every number of e-mails, jobs, workers  *)
(* and stalls.  The bound on deliveries is not inductive: it follows from  *)
(* an account of every run of a job (each ended in a failed attempt, a     *)
(* stall, or completion, or goes on), and from every run having at most    *)
(* one message under way or accepted, whoever holds the job's lock.        *)
(***************************************************************************)
EXTENDS EmailDelivery, JobQueueProofs, FiniteSetTheorems

\* The workers that have a message of job j under way.
Sending(j) == {w \in Workers : mail[w] = "sending" /\ running[w].job = j}

RunsCoverDeliveries ==
  \A j \in JobIds : delivered[j] + Cardinality(Sending(j)) <= jobs[j].runs

\* A worker that sends has a job; when it has sent, a message was accepted.
MailFollowsRun ==
  \A w \in Workers : /\ mail[w] # "idle" => running[w] \in Run
                     /\ mail[w] = "sent" => delivered[running[w].job] > 0

AddsAreQueued ==
  \A e \in Emails : pc[e] \in {"added", "enqueued"} => \E j \in JobIds : jobs[j].data = e

IndInv == /\ TypeOK /\ JobsAccounted /\ RunsCoverDeliveries /\ MailFollowsRun
          /\ AddsAreQueued /\ CompletedWasDelivered

-----------------------------------------------------------------------------
\* With no e-mail sent and no job queued the invariant holds.
LEMMA InitInv == Init => IndInv
<1> SUFFICES ASSUME Init PROVE IndInv
  OBVIOUS
<1>1. \A j \in JobIds : jobs[j] = NoJob
  BY DEF Init, QueueInit
<1>2. NoJob \in Job /\ Accounted(NoJob) /\ NoJob.state = "absent" /\ NoJob.runs = 0
  BY AttemptsAssumption, MaxStallsAssumption DEF NoJob, Job, States, Accounted
<1>3. TypeOK
  BY <1>2 DEF Init, TypeOK, QueueInit, QueueTypeOK
<1>4. JobsAccounted /\ CompletedWasDelivered
  BY <1>1, <1>2 DEF JobsAccounted, CompletedWasDelivered
<1>5. RunsCoverDeliveries
  <2>1. \A j \in JobIds : Sending(j) = {}
    BY DEF Init, Sending
  <2>2. \A j \in JobIds : Cardinality(Sending(j)) = 0
    BY <2>1, FS_EmptySet
  <2> SUFFICES ASSUME NEW j \in JobIds
               PROVE  delivered[j] + Cardinality(Sending(j)) <= jobs[j].runs
    BY DEF RunsCoverDeliveries
  <2>3. delivered[j] = 0 /\ jobs[j].runs = 0 /\ Cardinality(Sending(j)) = 0
    BY <1>1, <1>2, <2>2 DEF Init
  <2> QED BY <2>3
<1>6. MailFollowsRun /\ AddsAreQueued
  BY DEF Init, MailFollowsRun, AddsAreQueued
<1> QED BY <1>3, <1>4, <1>5, <1>6 DEF IndInv

\* The workers that send are finitely many, and fewer when some stop.
LEMMA SendersAreFinite ==
  ASSUME NEW j \in JobIds
  PROVE  IsFiniteSet(Sending(j)) /\ Cardinality(Sending(j)) \in Nat
<1>1. Sending(j) \subseteq Workers
  BY DEF Sending
<1> QED BY <1>1, BoundsAssumption, FS_Subset, FS_CardinalityType

\* No step but a delivery and a take needs more of the count than this.
LEMMA CountKept ==
  ASSUME TypeOK, TypeOK', RunsCoverDeliveries, RunsGrow, UNCHANGED delivered,
         \A k \in JobIds : Sending(k)' \subseteq Sending(k)
  PROVE  RunsCoverDeliveries'
<1> SUFFICES ASSUME NEW k \in JobIds
             PROVE  delivered[k] + Cardinality(Sending(k)') <= jobs'[k].runs
  BY DEF RunsCoverDeliveries
<1>1. IsFiniteSet(Sending(k)) /\ Cardinality(Sending(k)) \in Nat
  BY SendersAreFinite
<1> DEFINE S == Sending(k)
           T == Sending(k)'
<1>2. Cardinality(T) \in Nat /\ Cardinality(T) <= Cardinality(S)
  <2>1. T \in SUBSET S /\ IsFiniteSet(S)
    BY <1>1
  <2> HIDE DEF S, T
  <2> QED BY <2>1, FS_Subset, FS_CardinalityType
<1>3. jobs[k].runs \in Nat /\ jobs'[k].runs \in Nat /\ delivered[k] \in Nat
  BY DEF TypeOK, QueueTypeOK, Job
<1>4. delivered[k] + Cardinality(Sending(k)) <= jobs[k].runs /\ jobs'[k].runs >= jobs[k].runs
  BY DEF RunsCoverDeliveries, RunsGrow
<1> HIDE DEF S, T
<1>5. delivered[k] + Cardinality(S) <= jobs[k].runs
  BY <1>4 DEF S
<1>6. Cardinality(S) \in Nat
  BY <1>1 DEF S
<1>7. delivered[k] + Cardinality(T) <= jobs'[k].runs
  BY <1>2, <1>3, <1>4, <1>5, <1>6
<1> QED BY <1>7 DEF T

\* A step that delivers nothing, starts no run and keeps the jobs' data keeps
\* the invariant, provided a job it completes was delivered.
LEMMA QuietStep ==
  ASSUME IndInv, TypeOK', JobsAccounted', SameData, RunsGrow, UNCHANGED delivered,
         \A k \in JobIds : jobs'[k].state = "completed"
                           => jobs[k].state = "completed" \/ delivered[k] > 0,
         \A k \in JobIds : Sending(k)' \subseteq Sending(k),
         MailFollowsRun',
         \A e \in Emails : pc'[e] \in {"added", "enqueued"} => pc[e] \in {"added", "enqueued"}
  PROVE  IndInv'
<1>1. RunsCoverDeliveries'
  BY CountKept DEF IndInv
<1>2. AddsAreQueued'
  BY DEF IndInv, AddsAreQueued, SameData
<1>3. CompletedWasDelivered'
  BY DEF IndInv, CompletedWasDelivered
<1> QED BY <1>1, <1>2, <1>3 DEF IndInv

\* The steps of the callers other than an executed add.
LEMMA CallerInv ==
  ASSUME IndInv,
         \/ \E e \in Emails : \/ \E w \in Workers : Send(e, w)
                              \/ Reply(e) \/ AddRejected(e)
         \/ UNCHANGED vars
  PROVE  IndInv'
<1> USE DEF IndInv, TypeOK, QueueTypeOK, queueVars, callers
<1>1. UNCHANGED <<mail, delivered, jobs, running, link>>
  BY DEF Send, Reply, AddRejected, vars
<1>2. TypeOK'
  <2>1. pc' \in [Emails -> {"idle"} \cup InFlight \cup Outcomes]
    BY DEF Send, Reply, AddRejected, vars, InFlight, Outcomes
  <2>2. home' \in [Emails -> Workers \cup {None}] /\ sends' \in [Emails -> Nat]
    BY DEF Send, Reply, AddRejected, vars
  <2> QED BY <1>1, <2>1, <2>2
<1>3. \A e \in Emails : pc'[e] \in {"added", "enqueued"} => pc[e] \in {"added", "enqueued"}
  BY DEF Send, Reply, AddRejected, vars
<1>4. JobsAccounted' /\ SameData /\ RunsGrow /\ NoneCompletes
  BY <1>1 DEF JobsAccounted, SameData, RunsGrow, NoneCompletes, Job
<1>5. MailFollowsRun' /\ \A k \in JobIds : Sending(k)' \subseteq Sending(k)
  BY <1>1 DEF MailFollowsRun, Sending
<1> QED BY <1>1, <1>2, <1>3, <1>4, <1>5, QuietStep DEF NoneCompletes

\* The add of EmailService.send keeps it: the new job has had no run.
LEMMA AddInv ==
  ASSUME IndInv, NEW e \in Emails, NEW j \in JobIds, Add(e, j)
  PROVE  IndInv'
<1>1. JobsOK /\ TypeOK
  BY DEF IndInv, TypeOK, QueueTypeOK, JobsOK
<1>2. /\ AddJob(j, e) /\ pc' = [pc EXCEPT ![e] = "added"]
      /\ UNCHANGED <<home, sends, mail, delivered, running, link>>
  BY DEF Add, AddJob
<1>3. /\ JobsOK' /\ RunsGrow /\ NoneCompletes /\ jobs'[j].data = e
      /\ \A k \in JobIds \ {j} : jobs'[k] = jobs[k]
      /\ jobs[j].data \notin Emails
  BY <1>1, <1>2, AddKeepsJobs DEF Emails
<1>4. TypeOK'
  BY <1>1, <1>2, <1>3 DEF TypeOK, QueueTypeOK, JobsOK, InFlight
<1>5. MailFollowsRun' /\ \A k \in JobIds : Sending(k)' \subseteq Sending(k)
  BY <1>2 DEF IndInv, MailFollowsRun, Sending
<1>6. RunsCoverDeliveries'
  BY <1>1, <1>2, <1>3, <1>4, <1>5, CountKept DEF IndInv
<1>7. AddsAreQueued'
  <2> SUFFICES ASSUME NEW f \in Emails, pc'[f] \in {"added", "enqueued"}
               PROVE  \E k \in JobIds : jobs'[k].data = f
    BY DEF AddsAreQueued
  <2>1. CASE f = e
    BY <2>1, <1>3
  <2>2. CASE f # e
    <3>1. PICK k \in JobIds : jobs[k].data = f
      BY <2>2, <1>1, <1>2 DEF IndInv, AddsAreQueued, TypeOK
    <3> QED BY <3>1, <1>3
  <2> QED BY <2>1, <2>2
<1>8. CompletedWasDelivered'
  BY <1>2, <1>3 DEF IndInv, CompletedWasDelivered, NoneCompletes
<1> QED BY <1>3, <1>4, <1>5, <1>6, <1>7, <1>8 DEF IndInv, JobsOK

\* A run that starts has one message under way, and is one run more.
LEMMA TakeInv ==
  ASSUME IndInv, NEW w \in Workers, NEW j \in JobIds, Take(w, j)
  PROVE  IndInv'
<1>1. JobsOK /\ TypeOK
  BY DEF IndInv, TypeOK, QueueTypeOK, JobsOK
<1> DEFINE r == [job |-> j, run |-> jobs[j].runs + 1]
<1>2. /\ TakeJob(w, j) /\ running' = [running EXCEPT ![w] = r]
      /\ mail' = [mail EXCEPT ![w] = "sending"]
      /\ UNCHANGED <<pc, home, sends, delivered, link>>
  BY DEF Take, TakeJob, callers
<1>3. JobsOK' /\ SameData /\ RunsGrow /\ NoneCompletes /\ jobs'[j].runs = jobs[j].runs + 1
  BY <1>1, <1>2, TakeKeepsJobs
<1>4. r \in Run /\ r.job = j
  BY <1>1 DEF Run, JobsOK, Job
<1>5. \A v \in Workers : /\ mail'[v] = IF v = w THEN "sending" ELSE mail[v]
                         /\ running'[v] = IF v = w THEN r ELSE running[v]
  BY <1>1, <1>2 DEF TypeOK, QueueTypeOK
<1>6. TypeOK'
  BY <1>1, <1>2, <1>3, <1>4 DEF TypeOK, QueueTypeOK, JobsOK
<1>7. MailFollowsRun'
  BY <1>2, <1>4, <1>5 DEF IndInv, MailFollowsRun
<1>8. RunsCoverDeliveries'
  <2> SUFFICES ASSUME NEW k \in JobIds
               PROVE  delivered[k] + Cardinality(Sending(k)') <= jobs'[k].runs
    BY <1>2 DEF RunsCoverDeliveries
  <2> DEFINE S == Sending(k)
             T == Sending(k)'
  <2>1. IsFiniteSet(S) /\ Cardinality(S) \in Nat
    BY SendersAreFinite
  <2>2. k # j => T \in SUBSET S
    BY <1>4, <1>5 DEF Sending
  <2>3. k = j => T \in SUBSET (S \cup {w})
    BY <1>4, <1>5 DEF Sending
  <2>4. /\ delivered[k] + Cardinality(S) <= jobs[k].runs
        /\ jobs[k].runs \in Nat /\ jobs'[k].runs \in Nat /\ delivered[k] \in Nat
    BY <1>1, <1>3 DEF IndInv, RunsCoverDeliveries, TypeOK, JobsOK, Job
  <2> HIDE DEF S, T
  <2>5. CASE k # j
    <3>1. Cardinality(T) \in Nat /\ Cardinality(T) <= Cardinality(S)
      BY <2>1, <2>2, <2>5, FS_Subset, FS_CardinalityType
    <3>2. jobs'[k].runs >= jobs[k].runs
      BY <1>3 DEF RunsGrow
    <3>3. delivered[k] + Cardinality(T) <= jobs'[k].runs
      BY <2>1, <2>4, <3>1, <3>2
    <3> QED BY <3>3 DEF T
  <2>6. CASE k = j
    <3>1. /\ IsFiniteSet(S \cup {w}) /\ Cardinality(S \cup {w}) \in Nat
          /\ Cardinality(S \cup {w}) <= Cardinality(S) + 1
      <4>1. /\ IsFiniteSet(S \cup {w})
            /\ Cardinality(S \cup {w}) = Cardinality(S) \/ Cardinality(S \cup {w}) = Cardinality(S) + 1
        BY <2>1, FS_AddElement
      <4> QED BY <2>1, <4>1
    <3>2. Cardinality(T) \in Nat /\ Cardinality(T) <= Cardinality(S \cup {w})
      BY <2>3, <2>6, <3>1, FS_Subset, FS_CardinalityType
    <3>3. delivered[k] + Cardinality(T) <= jobs'[k].runs
      BY <1>3, <2>1, <2>4, <2>6, <3>1, <3>2
    <3> QED BY <3>3 DEF T
  <2> QED BY <2>5, <2>6
<1>9. AddsAreQueued'
  BY <1>2, <1>3 DEF IndInv, AddsAreQueued, SameData
<1>10. CompletedWasDelivered'
  BY <1>2, <1>3 DEF IndInv, CompletedWasDelivered, NoneCompletes
<1> QED BY <1>3, <1>6, <1>7, <1>8, <1>9, <1>10 DEF IndInv, JobsOK

\* An accepted message is no longer under way.
LEMMA DeliverInv ==
  ASSUME IndInv, NEW w \in Workers, Deliver(w) \/ DeliverReplyLost(w)
  PROVE  IndInv'
<1> DEFINE j == running[w].job
<1>1. JobsOK /\ TypeOK
  BY DEF IndInv, TypeOK, QueueTypeOK, JobsOK
<1>2. /\ mail[w] = "sending" /\ delivered' = [delivered EXCEPT ![j] = @ + 1]
      /\ \/ mail' = [mail EXCEPT ![w] = "sent"]
         \/ mail' = [mail EXCEPT ![w] = "refused"]
      /\ UNCHANGED <<pc, home, sends, jobs, running, link>>
  BY DEF Deliver, DeliverReplyLost, Accepted, callers, queueVars
<1>3. j \in JobIds
  BY <1>2 DEF IndInv, MailFollowsRun, Run
<1>4. \A k \in JobIds : /\ delivered[k] \in Nat
                        /\ delivered'[k] = IF k = j THEN delivered[k] + 1 ELSE delivered[k]
  BY <1>1, <1>2, <1>3 DEF TypeOK
<1>5. \A v \in Workers : IF v = w THEN mail'[v] \in {"sent", "refused"} ELSE mail'[v] = mail[v]
  BY <1>1, <1>2 DEF TypeOK
<1>6. TypeOK'
  BY <1>1, <1>2, <1>3 DEF TypeOK, QueueTypeOK
<1>7. MailFollowsRun'
  <2> SUFFICES ASSUME NEW v \in Workers
               PROVE  /\ mail'[v] # "idle" => running[v] \in Run
                      /\ mail'[v] = "sent" => delivered'[running[v].job] > 0
    BY <1>2 DEF MailFollowsRun
  <2>1. CASE v = w
    BY <2>1, <1>2, <1>3, <1>4 DEF IndInv, MailFollowsRun
  <2>2. CASE v # w
    <3>1. mail'[v] = mail[v]
      BY <2>2, <1>5
    <3>2. mail[v] = "sent" => running[v].job \in JobIds /\ delivered[running[v].job] > 0
      BY DEF IndInv, MailFollowsRun, Run
    <3> QED BY <3>1, <3>2, <1>4 DEF IndInv, MailFollowsRun
  <2> QED BY <2>1, <2>2
<1>8. RunsCoverDeliveries'
  <2> SUFFICES ASSUME NEW k \in JobIds
               PROVE  delivered'[k] + Cardinality(Sending(k)') <= jobs[k].runs
    BY <1>2 DEF RunsCoverDeliveries
  <2> DEFINE S == Sending(k)
             T == Sending(k)'
  <2>1. IsFiniteSet(S) /\ Cardinality(S) \in Nat
    BY SendersAreFinite
  <2>2. k # j => T = S
    BY <1>2, <1>5 DEF Sending
  <2>3. k = j => w \in S /\ T = S \ {w}
    BY <1>2, <1>5 DEF Sending
  <2>4. delivered[k] + Cardinality(S) <= jobs[k].runs /\ jobs[k].runs \in Nat
    BY <1>1 DEF IndInv, RunsCoverDeliveries, JobsOK, Job
  <2> HIDE DEF S, T
  <2>5. CASE k # j
    BY <1>4, <2>2, <2>4, <2>5 DEF T
  <2>6. CASE k = j
    <3>1. w \in S /\ T = S \ {w}
      BY <2>3, <2>6
    <3>2. Cardinality(T) = Cardinality(S) - 1
      BY <2>1, <3>1, FS_RemoveElement
    <3>3. delivered'[k] = delivered[k] + 1 /\ delivered[k] \in Nat
      BY <1>4, <2>6
    <3>4. delivered'[k] + Cardinality(T) <= jobs[k].runs
      BY <2>1, <2>4, <3>2, <3>3
    <3> QED BY <3>4 DEF T
  <2> QED BY <2>5, <2>6
<1>9. JobsAccounted' /\ AddsAreQueued'
  BY <1>2 DEF IndInv, JobsAccounted, AddsAreQueued
<1>10. CompletedWasDelivered'
  BY <1>2, <1>4 DEF IndInv, CompletedWasDelivered
<1> QED BY <1>6, <1>7, <1>8, <1>9, <1>10 DEF IndInv

\* A run that ends: the worker is idle, and a job it completes was delivered.
LEMMA EndOfRunInv ==
  ASSUME IndInv, NEW w \in Workers, Finish(w) \/ Throw(w)
  PROVE  IndInv'
<1>1. JobsOK /\ TypeOK
  BY DEF IndInv, TypeOK, QueueTypeOK, JobsOK
<1>2. /\ mail[w] \in {"sent", "refused"} /\ mail' = [mail EXCEPT ![w] = "idle"]
      /\ running' = [running EXCEPT ![w] = None]
      /\ UNCHANGED <<pc, home, sends, delivered, link>>
  BY DEF Finish, Throw, FinishJob, FailJob, callers
<1>3. running[w] \in Run
  BY <1>2 DEF IndInv, MailFollowsRun
<1>4. /\ JobsOK' /\ SameData /\ RunsGrow
      /\ \A k \in JobIds : jobs'[k].state = "completed"
                           => jobs[k].state = "completed" \/ delivered[k] > 0
  <2>1. CASE Finish(w)
    <3>1. mail[w] = "sent" /\ FinishJob(w) /\ delivered[running[w].job] > 0
      BY <2>1 DEF Finish, IndInv, MailFollowsRun
    <3> QED BY <1>1, <1>3, <3>1, FinishKeepsJobs
  <2>2. CASE Throw(w)
    BY <1>1, <1>3, <2>2, FailKeepsJobs DEF Throw, NoneCompletes
  <2> QED BY <2>1, <2>2
<1>5. TypeOK'
  BY <1>1, <1>2, <1>4 DEF TypeOK, QueueTypeOK, JobsOK
<1>6. \A v \in Workers : /\ mail'[v] = IF v = w THEN "idle" ELSE mail[v]
                         /\ v # w => running'[v] = running[v]
  BY <1>1, <1>2 DEF TypeOK, QueueTypeOK
<1>7. MailFollowsRun' /\ \A k \in JobIds : Sending(k)' \subseteq Sending(k)
  BY <1>2, <1>6 DEF IndInv, MailFollowsRun, Sending
<1> QED BY <1>2, <1>4, <1>5, <1>7, QuietStep DEF JobsOK

\* The remaining steps of a worker and its instance.
LEMMA InstanceInv ==
  ASSUME IndInv, NEW w \in Workers,
         Refuse(w) \/ LoseRedis(w) \/ RegainRedis(w) \/ Restart(w)
  PROVE  IndInv'
<1> USE DEF queueVars, callers, DropLink, Reconnect, RestartWorker
<1>1. TypeOK
  BY DEF IndInv
<1>2. UNCHANGED <<delivered, jobs>>
  BY DEF Refuse, LoseRedis, RegainRedis, Restart
<1>3. TypeOK'
  <2>1. pc' \in [Emails -> {"idle"} \cup InFlight \cup Outcomes]
    BY <1>1 DEF Refuse, LoseRedis, RegainRedis, Restart, TypeOK, InFlight, Outcomes
  <2>2. home' \in [Emails -> Workers \cup {None}] /\ sends' \in [Emails -> Nat]
    BY <1>1 DEF Refuse, LoseRedis, RegainRedis, Restart, TypeOK
  <2>3. mail' \in [Workers -> {"idle", "sending", "sent", "refused"}]
    BY <1>1 DEF Refuse, LoseRedis, RegainRedis, Restart, TypeOK
  <2>4. QueueTypeOK'
    BY <1>1, <1>2 DEF Refuse, LoseRedis, RegainRedis, Restart, TypeOK, QueueTypeOK
  <2> QED BY <1>1, <1>2, <2>1, <2>2, <2>3, <2>4 DEF TypeOK
<1>4. \A e \in Emails : pc'[e] \in {"added", "enqueued"} => pc[e] \in {"added", "enqueued"}
  BY <1>1 DEF Refuse, LoseRedis, RegainRedis, Restart, TypeOK
<1>5. JobsAccounted' /\ SameData /\ RunsGrow /\ NoneCompletes
  BY <1>1, <1>2 DEF IndInv, JobsAccounted, SameData, RunsGrow, NoneCompletes, TypeOK,
     QueueTypeOK, Job
<1>6. \A v \in Workers : \/ mail'[v] = mail[v] /\ running'[v] = running[v]
                         \/ mail'[v] = "idle"
                         \/ mail'[v] = "refused" /\ mail[v] = "sending" /\ running'[v] = running[v]
  BY <1>1 DEF Refuse, LoseRedis, RegainRedis, Restart, TypeOK, QueueTypeOK
<1>7. MailFollowsRun' /\ \A k \in JobIds : Sending(k)' \subseteq Sending(k)
  BY <1>2, <1>6 DEF IndInv, MailFollowsRun, Sending
<1> QED BY <1>2, <1>3, <1>4, <1>5, <1>7, QuietStep DEF NoneCompletes

\* Promotion and the stalled check keep it.
LEMMA QueueInv ==
  ASSUME IndInv, NEW j \in JobIds, Promote(j) \/ Stall(j)
  PROVE  IndInv'
<1>1. JobsOK /\ TypeOK
  BY DEF IndInv, TypeOK, QueueTypeOK, JobsOK
<1>2. UNCHANGED <<pc, home, sends, mail, delivered, running, link>>
  BY DEF Promote, Stall, PromoteJob, StallJob, callers
<1>3. JobsOK' /\ SameData /\ RunsGrow /\ NoneCompletes
  BY <1>1, PromoteKeepsJobs, StallKeepsJobs DEF Promote, Stall
<1>4. TypeOK'
  BY <1>1, <1>2, <1>3 DEF TypeOK, QueueTypeOK, JobsOK
<1>5. MailFollowsRun' /\ \A k \in JobIds : Sending(k)' \subseteq Sending(k)
  BY <1>2 DEF IndInv, MailFollowsRun, Sending
<1> QED BY <1>2, <1>3, <1>4, <1>5, QuietStep DEF JobsOK, NoneCompletes

\* Every step of the specification keeps the invariant.
THEOREM NextInv == IndInv /\ [Next]_vars => IndInv'
<1> SUFFICES ASSUME IndInv, [Next]_vars PROVE IndInv'
  OBVIOUS
<1> QED BY CallerInv, AddInv, TakeInv, DeliverInv, EndOfRunInv, InstanceInv, QueueInv DEF Next

\* The inductive invariant holds throughout.
THEOREM Invariance == Spec => []IndInv
BY InitInv, NextInv, PTL DEF Spec

\* The account of the runs bounds the deliveries.
LEMMA BoundedByInv ==
  IndInv => \A j \in JobIds : delivered[j] <= Attempts + MaxStalls
<1> SUFFICES ASSUME IndInv, NEW j \in JobIds PROVE delivered[j] <= Attempts + MaxStalls
  OBVIOUS
<1>1. /\ delivered[j] \in Nat /\ jobs[j] \in Job /\ Accounted(jobs[j])
      /\ delivered[j] + Cardinality(Sending(j)) <= jobs[j].runs
      /\ Cardinality(Sending(j)) \in Nat
  BY SendersAreFinite DEF IndInv, TypeOK, QueueTypeOK, JobsAccounted, RunsCoverDeliveries
<1>2. jobs[j].runs \in Nat /\ jobs[j].runs <= Attempts + MaxStalls
  BY <1>1, AttemptsAssumption, MaxStallsAssumption DEF Accounted, Job, States
<1> QED BY <1>1, <1>2, AttemptsAssumption, MaxStallsAssumption

LEMMA BoundedByInvNext ==
  IndInv' => \A j \in JobIds : delivered'[j] <= Attempts + MaxStalls
<1>1. IndInv' => (\A j \in JobIds : delivered[j] <= Attempts + MaxStalls)'
  BY BoundedByInv, PTL
<1> QED BY <1>1

-----------------------------------------------------------------------------
(* The results. *)

\* Every variable keeps its type.
THEOREM Typing == Spec => []TypeOK
<1>1. IndInv => TypeOK
  BY DEF IndInv
<1> QED BY <1>1, Invariance, PTL

\* A send() that resolved (EmailService.send) left a job in the queue.
THEOREM SendIsSound == Spec => []SentIsQueued
<1>1. IndInv => SentIsQueued
  BY DEF IndInv, AddsAreQueued, SentIsQueued
<1> QED BY <1>1, Invariance, PTL

\* No e-mail the server never accepted ends in "completed" (the rethrow of
\* EmailProcessor.process).
THEOREM CompletionIsSound == Spec => []CompletedWasDelivered
<1>1. IndInv => CompletedWasDelivered
  BY DEF IndInv
<1> QED BY <1>1, Invariance, PTL

\* However often workers die or lose their locks, one job reaches the mail
\* server at most Attempts + MaxStalls times.
THEOREM RepetitionIsBounded == Spec => []DeliveriesBounded
<1>1. IndInv => DeliveriesBounded
  BY BoundedByInv DEF DeliveriesBounded
<1> QED BY <1>1, Invariance, PTL

\* An e-mail is given up only when its attempts or its stalls are used up.
THEOREM GivingUpIsLast == Spec => []FailedIsExhausted
<1>1. IndInv => FailedIsExhausted
  BY DEF IndInv, JobsAccounted, Accounted, FailedIsExhausted
<1> QED BY <1>1, Invariance, PTL

-----------------------------------------------------------------------------
(* EmailDelivery implements Outbox. *)

\* Jobs that do not change, nor callers in their ends, nor deliveries: nothing
\* the outbox sees.
LEMMA Unseen ==
  ASSUME UNCHANGED <<jobs, delivered>>,
         \A e \in Emails : pc'[e] = "enqueued" <=> pc[e] = "enqueued"
  PROVE  UNCHANGED (Mailbox!vars)
<1>1. Queued' = Queued /\ Content' = Content /\ Reports' = Reports
  BY DEF Queued, Content, Reports, Present
<1>2. Told' = Told
  BY DEF Told
<1> QED BY <1>1, <1>2 DEF Mailbox!vars

\* A step of the queue that touches one live job reports it, or is not seen.
LEMMA QueueStep ==
  ASSUME JobsOK, JobsOK', SameData, UNCHANGED <<pc, delivered>>,
         \/ jobs' = jobs
         \/ \E j \in JobIds : /\ Present(j) /\ ~ Ended(j) /\ jobs'[j].state # "absent"
                              /\ \A k \in JobIds \ {j} : jobs'[k] = jobs[k],
         \A k \in JobIds : jobs'[k].state = "completed"
                           => jobs[k].state = "completed" \/ delivered[k] > 0
  PROVE  [Mailbox!Next]_(Mailbox!vars)
<1>1. CASE jobs' = jobs
  BY <1>1, Unseen
<1>2. ASSUME NEW j \in JobIds, Present(j), ~ Ended(j), jobs'[j].state # "absent",
             \A k \in JobIds \ {j} : jobs'[k] = jobs[k]
      PROVE  [Mailbox!Next]_(Mailbox!vars)
  <2>1. Queued' = Queued /\ Told' = Told /\ Content' = Content
    BY <1>2 DEF Queued, Told, Content, Present, SameData
  <2>2. j \in Queued /\ Reports[j] = "open"
    BY <1>2 DEF Queued, Reports, Ended
  <2>3. Reports' = [Reports EXCEPT ![j] = Reports'[j]]
    BY <1>2 DEF Reports
  <2>4. /\ Reports'[j] \in {"open", "sent", "givenUp"}
        /\ Reports'[j] = "sent" => delivered[j] > 0
    BY <1>2 DEF Reports, Ended
  <2>5. CASE Reports'[j] = "open"
    <3>1. Reports' = Reports
      BY <2>2, <2>3, <2>5 DEF Reports
    <3> QED BY <2>1, <3>1 DEF Mailbox!vars
  <2>6. CASE Reports'[j] # "open"
    <3>1. Mailbox!Report(j, Reports'[j])
      BY <2>1, <2>2, <2>3, <2>4 DEF Mailbox!Report
    <3> QED BY <2>4, <2>6, <3>1 DEF Mailbox!Next
  <2> QED BY <2>5, <2>6
<1> QED BY <1>1, <1>2

\* Every step is a step of the outbox, or changes nothing it sees.
LEMMA OutboxStep == IndInv /\ IndInv' /\ [Next]_vars => [Mailbox!Next]_(Mailbox!vars)
<1> SUFFICES ASSUME IndInv, IndInv', [Next]_vars PROVE [Mailbox!Next]_(Mailbox!vars)
  OBVIOUS
<1> USE DEF callers, queueVars
<1>1. JobsOK /\ JobsOK' /\ TypeOK
  BY DEF IndInv, TypeOK, QueueTypeOK, JobsOK
<1>2. ASSUME NEW e \in Emails, NEW j \in JobIds, Add(e, j)
      PROVE  [Mailbox!Next]_(Mailbox!vars)
  <2>1. /\ AddJob(j, e) /\ pc' = [pc EXCEPT ![e] = "added"] /\ pc[e] = "adding"
        /\ UNCHANGED delivered
    BY <1>2 DEF Add
  <2>2. /\ jobs'[j].data = e /\ \A k \in JobIds \ {j} : jobs'[k] = jobs[k]
        /\ NoneCompletes
    BY <1>1, <2>1, AddKeepsJobs DEF Emails
  <2>3. jobs'[j].state = "waiting" /\ jobs[j].state = "absent"
    BY <1>1, <2>1 DEF AddJob, JobsOK, NoJob, Present
  <2>4. j \notin Queued /\ Queued' = Queued \cup {j}
    BY <2>2, <2>3 DEF Queued, Present
  <2>5. Content' = [Content EXCEPT ![j] = e] /\ Reports' = Reports
    BY <2>2, <2>3 DEF Content, Reports
  <2>6. Told' = Told
    BY <1>1, <2>1 DEF Told, TypeOK
  <2>7. Mailbox!Enqueue(j, e)
    BY <2>1, <2>4, <2>5, <2>6 DEF Mailbox!Enqueue
  <2> QED BY <2>7 DEF Mailbox!Next
<1>3. ASSUME NEW e \in Emails, Reply(e)
      PROVE  [Mailbox!Next]_(Mailbox!vars)
  <2>1. /\ pc[e] = "added" /\ pc' = [pc EXCEPT ![e] = "enqueued"]
        /\ UNCHANGED <<jobs, delivered>>
    BY <1>3 DEF Reply
  <2>2. PICK j \in JobIds : jobs[j].data = e
    BY <2>1 DEF IndInv, AddsAreQueued
  <2>3. jobs[j].state # "absent"
    BY <1>1, <2>2, NoneAssumption DEF JobsOK, JobsAccounted, Accounted, NoJob, Emails
  <2>4. j \in Queued /\ Content[j] = e
    BY <2>2, <2>3 DEF Queued, Content, Present
  <2>5. Queued' = Queued /\ Content' = Content /\ Reports' = Reports
    BY <2>1 DEF Queued, Content, Reports, Present
  <2>6. Told' = Told \cup {e}
    BY <1>1, <2>1 DEF Told, TypeOK
  <2>7. Mailbox!Tell(e)
    BY <2>1, <2>4, <2>5, <2>6 DEF Mailbox!Tell
  <2> QED BY <2>7 DEF Mailbox!Next
<1>4. ASSUME NEW w \in Workers, Deliver(w) \/ DeliverReplyLost(w)
      PROVE  [Mailbox!Next]_(Mailbox!vars)
  <2>0. PICK j \in JobIds : j = running[w].job
    BY <1>4 DEF Deliver, DeliverReplyLost, Accepted, IndInv, MailFollowsRun, Run
  <2>1. /\ mail[w] = "sending" /\ delivered' = [delivered EXCEPT ![j] = @ + 1]
        /\ UNCHANGED <<pc, jobs, running>>
    BY <1>4, <2>0 DEF Deliver, DeliverReplyLost, Accepted
  <2>2. j \in JobIds /\ delivered[j] \in Nat
    BY <1>1 DEF TypeOK
  <2>3. delivered'[j] <= Attempts + MaxStalls /\ delivered'[j] = delivered[j] + 1
    <3>1. \A k \in JobIds : delivered'[k] <= Attempts + MaxStalls
      BY BoundedByInvNext
    <3> QED BY <1>1, <2>1, <2>2, <3>1 DEF TypeOK
  <2>4. jobs[j].state # "absent"
    <3>1. delivered'[j] <= jobs[j].runs /\ jobs[j].runs \in Nat
      <4>1. delivered'[j] + Cardinality(Sending(j)') <= jobs'[j].runs
        BY <2>2 DEF IndInv, RunsCoverDeliveries, Sending
      <4>3. delivered'[j] \in Nat /\ jobs'[j].runs \in Nat
        BY <1>1, <2>1, <2>2 DEF TypeOK, JobsOK, Job
      <4>2. Cardinality(Sending(j)') \in Nat
        <5>1. Sending(j)' \subseteq Workers
          BY DEF Sending
        <5> QED BY <5>1, BoundsAssumption, FS_Subset, FS_CardinalityType
      <4> QED BY <2>1, <4>1, <4>2, <4>3
    <3>2. jobs[j].state = "absent" => jobs[j].runs = 0
      BY <1>1, <2>2 DEF JobsOK, JobsAccounted, Accounted, NoJob
    <3> QED BY <2>2, <2>3, <3>1, <3>2
  <2>5. j \in Queued
    BY <2>2, <2>4 DEF Queued, Present
  <2>6. Queued' = Queued /\ Content' = Content /\ Reports' = Reports /\ Told' = Told
    BY <2>1 DEF Queued, Content, Reports, Told, Present
  <2>7. delivered[j] < Attempts + MaxStalls
    BY <2>2, <2>3, AttemptsAssumption, MaxStallsAssumption
  <2>8. Mailbox!Accept(j)
    BY <2>1, <2>5, <2>6, <2>7 DEF Mailbox!Accept
  <2> QED BY <2>2, <2>8 DEF Mailbox!Next
<1>5. ASSUME \/ \E e \in Emails : \/ \E w \in Workers : Send(e, w)
                                  \/ AddRejected(e)
             \/ \E w \in Workers : Refuse(w) \/ LoseRedis(w) \/ RegainRedis(w) \/ Restart(w)
             \/ UNCHANGED vars
      PROVE  [Mailbox!Next]_(Mailbox!vars)
  <2>1. UNCHANGED <<jobs, delivered>>
    BY <1>5 DEF Send, AddRejected, Refuse, LoseRedis, RegainRedis, Restart, DropLink, Reconnect,
       RestartWorker, vars
  <2>2. \A e \in Emails : pc'[e] = "enqueued" <=> pc[e] = "enqueued"
    BY <1>1, <1>5 DEF Send, AddRejected, Refuse, LoseRedis, RegainRedis, Restart, vars, TypeOK,
       Unanswered, InFlight
  <2> QED BY <2>1, <2>2, Unseen
<1>6. ASSUME NEW w \in Workers, \/ \E j \in JobIds : Take(w, j)
                                \/ Finish(w) \/ Throw(w)
      PROVE  [Mailbox!Next]_(Mailbox!vars)
  <2>1. UNCHANGED <<pc, delivered>>
    BY <1>6 DEF Take, Finish, Throw
  <2>2. CASE \E j \in JobIds : Take(w, j)
    BY <1>1, <2>1, <2>2, TakeKeepsJobs, EndsAreFinal, QueueStep DEF Take, NoneCompletes
  <2>3. CASE Finish(w) \/ Throw(w)
    <3>1. /\ mail[w] \in {"sent", "refused"} /\ running[w] \in Run
          /\ FinishJob(w) \/ FailJob(w)
      BY <2>3 DEF Finish, Throw, IndInv, MailFollowsRun
    <3>2. /\ SameData
          /\ \A k \in JobIds : jobs'[k].state = "completed"
                               => jobs[k].state = "completed" \/ delivered[k] > 0
      <4>1. CASE Finish(w)
        <5>1. FinishJob(w) /\ delivered[running[w].job] > 0
          BY <4>1 DEF Finish, IndInv, MailFollowsRun
        <5> QED BY <1>1, <3>1, <5>1, FinishKeepsJobs
      <4>2. CASE Throw(w)
        BY <1>1, <3>1, <4>2, FailKeepsJobs DEF Throw, NoneCompletes
      <4> QED BY <2>3, <4>1, <4>2
    <3> QED BY <1>1, <2>1, <3>1, <3>2, EndsAreFinal, QueueStep
  <2> QED BY <1>6, <2>2, <2>3
<1>7. ASSUME NEW j \in JobIds, Promote(j) \/ Stall(j)
      PROVE  [Mailbox!Next]_(Mailbox!vars)
  <2>1. UNCHANGED <<pc, delivered>> /\ (PromoteJob(j) \/ StallJob(j))
    BY <1>7 DEF Promote, Stall
  <2>2. SameData /\ NoneCompletes
    BY <1>1, <2>1, PromoteKeepsJobs, StallKeepsJobs
  <2> QED BY <1>1, <2>1, <2>2, EndsAreFinal, QueueStep DEF NoneCompletes
<1> QED BY <1>2, <1>3, <1>4, <1>5, <1>6, <1>7 DEF Next

\* The queue and its processor keep the promises of Outbox.
THEOREM Refinement == Spec => ImplementsOutbox
<1>1. Init => Mailbox!Init
  BY DEF Init, QueueInit, NoJob, Present, Mailbox!Init, Queued, Content, Reports, Told
<1>2. QED
  BY <1>1, OutboxStep, Invariance, PTL DEF Spec, ImplementsOutbox, Mailbox!Spec

-----------------------------------------------------------------------------
(* Why an e-mail ends: whatever the workers, the mail server and Redis do, *)
(* a job that changes comes closer to its end, in a bounded number of      *)
(* steps.  That a step comes at all is liveness.                           *)

JobsHaveAnEnd ==
  \A j \in JobIds : /\ StepsLeft(jobs[j]) \in 0 .. (3 * Attempts + 2 * MaxStalls)
                    /\ StepsLeft(jobs[j]) = 0 <=> Ended(j)

LEMMA NextIsCloser == IndInv /\ [Next]_vars => Closer
<1> SUFFICES ASSUME IndInv, [Next]_vars PROVE Closer
  OBVIOUS
<1>1. JobsOK
  BY DEF IndInv, TypeOK, QueueTypeOK, JobsOK
<1>2. ASSUME NEW e \in Emails, NEW j \in JobIds, Add(e, j)
      PROVE  Closer
  BY <1>1, <1>2, AddIsCloser DEF Add, Emails
<1>3. ASSUME NEW w \in Workers, NEW j \in JobIds, Take(w, j)
      PROVE  Closer
  BY <1>1, <1>3, TakeIsCloser DEF Take
<1>4. ASSUME NEW w \in Workers, Finish(w) \/ Throw(w)
      PROVE  Closer
  <2>1. running[w] \in Run /\ (FinishJob(w) \/ FailJob(w))
    BY <1>4 DEF Finish, Throw, IndInv, MailFollowsRun
  <2> QED BY <1>1, <2>1, RunEndIsCloser
<1>5. ASSUME NEW j \in JobIds, Promote(j) \/ Stall(j)
      PROVE  Closer
  BY <1>1, <1>5, PromoteIsCloser, StallIsCloser DEF Promote, Stall
<1>6. ASSUME \/ \E e \in Emails : \/ \E w \in Workers : Send(e, w)
                                  \/ Reply(e) \/ AddRejected(e)
             \/ \E w \in Workers : \/ Deliver(w) \/ DeliverReplyLost(w) \/ Refuse(w)
                                   \/ LoseRedis(w) \/ RegainRedis(w) \/ Restart(w)
             \/ UNCHANGED vars
      PROVE  Closer
  <2>1. UNCHANGED jobs
    BY <1>6 DEF Send, Reply, AddRejected, Deliver, DeliverReplyLost, Accepted, Refuse, LoseRedis,
       RegainRedis, Restart, DropLink, Reconnect, RestartWorker, vars, queueVars
  <2> QED BY <2>1 DEF Closer
<1> QED BY <1>2, <1>3, <1>4, <1>5, <1>6 DEF Next

\* Every change of a job, its add included, uses up one of the steps its
\* attempts (the options of send()) and its stalls allow, and only a completed
\* or failed job has none left: no job goes round for ever.
THEOREM JobsAdvance == Spec => []JobsHaveAnEnd /\ [][Closer]_vars
<1>1. IndInv => JobsHaveAnEnd
  BY StepsBounded DEF IndInv, TypeOK, QueueTypeOK, JobsAccounted, JobsHaveAnEnd, Ended
<1>2. Spec => []JobsHaveAnEnd
  BY <1>1, Invariance, PTL
<1>3. Spec => [][Closer]_vars
  BY NextIsCloser, Invariance, PTL DEF Spec
<1> QED BY <1>2, <1>3

-----------------------------------------------------------------------------
(* What Outbox promises, of whatever implements it. *)

OutboxPromises ==
  /\ \A e \in Told : \E j \in Queued : Content[j] = e
  /\ \A j \in JobIds : /\ Reports[j] = "sent" => delivered[j] > 0
                       /\ delivered[j] <= Attempts + MaxStalls
                       /\ Reports[j] # "open" \/ delivered[j] > 0 => j \in Queued

OutboxInv ==
  /\ Queued \subseteq JobIds
  /\ DOMAIN Content = JobIds /\ DOMAIN Reports = JobIds
  /\ delivered \in [JobIds -> Nat]
  /\ OutboxPromises

LEMMA OutboxInvStep == OutboxInv /\ [Mailbox!Next]_(Mailbox!vars) => OutboxInv'
<1> SUFFICES ASSUME OutboxInv, [Mailbox!Next]_(Mailbox!vars) PROVE OutboxInv'
  OBVIOUS
<1>1. ASSUME UNCHANGED Mailbox!vars PROVE OutboxInv'
  BY <1>1 DEF OutboxInv, OutboxPromises, Mailbox!vars
<1>2. ASSUME NEW e \in Emails, Mailbox!Tell(e) PROVE OutboxInv'
  BY <1>2 DEF OutboxInv, OutboxPromises, Mailbox!Tell
<1>3. ASSUME NEW e \in Emails, NEW j \in JobIds, Mailbox!Enqueue(j, e) PROVE OutboxInv'
  <2>1. /\ j \notin Queued /\ Queued' = Queued \cup {j}
        /\ Content' = [Content EXCEPT ![j] = e]
        /\ UNCHANGED <<delivered, Reports, Told>>
    BY <1>3 DEF Mailbox!Enqueue
  <2>2. \A k \in Queued : Content'[k] = Content[k]
    BY <2>1 DEF OutboxInv
  <2> QED BY <2>1, <2>2 DEF OutboxInv, OutboxPromises
<1>4. ASSUME NEW j \in JobIds, Mailbox!Accept(j) PROVE OutboxInv'
  <2>1. /\ j \in Queued /\ delivered[j] < Attempts + MaxStalls
        /\ delivered' = [delivered EXCEPT ![j] = delivered[j] + 1]
        /\ UNCHANGED <<Queued, Content, Reports, Told>>
    BY <1>4 DEF Mailbox!Accept
  <2>2. \A k \in JobIds : delivered[k] \in Nat
    BY DEF OutboxInv
  <2>3. /\ delivered'[j] = delivered[j] + 1
        /\ \A k \in JobIds \ {j} : delivered'[k] = delivered[k]
        /\ delivered' \in [JobIds -> Nat]
    BY <2>1 DEF OutboxInv
  <2>4. delivered'[j] > 0 /\ delivered'[j] <= Attempts + MaxStalls
    BY <2>1, <2>2, <2>3, AttemptsAssumption, MaxStallsAssumption
  <2> QED BY <2>1, <2>3, <2>4 DEF OutboxInv, OutboxPromises
<1>5. ASSUME NEW j \in JobIds, NEW outcome \in {"sent", "givenUp"}, Mailbox!Report(j, outcome)
      PROVE  OutboxInv'
  <2>1. /\ j \in Queued /\ (outcome = "sent" => delivered[j] > 0)
        /\ Reports' = [Reports EXCEPT ![j] = outcome]
        /\ UNCHANGED <<Queued, Content, delivered, Told>>
    BY <1>5 DEF Mailbox!Report
  <2>2. Reports'[j] = outcome /\ \A k \in JobIds \ {j} : Reports'[k] = Reports[k]
    BY <2>1 DEF OutboxInv
  <2> QED BY <2>1, <2>2 DEF OutboxInv, OutboxPromises
<1> QED BY <1>1, <1>2, <1>3, <1>4, <1>5 DEF Mailbox!Next

\* Any outbox whose steps are those of the abstract one keeps an entry for
\* everyone who was told, reports nothing as sent that was not accepted, and
\* repeats no entry beyond its limit.
THEOREM OutboxKeepsPromises == Mailbox!Spec => []OutboxPromises
<1>1. Mailbox!Init => OutboxInv
  <2> SUFFICES ASSUME Mailbox!Init PROVE OutboxInv
    OBVIOUS
  <2>1. /\ Queued = {} /\ Told = {} /\ Content = [j \in JobIds |-> None]
        /\ delivered = [j \in JobIds |-> 0] /\ Reports = [j \in JobIds |-> "open"]
    BY DEF Mailbox!Init
  <2> QED BY <2>1, AttemptsAssumption, MaxStallsAssumption DEF OutboxInv, OutboxPromises
<1>2. OutboxInv => OutboxPromises
  BY DEF OutboxInv
<1> QED BY <1>1, <1>2, OutboxInvStep, PTL DEF Mailbox!Spec
=============================================================================
