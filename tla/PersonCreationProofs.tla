------------------------ MODULE PersonCreationProofs ------------------------
(***************************************************************************)
(* Proofs about PersonCreation, for every number of requests, instances,   *)
(* ids, jobs and seed rows.                                                *)
(*                                                                         *)
(* The invariants a run checks are not inductive: that a job carries a     *)
(* stored row, for instance, rests on what the handler that adds the job   *)
(* knows of its row, and that in turn on what the sequence and the seed    *)
(* can have written.  IndInv says so.                                      *)
(***************************************************************************)
EXTENDS PersonCreation, FiniteSetTheorems, TLAPS

\* Row id holds person p as it was inserted, or as the seed rewrote it.
RowHolds(id, p) == \/ table[id] = p
                   \/ id <= SeedCount /\ table[id] = SeedPerson

\* Beyond the sequence only the seed has written.
OnlySeedsAhead == \A id \in PersonIds : table[id] # None /\ id >= seq => id <= SeedCount

\* A handler's argument and instance are known from the start; until its
\* insert is executed it has drawn no id.
HandlersKnow ==
  \A r \in Requests :
    /\ pc[r] = "idle" => drawn[r] = None
    /\ pc[r] \in InFlight => input[r] \in Inputs /\ home[r] \in Instances
    /\ pc[r] = "inserting" => drawn[r] = None
    /\ drawn[r] # None => drawn[r] < seq /\ table[drawn[r]] # None
    /\ pc[r] = "conflict" => drawn[r] \in 1 .. SeedCount

DrawnOnce ==
  \A r, s \in Requests : r # s /\ drawn[r] # None => drawn[s] # drawn[r]

\* From its add on, a handler has drawn an id whose row holds its argument.
AddersHaveRows ==
  \A r \in Requests : pc[r] \in {"adding", "added", "created"} =>
    drawn[r] # None /\ input[r] \in Inputs /\ RowHolds(drawn[r], input[r])

\* Once Redis has executed an add there is a job for the id.
AddedHaveJobs ==
  \A r \in Requests : pc[r] \in {"added", "created"} =>
    \E j \in JobIds : Q!Present(j) /\ jobs[j].data.id = drawn[r]

JobsHoldRows ==
  \A j \in JobIds : Q!Present(j) =>
    /\ jobs[j].data \in Jobs
    /\ RowHolds(jobs[j].data.id, jobs[j].data.person)

IndInv == /\ TypeOK /\ OnlySeedsAhead /\ HandlersKnow /\ DrawnOnce
          /\ AddersHaveRows /\ AddedHaveJobs /\ JobsHoldRows

-----------------------------------------------------------------------------
\* What a step of the queue other than an add leaves alone: which jobs there
\* are, and what they carry.
SameJobs == \A j \in JobIds : /\ Q!Present(j)' = Q!Present(j)
                              /\ jobs'[j].data = jobs[j].data

\* Taking a job, finishing it and finding it stalled (TakeJob, FinishJob and
\* StallJob of BullMQ) keep the queue well typed, and neither create nor forget
\* a job.
LEMMA TakeKeepsJobs ==
  ASSUME Q!QueueTypeOK, NEW i \in Instances, NEW j \in JobIds, Q!TakeJob(i, j)
  PROVE  Q!QueueTypeOK' /\ SameJobs
BY DEF Q!TakeJob, Q!QueueTypeOK, SameJobs, Q!Present, Q!Job, Q!Run, Q!States

\* The end of a run keeps the queue well typed and forgets no job.
LEMMA FinishKeepsJobs ==
  ASSUME Q!QueueTypeOK, NEW i \in Instances, Q!FinishJob(i)
  PROVE  Q!QueueTypeOK' /\ SameJobs
<1>1. running[i] \in Q!Run
  BY DEF Q!FinishJob, Q!QueueTypeOK
<1>2. CASE Q!Holds(i)
  BY <1>1, <1>2 DEF Q!FinishJob, Q!QueueTypeOK, SameJobs, Q!Present, Q!Job, Q!Run,
     Q!States, Q!Holds
<1>3. CASE ~ Q!Holds(i)
  BY <1>3 DEF Q!FinishJob, Q!QueueTypeOK, SameJobs, Q!Present
<1> QED BY <1>2, <1>3

\* The stalled check keeps the queue well typed and forgets no job.
LEMMA StallKeepsJobs ==
  ASSUME Q!QueueTypeOK, NEW j \in JobIds, Q!StallJob(j)
  PROVE  Q!QueueTypeOK' /\ SameJobs
BY DEF Q!StallJob, Q!QueueTypeOK, SameJobs, Q!Present, Q!Job, Q!States

\* The empty table and the empty queue satisfy the invariant.
LEMMA InitInv == Init => IndInv
<1> SUFFICES ASSUME Init PROVE IndInv
  OBVIOUS
<1>1. TypeOK
  BY PersonIdsAssumption DEF Init, TypeOK, Locations, Q!QueueInit, Q!QueueTypeOK, Q!Job,
     Q!NoJob, Q!States
<1>2. \A j \in JobIds : ~ Q!Present(j)
  BY DEF Init, Q!QueueInit, Q!NoJob, Q!Present
<1>3. OnlySeedsAhead /\ DrawnOnce
  BY DEF Init, OnlySeedsAhead, DrawnOnce
<1>4. HandlersKnow /\ AddersHaveRows /\ AddedHaveJobs
  BY DEF Init, HandlersKnow, AddersHaveRows, AddedHaveJobs, InFlight
<1>5. JobsHoldRows
  BY <1>2 DEF JobsHoldRows
<1> QED BY <1>1, <1>3, <1>4, <1>5 DEF IndInv

-----------------------------------------------------------------------------
\* A step that leaves the store, the drawn ids and the arguments alone, moves
\* handlers only to where they need know nothing new, and keeps the jobs,
\* keeps the invariant (most handler steps and all queue steps).
LEMMA QuietStep ==
  ASSUME IndInv, TypeOK', UNCHANGED <<store, drawn, input>>, SameJobs,
         \A r \in Requests :
           \/ pc'[r] = pc[r] /\ home'[r] = home[r]
           \/ pc'[r] \in {"failed", "dropped"}
           \/ pc[r] = "added" /\ pc'[r] \in {"adding", "created"} /\ home'[r] = home[r]
  PROVE  IndInv'
<1> USE DEF IndInv, store
<1>1. OnlySeedsAhead' /\ DrawnOnce'
  BY DEF OnlySeedsAhead, DrawnOnce
<1>2. HandlersKnow'
  BY DEF HandlersKnow, InFlight, TypeOK
<1>3. AddersHaveRows'
  BY DEF AddersHaveRows, RowHolds, TypeOK
<1>4. AddedHaveJobs'
  BY DEF AddedHaveJobs, SameJobs, TypeOK
<1>5. JobsHoldRows'
  BY DEF JobsHoldRows, SameJobs, RowHolds
<1> QED BY <1>1, <1>2, <1>3, <1>4, <1>5

\* Both validations run in one step and touch nothing that is stored.
LEMMA ReceiveInv ==
  ASSUME IndInv, NEW r \in Requests, NEW i \in Instances, NEW in \in Inputs,
         Receive(r, i, in)
  PROVE  IndInv'
<1> USE DEF IndInv, store, queue
<1>1. pc'[r] \in {"badRequest", "invalid", "inserting"} /\ pc' = [pc EXCEPT ![r] = pc'[r]]
  BY DEF Receive, Admitted, TypeOK
<1>2. TypeOK'
  BY <1>1 DEF Receive, TypeOK, Locations, InFlight, Outcomes, Q!QueueTypeOK
<1>3. OnlySeedsAhead' /\ DrawnOnce'
  BY DEF Receive, OnlySeedsAhead, DrawnOnce
<1>4. HandlersKnow'
  BY <1>1 DEF Receive, HandlersKnow, TypeOK, InFlight
<1>5. AddersHaveRows'
  BY <1>1 DEF Receive, AddersHaveRows, RowHolds, TypeOK
<1>6. AddedHaveJobs' /\ JobsHoldRows'
  BY <1>1 DEF Receive, AddedHaveJobs, JobsHoldRows, RowHolds, TypeOK, Q!Present
<1> QED BY <1>2, <1>3, <1>4, <1>5, <1>6

\* Executing an insert keeps the invariant, wherever the handler goes next.
LEMMA InsertInv ==
  ASSUME IndInv, NEW r \in Requests, Insert(r) \/ InsertReplyLost(r)
  PROVE  IndInv'
<1> USE DEF IndInv, store, queue
<1> DEFINE id == seq
<1>1. /\ pc[r] = "inserting" /\ id \in PersonIds /\ input[r] \in Inputs /\ drawn[r] = None
      /\ drawn' = [drawn EXCEPT ![r] = id] /\ seq' = seq + 1
      /\ table' = IF table[id] = None THEN [table EXCEPT ![id] = input[r]] ELSE table
      /\ UNCHANGED <<seeded, input, home, jobs, running, link>>
  BY DEF Insert, InsertReplyLost, InsertRow, HandlersKnow, InFlight
<1>2. /\ pc' = [pc EXCEPT ![r] = pc'[r]]
      /\ \/ table[id] = None /\ pc'[r] = "adding"
         \/ table[id] # None /\ pc'[r] = "conflict"
         \/ pc'[r] = "failed"
  BY DEF Insert, InsertReplyLost, TypeOK
<1>3. input[r] \in Persons /\ input[r] # None /\ id # None
  BY <1>1, ValuesAssumption DEF Persons
<1>4. TypeOK'
  <2>1. sends' \in [Requests -> Nat]
    BY DEF Insert, InsertReplyLost, TypeOK
  <2>2. pc' \in [Requests -> Locations]
    BY <1>2 DEF TypeOK, Locations, InFlight, Outcomes
  <2>3. table' \in [PersonIds -> Persons \cup {None}]
    BY <1>1, <1>3 DEF TypeOK
  <2>4. drawn' \in [Requests -> PersonIds \cup {None}] /\ seq' \in Nat
    BY <1>1, PersonIdsAssumption DEF TypeOK
  <2>5. Q!QueueTypeOK'
    BY <1>1 DEF TypeOK, Q!QueueTypeOK
  <2> QED BY <1>1, <2>1, <2>2, <2>3, <2>4, <2>5 DEF TypeOK
<1>5. \A k \in PersonIds : table'[k] = IF k = id /\ table[k] = None THEN input[r] ELSE table[k]
  BY <1>1 DEF TypeOK
<1>6. \A k \in PersonIds, p \in Persons : RowHolds(k, p) => RowHolds(k, p)'
  <2> SUFFICES ASSUME NEW k \in PersonIds, NEW p \in Persons, RowHolds(k, p)
               PROVE  RowHolds(k, p)'
    OBVIOUS
  <2>1. table[k] # None
    BY ValuesAssumption DEF RowHolds, Persons
  <2> QED BY <2>1, <1>5 DEF RowHolds
<1>7. OnlySeedsAhead'
  BY <1>1, <1>5, PersonIdsAssumption DEF OnlySeedsAhead, TypeOK
<1>8. \A s \in Requests : drawn'[s] = IF s = r THEN id ELSE drawn[s]
  BY <1>1 DEF TypeOK
<1>9. DrawnOnce'
  <2>1. \A s \in Requests : drawn[s] # id
    BY <1>1, <1>3 DEF HandlersKnow, TypeOK
  <2> QED BY <2>1, <1>8 DEF DrawnOnce
<1>10. HandlersKnow'
  <2> SUFFICES ASSUME NEW s \in Requests
      PROVE /\ pc'[s] = "idle" => drawn'[s] = None
            /\ pc'[s] \in InFlight => input'[s] \in Inputs /\ home'[s] \in Instances
            /\ pc'[s] = "inserting" => drawn'[s] = None
            /\ drawn'[s] # None => drawn'[s] < seq' /\ table'[drawn'[s]] # None
            /\ pc'[s] = "conflict" => drawn'[s] \in 1 .. SeedCount
    BY DEF HandlersKnow
  <2>1. CASE s = r
    <3>1. table[id] # None => id \in 1 .. SeedCount
      BY <1>1, PersonIdsAssumption DEF OnlySeedsAhead, TypeOK
    <3>2. id < seq' /\ table'[id] # None
      BY <1>1, <1>3, <1>5 DEF TypeOK
    <3> QED BY <2>1, <3>1, <3>2, <1>1, <1>2, <1>8 DEF HandlersKnow, InFlight, TypeOK
  <2>2. CASE s # r
    <3>1. pc'[s] = pc[s] /\ drawn'[s] = drawn[s]
      BY <2>2, <1>2, <1>8 DEF TypeOK
    <3>2. drawn[s] # None => drawn[s] \in PersonIds /\ drawn[s] < seq' /\ table'[drawn[s]] # None
      <4> SUFFICES ASSUME drawn[s] # None
                   PROVE  drawn[s] \in PersonIds /\ drawn[s] < seq' /\ table'[drawn[s]] # None
        OBVIOUS
      <4>1. drawn[s] \in PersonIds /\ drawn[s] \in Nat /\ seq \in Nat
        BY PersonIdsAssumption DEF TypeOK
      <4>2. drawn[s] < seq /\ table[drawn[s]] # None
        BY DEF HandlersKnow
      <4> QED BY <4>1, <4>2, <1>1, <1>3, <1>5
    <3> QED BY <3>1, <3>2, <1>1 DEF HandlersKnow
  <2> QED BY <2>1, <2>2
<1>11. AddersHaveRows'
  <2> SUFFICES ASSUME NEW s \in Requests, pc'[s] \in {"adding", "added", "created"}
      PROVE (drawn[s] # None /\ input[s] \in Inputs /\ RowHolds(drawn[s], input[s]))'
    BY DEF AddersHaveRows
  <2>1. CASE s = r
    <3>1. table'[id] = input[r]
      BY <2>1, <1>1, <1>2, <1>5
    <3> QED BY <2>1, <3>1, <1>1, <1>3, <1>8 DEF RowHolds
  <2>2. CASE s # r
    <3>1. pc'[s] = pc[s] /\ drawn'[s] = drawn[s]
      BY <2>2, <1>2, <1>8 DEF TypeOK
    <3>2. drawn[s] # None /\ drawn[s] \in PersonIds /\ input[s] \in Persons /\ input[s] \in Inputs
          /\ RowHolds(drawn[s], input[s])
      BY <3>1 DEF AddersHaveRows, TypeOK, Persons
    <3> QED BY <3>1, <3>2, <1>6, <1>1 DEF RowHolds
  <2> QED BY <2>1, <2>2
<1>12. AddedHaveJobs'
  <2>1. \A s \in Requests : pc'[s] \in {"added", "created"} => pc'[s] = pc[s] /\ drawn'[s] = drawn[s]
    BY <1>1, <1>2, <1>8 DEF TypeOK
  <2> QED BY <2>1, <1>1 DEF AddedHaveJobs, Q!Present
<1>13. JobsHoldRows'
  BY <1>1, <1>6 DEF JobsHoldRows, Q!Present, Jobs
<1> QED BY <1>4, <1>7, <1>9, <1>10, <1>11, <1>12, <1>13

\* An executed add gives Redis a job that carries the handler's own row.
LEMMA AddInv ==
  ASSUME IndInv, NEW r \in Requests, NEW j \in JobIds, Add(r, j)
  PROVE  IndInv'
<1> USE DEF IndInv, store
<1> DEFINE data == [id |-> drawn[r], person |-> input[r]]
<1>1. /\ pc[r] = "adding" /\ ~ Q!Present(j)
      /\ jobs' = [jobs EXCEPT ![j] = [Q!NoJob EXCEPT !.state = "waiting", !.data = data]]
      /\ pc' = [pc EXCEPT ![r] = "added"]
      /\ UNCHANGED <<table, seq, seeded, input, home, drawn, sends, running, link>>
  BY DEF Add, Q!AddJob
<1>2. drawn[r] \in PersonIds /\ input[r] \in Inputs /\ RowHolds(drawn[r], input[r])
  BY <1>1 DEF AddersHaveRows, TypeOK
<1>3. data \in Jobs
  BY <1>2 DEF Jobs, Persons
<1>4. jobs'[j] = [Q!NoJob EXCEPT !.state = "waiting", !.data = data]
      /\ \A k \in JobIds \ {j} : jobs'[k] = jobs[k]
  BY <1>1 DEF TypeOK, Q!QueueTypeOK
<1>5. jobs'[j].state = "waiting" /\ jobs'[j].data = data /\ jobs'[j] \in Q!Job
  <2> DEFINE job == [state |-> "waiting", data |-> data, owner |-> None,
                     made |-> 0, stalls |-> 0, runs |-> 0]
  <2>1. jobs'[j] = job
    BY <1>4 DEF Q!NoJob
  <2>2. job \in Q!Job
    BY <1>3 DEF Q!Job, Q!States
  <2> QED BY <2>1, <2>2
<1>6. TypeOK'
  <2>1. Q!QueueTypeOK'
    BY <1>1, <1>4, <1>5 DEF TypeOK, Q!QueueTypeOK
  <2> QED BY <1>1, <2>1 DEF TypeOK, Locations, InFlight
<1>7. OnlySeedsAhead' /\ DrawnOnce'
  BY <1>1 DEF OnlySeedsAhead, DrawnOnce
<1>8. HandlersKnow' /\ AddersHaveRows'
  BY <1>1, <1>2 DEF HandlersKnow, AddersHaveRows, InFlight, RowHolds, TypeOK
<1>9. AddedHaveJobs'
  <2> SUFFICES ASSUME NEW s \in Requests, pc'[s] \in {"added", "created"}
               PROVE  \E k \in JobIds : Q!Present(k)' /\ jobs'[k].data.id = drawn[s]
    BY <1>1 DEF AddedHaveJobs
  <2>1. CASE s = r
    BY <2>1, <1>5 DEF Q!Present
  <2>2. CASE s # r
    <3>1. PICK k \in JobIds : Q!Present(k) /\ jobs[k].data.id = drawn[s]
      BY <2>2, <1>1 DEF AddedHaveJobs, TypeOK
    <3> QED BY <3>1, <1>1, <1>4 DEF Q!Present
  <2> QED BY <2>1, <2>2
<1>10. JobsHoldRows'
  BY <1>1, <1>2, <1>3, <1>4, <1>5 DEF JobsHoldRows, Q!Present, RowHolds
<1> QED BY <1>6, <1>7, <1>8, <1>9, <1>10

\* An upsert of the seed rewrites rows 1 .. SeedCount only.
LEMMA SeedInv ==
  ASSUME IndInv, SeedUpsert \/ SeedAgain
  PROVE  IndInv'
<1> USE DEF IndInv, handlers, queue
<1>1. CASE SeedAgain
  <2> USE <1>1 DEF SeedAgain
  <2>1. TypeOK'
    BY PersonIdsAssumption DEF TypeOK, Q!QueueTypeOK
  <2>2. OnlySeedsAhead' /\ HandlersKnow' /\ DrawnOnce'
    BY DEF OnlySeedsAhead, HandlersKnow, DrawnOnce
  <2>3. AddersHaveRows' /\ AddedHaveJobs' /\ JobsHoldRows'
    BY DEF AddersHaveRows, AddedHaveJobs, JobsHoldRows, RowHolds, Q!Present
  <2> QED BY <2>1, <2>2, <2>3
<1>2. CASE SeedUpsert
  <2> DEFINE id == seeded + 1
  <2>1. /\ table' = [table EXCEPT ![id] = SeedPerson] /\ seeded' = id
        /\ UNCHANGED <<seq, pc, input, home, drawn, sends, jobs, running, link>>
    BY <1>2 DEF SeedUpsert
  <2>2. id \in 1 .. SeedCount /\ id \in PersonIds
    BY <1>2, PersonIdsAssumption DEF SeedUpsert, TypeOK
  <2>3. TypeOK'
    <3>1. table' \in [PersonIds -> Persons \cup {None}]
      BY <2>1 DEF TypeOK, Persons
    <3> QED BY <2>1, <2>2, <3>1 DEF TypeOK, Q!QueueTypeOK
  <2>4. \A k \in PersonIds : table'[k] = IF k = id THEN SeedPerson ELSE table[k]
    BY <2>1 DEF TypeOK
  <2>5. SeedPerson # None
    BY ValuesAssumption DEF Persons
  <2>6. OnlySeedsAhead'
    BY <2>1, <2>2, <2>4 DEF OnlySeedsAhead
  <2>7. HandlersKnow' /\ DrawnOnce'
    BY <2>1, <2>4, <2>5 DEF HandlersKnow, DrawnOnce, TypeOK
  <2>8. \A k \in PersonIds, p \in Persons : RowHolds(k, p) => RowHolds(k, p)'
    BY <2>2, <2>4 DEF RowHolds
  <2>9. AddersHaveRows'
    <3> SUFFICES ASSUME NEW r \in Requests, pc[r] \in {"adding", "added", "created"}
                 PROVE  drawn[r] # None /\ input[r] \in Inputs /\ RowHolds(drawn[r], input[r])'
      BY <2>1 DEF AddersHaveRows, RowHolds
    <3>1. drawn[r] \in PersonIds /\ input[r] \in Persons /\ input[r] \in Inputs
          /\ drawn[r] # None /\ RowHolds(drawn[r], input[r])
      BY DEF AddersHaveRows, TypeOK, Persons
    <3> QED BY <3>1, <2>1, <2>8 DEF RowHolds
  <2>10. AddedHaveJobs'
    BY <2>1 DEF AddedHaveJobs, Q!Present
  <2>11. JobsHoldRows'
    BY <2>1, <2>8 DEF JobsHoldRows, Q!Present, Jobs, RowHolds
  <2> QED BY <2>3, <2>6, <2>7, <2>9, <2>10, <2>11
<1> QED BY <1>1, <1>2

\* Every step of the specification keeps the invariant.
THEOREM NextInv == IndInv /\ [Next]_vars => IndInv'
<1> SUFFICES ASSUME IndInv, [Next]_vars PROVE IndInv'
  OBVIOUS
<1> USE DEF store, handlers, queue
<1>1. TypeOK /\ Q!QueueTypeOK
  BY DEF IndInv, TypeOK
<1>2. ASSUME NEW r \in Requests, NEW i \in Instances, NEW in \in Inputs, Receive(r, i, in)
      PROVE  IndInv'
  BY <1>2, ReceiveInv
<1>3. ASSUME NEW r \in Requests, Insert(r) \/ InsertReplyLost(r)
      PROVE  IndInv'
  BY <1>3, InsertInv
<1>4. ASSUME NEW r \in Requests, InsertFails(r) \/ Reply(r) \/ AddRejected(r)
      PROVE  IndInv'
  <2>1. SameJobs /\ UNCHANGED <<store, drawn, input, home>>
    BY <1>4 DEF InsertFails, Reply, AddRejected, SameJobs, Q!Present
  <2>2. /\ pc' = [pc EXCEPT ![r] = pc'[r]]
        /\ pc'[r] = "failed" \/ (pc[r] = "added" /\ pc'[r] = "created")
    BY <1>1, <1>4 DEF InsertFails, Reply, AddRejected, TypeOK
  <2>3. TypeOK'
    BY <1>1, <1>4, <2>2 DEF InsertFails, Reply, AddRejected, TypeOK, Q!QueueTypeOK, Locations,
       InFlight, Outcomes
  <2>4. \A s \in Requests : pc'[s] = IF s = r THEN pc'[r] ELSE pc[s]
    BY <1>1, <2>2 DEF TypeOK
  <2> QED BY <2>1, <2>2, <2>3, <2>4, QuietStep
<1>5. ASSUME NEW r \in Requests, NEW j \in JobIds, Add(r, j)
      PROVE  IndInv'
  BY <1>5, AddInv
<1>6. ASSUME SeedUpsert \/ SeedAgain
      PROVE  IndInv'
  BY <1>6, SeedInv
<1>7. ASSUME NEW i \in Instances, LoseRedis(i)
      PROVE  IndInv'
  <2> USE <1>7 DEF LoseRedis, Q!DropLink
  <2>1. SameJobs /\ UNCHANGED <<store, drawn, input, home>>
    BY DEF SameJobs, Q!Present
  <2>2. TypeOK'
    <3>1. pc' \in [Requests -> Locations]
      BY <1>1 DEF TypeOK, Locations, InFlight
    <3>2. sends' \in [Requests -> Nat]
      BY <1>1 DEF TypeOK
    <3>3. Q!QueueTypeOK'
      BY <1>1 DEF Q!QueueTypeOK
    <3> QED BY <1>1, <3>1, <3>2, <3>3 DEF TypeOK
  <2> QED BY <2>1, <2>2, QuietStep
<1>8. ASSUME NEW i \in Instances, Restart(i)
      PROVE  IndInv'
  <2> USE <1>8 DEF Restart, Q!RestartWorker
  <2>1. SameJobs /\ UNCHANGED <<store, drawn, input, home>>
    BY DEF SameJobs, Q!Present
  <2>2. TypeOK'
    <3>1. pc' \in [Requests -> Locations]
      BY <1>1 DEF TypeOK, Locations, Outcomes
    <3>2. Q!QueueTypeOK'
      BY <1>1 DEF Q!QueueTypeOK
    <3> QED BY <1>1, <3>1, <3>2 DEF TypeOK
  <2> QED BY <2>1, <2>2, QuietStep
<1>9. ASSUME NEW i \in Instances, RegainRedis(i)
      PROVE  IndInv'
  <2> USE <1>9 DEF RegainRedis, Q!Reconnect
  <2>1. SameJobs
    BY DEF SameJobs, Q!Present
  <2>2. TypeOK'
    BY <1>1 DEF TypeOK, Q!QueueTypeOK
  <2> QED BY <2>1, <2>2, QuietStep
<1>10. ASSUME \/ \E i \in Instances, j \in JobIds : Consume(i, j)
              \/ \E i \in Instances : Consumed(i)
              \/ \E j \in JobIds : Stall(j)
       PROVE  IndInv'
  <2>1. Q!QueueTypeOK' /\ SameJobs /\ UNCHANGED <<store, handlers>>
    BY <1>1, <1>10, TakeKeepsJobs, FinishKeepsJobs, StallKeepsJobs DEF Consume, Consumed, Stall
  <2>2. TypeOK'
    BY <1>1, <2>1 DEF TypeOK
  <2> QED BY <2>1, <2>2, QuietStep
<1>11. CASE UNCHANGED vars
  <2>1. SameJobs
    BY <1>11 DEF vars, SameJobs, Q!Present
  <2>2. TypeOK'
    BY <1>1, <1>11 DEF vars, TypeOK, Q!QueueTypeOK
  <2> QED BY <1>11, <2>1, <2>2, QuietStep DEF vars
<1> QED BY <1>2, <1>3, <1>4, <1>5, <1>6, <1>7, <1>8, <1>9, <1>10, <1>11 DEF Next

\* The inductive invariant holds throughout.
THEOREM Invariance == Spec => []IndInv
BY InitInv, NextInv, PTL DEF Spec

-----------------------------------------------------------------------------
(* The results. *)

\* Every variable keeps its type.
THEOREM Typing == Spec => []TypeOK
<1>1. IndInv => TypeOK
  BY DEF IndInv
<1> QED BY <1>1, Invariance, PTL

\* A create-person job never runs ahead of its row (PersonService.create, the
\* seed, any interleaving of handlers, crashes and lost replies).
THEOREM JobsNeverRunAhead == Spec => []JobsCarryStoredRows
<1>1. IndInv => JobsCarryStoredRows
  BY DEF IndInv, JobsHoldRows, JobsCarryStoredRows, RowHolds
<1> QED BY <1>1, Invariance, PTL

\* A caller who is given a person finds a row and a queued job.
THEOREM AcknowledgementIsSound == Spec => []AcknowledgedIsComplete
<1>1. IndInv => AcknowledgedIsComplete
  <2> SUFFICES ASSUME IndInv, NEW r \in Requests, pc[r] = "created"
               PROVE  table[drawn[r]] # None /\ JobsFor(r) # {}
    BY DEF AcknowledgedIsComplete
  <2>1. table[drawn[r]] # None
    BY DEF IndInv, HandlersKnow, AddersHaveRows
  <2>2. PICK j \in JobIds : Q!Present(j) /\ jobs[j].data.id = drawn[r]
    BY DEF IndInv, AddedHaveJobs
  <2> QED BY <2>1, <2>2 DEF JobsFor
<1> QED BY <1>1, Invariance, PTL

\* The seed makes at most SeedCount calls fail with a conflict.
THEOREM ConflictsAreBounded == Spec => []ConflictsOnlyOnSeedIds
<1>1. IndInv => ConflictsOnlyOnSeedIds
  BY DEF IndInv, HandlersKnow, DrawnOnce, ConflictsOnlyOnSeedIds
<1> QED BY <1>1, Invariance, PTL

-----------------------------------------------------------------------------
(* How often a person is announced. *)

\* Every job carries an id the sequence has given out.
JobsWereDrawn == \A j \in JobIds : Q!Present(j) => jobs[j].data.id < seq

\* A call has no more jobs than adds Redis may have executed for it; while an
\* add is under way, that one has not made its job.
AddsCounted ==
  \A r \in Requests : drawn[r] # None =>
    /\ IsFiniteSet(JobsFor(r)) /\ Cardinality(JobsFor(r)) <= sends[r]
    /\ pc[r] = "adding" => Cardinality(JobsFor(r)) < sends[r]

\* A step that makes no job and draws no id, and that counts another add with
\* every handler it sends back to "adding".
LEMMA NoJobMade ==
  ASSUME IndInv, JobsWereDrawn, AddsCounted, SameJobs, seq' = seq, drawn' = drawn,
         \A r \in Requests :
           \/ sends'[r] = sends[r] /\ (pc'[r] = "adding" => pc[r] = "adding")
           \/ sends'[r] = sends[r] + 1
  PROVE  JobsWereDrawn' /\ AddsCounted'
<1>1. JobsWereDrawn'
  BY DEF JobsWereDrawn, SameJobs
<1>2. ASSUME NEW r \in Requests PROVE JobsFor(r)' = JobsFor(r)
  BY DEF JobsFor, SameJobs
<1>3. ASSUME NEW r \in Requests, drawn[r] # None
      PROVE  /\ IsFiniteSet(JobsFor(r)) /\ Cardinality(JobsFor(r)) <= sends'[r]
             /\ pc'[r] = "adding" => Cardinality(JobsFor(r)) < sends'[r]
  <2>1. IsFiniteSet(JobsFor(r)) /\ Cardinality(JobsFor(r)) \in Nat /\ sends[r] \in Nat
    BY <1>3, FS_CardinalityType DEF AddsCounted, IndInv, TypeOK
  <2> QED BY <1>3, <2>1 DEF AddsCounted
<1> QED BY <1>1, <1>2, <1>3 DEF AddsCounted

\* An insert draws an id that no job carries.
LEMMA InsertCounts ==
  ASSUME IndInv, JobsWereDrawn, AddsCounted, NEW r \in Requests, Insert(r) \/ InsertReplyLost(r)
  PROVE  JobsWereDrawn' /\ AddsCounted'
<1>1. /\ pc[r] = "inserting" /\ seq' = seq + 1 /\ UNCHANGED jobs
      /\ drawn' = [drawn EXCEPT ![r] = seq]
  BY DEF Insert, InsertReplyLost, InsertRow, queue
<1>2. /\ \A s \in Requests \ {r} : pc'[s] = pc[s] /\ sends'[s] = sends[s]
      /\ sends'[r] \in Nat /\ (pc'[r] = "adding" => sends'[r] = 1)
  BY DEF IndInv, Insert, InsertReplyLost, TypeOK
<1>3. /\ seq \in Nat /\ drawn'[r] = seq
      /\ \A s \in Requests \ {r} : drawn'[s] = drawn[s]
  BY <1>1 DEF IndInv, TypeOK
<1>4. JobsFor(r)' = {}
  BY <1>1, <1>3 DEF JobsFor, JobsWereDrawn, Q!Present
<1>5. \A s \in Requests \ {r} : JobsFor(s)' = JobsFor(s)
  BY <1>1, <1>3 DEF JobsFor, Q!Present
<1>6. JobsWereDrawn'
  <2> SUFFICES ASSUME NEW j \in JobIds, Q!Present(j) PROVE jobs[j].data.id < seq + 1
    BY <1>1 DEF JobsWereDrawn, Q!Present
  <2>1. jobs[j].data.id \in Nat /\ jobs[j].data.id < seq
    BY PersonIdsAssumption DEF IndInv, JobsHoldRows, Jobs, JobsWereDrawn
  <2> QED BY <1>3, <2>1
<1>7. IsFiniteSet({}) /\ Cardinality({}) = 0
  BY FS_EmptySet
<1> QED BY <1>2, <1>3, <1>4, <1>5, <1>6, <1>7 DEF AddsCounted

\* An add makes the one job that was still to come.
LEMMA AddCounts ==
  ASSUME IndInv, JobsWereDrawn, AddsCounted, NEW r \in Requests, NEW j \in JobIds, Add(r, j)
  PROVE  JobsWereDrawn' /\ AddsCounted'
<1> DEFINE data == [id |-> drawn[r], person |-> input[r]]
<1>1. /\ pc[r] = "adding" /\ ~ Q!Present(j)
      /\ jobs' = [jobs EXCEPT ![j] = [Q!NoJob EXCEPT !.state = "waiting", !.data = data]]
      /\ pc' = [pc EXCEPT ![r] = "added"] /\ UNCHANGED <<seq, drawn, sends>>
  BY DEF Add, Q!AddJob, store
<1>2. /\ jobs'[j].state = "waiting" /\ jobs'[j].data.id = drawn[r]
      /\ \A k \in JobIds \ {j} : jobs'[k] = jobs[k]
  BY <1>1 DEF IndInv, TypeOK, Q!QueueTypeOK, Q!NoJob
<1>3. drawn[r] # None /\ drawn[r] < seq
  BY <1>1 DEF IndInv, AddersHaveRows, HandlersKnow
<1>4. JobsWereDrawn'
  BY <1>1, <1>2, <1>3 DEF JobsWereDrawn, Q!Present
<1>5. JobsFor(r)' = JobsFor(r) \cup {j}
  BY <1>1, <1>2 DEF JobsFor, Q!Present
<1>6. ASSUME NEW s \in Requests \ {r} PROVE JobsFor(s)' = JobsFor(s)
  <2>1. drawn[s] # drawn[r]
    BY <1>3 DEF IndInv, DrawnOnce
  <2> QED BY <1>1, <1>2, <2>1 DEF JobsFor, Q!Present
<1>7. IsFiniteSet(JobsFor(r) \cup {j}) /\ Cardinality(JobsFor(r) \cup {j}) <= sends[r]
  <2>1. IsFiniteSet(JobsFor(r)) /\ Cardinality(JobsFor(r)) < sends[r]
    BY <1>1, <1>3 DEF AddsCounted
  <2>2. Cardinality(JobsFor(r)) \in Nat /\ sends[r] \in Nat
    BY <2>1, FS_CardinalityType DEF IndInv, TypeOK
  <2>3. j \notin JobsFor(r)
    BY <1>1 DEF JobsFor
  <2>4. /\ IsFiniteSet(JobsFor(r) \cup {j})
        /\ Cardinality(JobsFor(r) \cup {j}) = Cardinality(JobsFor(r)) + 1
    BY <2>1, <2>3, FS_AddElement
  <2> QED BY <2>1, <2>2, <2>4
<1>8. pc'[r] = "added" /\ \A s \in Requests \ {r} : pc'[s] = pc[s]
  BY <1>1 DEF IndInv, TypeOK
<1> QED BY <1>1, <1>4, <1>5, <1>6, <1>7, <1>8 DEF AddsCounted

\* Every step keeps the count.
LEMMA NextCounts == IndInv /\ JobsWereDrawn /\ AddsCounted /\ [Next]_vars
                      => JobsWereDrawn' /\ AddsCounted'
<1> SUFFICES ASSUME IndInv, JobsWereDrawn, AddsCounted, [Next]_vars
             PROVE  JobsWereDrawn' /\ AddsCounted'
  OBVIOUS
<1>1. TypeOK /\ Q!QueueTypeOK
  BY DEF IndInv, TypeOK
<1>2. ASSUME NEW r \in Requests, Insert(r) \/ InsertReplyLost(r)
      PROVE  JobsWereDrawn' /\ AddsCounted'
  BY <1>2, InsertCounts
<1>3. ASSUME NEW r \in Requests, NEW j \in JobIds, Add(r, j)
      PROVE  JobsWereDrawn' /\ AddsCounted'
  BY <1>3, AddCounts
<1>4. ASSUME NEW r \in Requests,
             \/ \E i \in Instances, in \in Inputs : Receive(r, i, in)
             \/ InsertFails(r) \/ Reply(r) \/ AddRejected(r)
      PROVE  JobsWereDrawn' /\ AddsCounted'
  <2>1. UNCHANGED <<jobs, seq, drawn, sends>>
    BY <1>4 DEF Receive, InsertFails, Reply, AddRejected, store, queue
  <2>2. \E l \in Locations \ {"adding"} : pc' = [pc EXCEPT ![r] = l]
    BY <1>4 DEF Receive, Admitted, InsertFails, Reply, AddRejected, Locations, InFlight, Outcomes
  <2>3. \A s \in Requests : pc'[s] = "adding" => pc[s] = "adding"
    BY <1>1, <2>2 DEF TypeOK
  <2>4. SameJobs
    BY <2>1 DEF SameJobs, Q!Present
  <2> QED BY <2>1, <2>3, <2>4, NoJobMade
<1>5. ASSUME NEW i \in Instances, LoseRedis(i)
      PROVE  JobsWereDrawn' /\ AddsCounted'
  <2>1. UNCHANGED <<jobs, seq, drawn>> /\ SameJobs
    BY <1>5 DEF LoseRedis, Q!DropLink, SameJobs, Q!Present, store
  <2>2. \A r \in Requests : \/ sends'[r] = sends[r] /\ (pc'[r] = "adding" => pc[r] = "adding")
                            \/ sends'[r] = sends[r] + 1
    BY <1>5 DEF LoseRedis
  <2> QED BY <2>1, <2>2, NoJobMade
<1>6. ASSUME NEW i \in Instances, Restart(i)
      PROVE  JobsWereDrawn' /\ AddsCounted'
  <2>1. UNCHANGED <<jobs, seq, drawn, sends>> /\ SameJobs
    BY <1>6 DEF Restart, Q!RestartWorker, SameJobs, Q!Present, store
  <2>2. \A r \in Requests : pc'[r] = "adding" => pc[r] = "adding"
    BY <1>6 DEF Restart
  <2> QED BY <2>1, <2>2, NoJobMade
<1>7. ASSUME \/ SeedUpsert \/ SeedAgain \/ UNCHANGED vars
             \/ \E i \in Instances : RegainRedis(i) \/ Consumed(i)
             \/ \E i \in Instances, j \in JobIds : Consume(i, j)
             \/ \E j \in JobIds : Stall(j)
      PROVE  JobsWereDrawn' /\ AddsCounted'
  <2>1. UNCHANGED <<seq, drawn, sends, pc>>
    BY <1>7 DEF SeedUpsert, SeedAgain, RegainRedis, Consumed, Consume, Stall, vars, store, handlers
  <2>2. SameJobs
    <3>1. CASE SeedUpsert \/ SeedAgain \/ UNCHANGED vars \/ \E i \in Instances : RegainRedis(i)
      BY <3>1 DEF SeedUpsert, SeedAgain, RegainRedis, Q!Reconnect, vars, queue, SameJobs, Q!Present
    <3>2. CASE \/ \E i \in Instances : Consumed(i)
               \/ \E i \in Instances, j \in JobIds : Consume(i, j)
               \/ \E j \in JobIds : Stall(j)
      BY <1>1, <3>2, TakeKeepsJobs, FinishKeepsJobs, StallKeepsJobs DEF Consume, Consumed, Stall
    <3> QED BY <1>7, <3>1, <3>2
  <2> QED BY <2>1, <2>2, NoJobMade
<1> QED BY <1>2, <1>3, <1>4, <1>5, <1>6, <1>7 DEF Next

\* A person is announced once, and once more at most for each reply of Redis
\* that was lost.
THEOREM AnnouncementsAreCounted == Spec => []JobsOnlyMultiplyOnLostReplies
<1>1. Init => JobsWereDrawn /\ AddsCounted
  BY DEF Init, Q!QueueInit, Q!NoJob, Q!Present, JobsWereDrawn, AddsCounted
<1>2. AddsCounted => JobsOnlyMultiplyOnLostReplies
  BY DEF AddsCounted, JobsOnlyMultiplyOnLostReplies
<1> QED BY <1>1, <1>2, NextCounts, Invariance, PTL DEF Spec

-----------------------------------------------------------------------------
(* PersonCreation implements PersonRegistry. *)

Persisted == {id \in PersonIds : table[id] # None}
Announced == {jobs[j].data.id : j \in {k \in JobIds : Q!Present(k)}}
Acknowledged == {drawn[r] : r \in {s \in Requests : pc[s] = "created"}}

\* A step that keeps the jobs, lets no call end in "created" and stores at
\* most one more row is a step of the registry, or none.
LEMMA StoreStep ==
  ASSUME SameJobs,
         \A r \in Requests : /\ pc'[r] = "created" <=> pc[r] = "created"
                             /\ pc[r] = "created" => drawn'[r] = drawn[r],
         Persisted' = Persisted \/ \E id \in PersonIds : Persisted' = Persisted \cup {id}
  PROVE  [Registry!Next]_(Registry!vars)
<1>1. Announced' = Announced
  BY DEF SameJobs, Announced
<1>2. Acknowledged' = Acknowledged
  BY DEF Acknowledged
<1> QED BY <1>1, <1>2 DEF Registry!Next, Registry!vars, Registry!Persist, Persisted, Announced,
   Acknowledged

\* Every step is a step of the registry, or changes nothing it sees.
LEMMA RegistryStep == IndInv /\ [Next]_vars => [Registry!Next]_(Registry!vars)
<1> SUFFICES ASSUME IndInv, [Next]_vars PROVE [Registry!Next]_(Registry!vars)
  OBVIOUS
<1> USE DEF store, handlers, queue
<1>1. TypeOK /\ Q!QueueTypeOK
  BY DEF IndInv, TypeOK
<1>2. ASSUME NEW r \in Requests, NEW i \in Instances, NEW in \in Inputs, Receive(r, i, in)
      PROVE  [Registry!Next]_(Registry!vars)
  <2>1. SameJobs /\ Persisted' = Persisted /\ drawn' = drawn
    BY <1>2 DEF Receive, SameJobs, Persisted, Q!Present
  <2>2. pc[r] # "created" /\ pc' = [pc EXCEPT ![r] = pc'[r]] /\ pc'[r] # "created"
    BY <1>1, <1>2 DEF Receive, Admitted, TypeOK
  <2>3. \A s \in Requests : pc'[s] = "created" <=> pc[s] = "created"
    BY <1>1, <2>2 DEF TypeOK
  <2> QED BY <2>1, <2>3, StoreStep
<1>3. ASSUME NEW r \in Requests, Insert(r) \/ InsertReplyLost(r)
      PROVE  [Registry!Next]_(Registry!vars)
  <2>1. SameJobs
    BY <1>3 DEF Insert, InsertReplyLost, InsertRow, SameJobs, Q!Present
  <2>2. \A s \in Requests : /\ pc'[s] = "created" <=> pc[s] = "created"
                            /\ pc[s] = "created" => drawn'[s] = drawn[s]
    BY <1>1, <1>3 DEF Insert, InsertReplyLost, InsertRow, TypeOK
  <2>3. /\ seq \in PersonIds /\ input[r] # None
        /\ table' = IF table[seq] = None THEN [table EXCEPT ![seq] = input[r]] ELSE table
    BY <1>3, ValuesAssumption DEF Insert, InsertReplyLost, InsertRow, IndInv, HandlersKnow,
       InFlight, Persons
  <2>4. Persisted' = Persisted \/ Persisted' = Persisted \cup {seq}
    <3>1. CASE table[seq] = None
      <4>1. \A id \in PersonIds : table'[id] = IF id = seq THEN input[r] ELSE table[id]
        BY <1>1, <2>3, <3>1 DEF TypeOK
      <4> QED BY <2>3, <4>1 DEF Persisted
    <3>2. CASE table[seq] # None
      BY <2>3, <3>2 DEF Persisted
    <3> QED BY <3>1, <3>2
  <2> QED BY <2>1, <2>2, <2>3, <2>4, StoreStep
<1>4. ASSUME NEW r \in Requests, InsertFails(r) \/ AddRejected(r)
      PROVE  [Registry!Next]_(Registry!vars)
  <2>1. SameJobs /\ Persisted' = Persisted /\ drawn' = drawn
    BY <1>4 DEF InsertFails, AddRejected, SameJobs, Persisted, Q!Present
  <2>2. \A s \in Requests : pc'[s] = "created" <=> pc[s] = "created"
    BY <1>1, <1>4 DEF InsertFails, AddRejected, TypeOK
  <2> QED BY <2>1, <2>2, StoreStep
<1>5. ASSUME NEW r \in Requests, NEW j \in JobIds, Add(r, j)
      PROVE  [Registry!Next]_(Registry!vars)
  <2>1. /\ pc[r] = "adding" /\ ~ Q!Present(j)
        /\ jobs' = [jobs EXCEPT ![j] = [Q!NoJob EXCEPT !.state = "waiting",
                                          !.data = [id |-> drawn[r], person |-> input[r]]]]
        /\ pc' = [pc EXCEPT ![r] = "added"] /\ UNCHANGED <<table, drawn>>
    BY <1>5 DEF Add, Q!AddJob
  <2>2. drawn[r] \in PersonIds /\ drawn[r] \in Persisted
    BY <1>1, <2>1 DEF IndInv, AddersHaveRows, HandlersKnow, TypeOK, Persisted
  <2>3. /\ jobs'[j] = [state |-> "waiting", data |-> [id |-> drawn[r], person |-> input[r]],
                       owner |-> None, made |-> 0, stalls |-> 0, runs |-> 0]
        /\ \A k \in JobIds \ {j} : jobs'[k] = jobs[k]
    BY <1>1, <2>1 DEF Q!QueueTypeOK, Q!NoJob
  <2>4. jobs'[j].state = "waiting" /\ jobs'[j].data.id = drawn[r]
    BY <2>3
  <2>5. Announced' = Announced \cup {drawn[r]}
    BY <2>1, <2>3, <2>4 DEF Announced, Q!Present
  <2>6. Acknowledged' = Acknowledged /\ Persisted' = Persisted
    BY <1>1, <2>1 DEF Acknowledged, Persisted, TypeOK
  <2> QED BY <2>2, <2>5, <2>6 DEF Registry!Next, Registry!Announce, Persisted, Announced, Acknowledged
<1>6. ASSUME NEW r \in Requests, Reply(r)
      PROVE  [Registry!Next]_(Registry!vars)
  <2>1. /\ pc[r] = "added" /\ pc' = [pc EXCEPT ![r] = "created"]
        /\ UNCHANGED <<table, drawn, jobs>>
    BY <1>6 DEF Reply
  <2>2. drawn[r] \in PersonIds /\ drawn[r] \in Announced
    BY <1>1, <2>1 DEF IndInv, AddersHaveRows, AddedHaveJobs, TypeOK, Announced
  <2>3. Acknowledged' = Acknowledged \cup {drawn[r]}
    BY <1>1, <2>1 DEF Acknowledged, TypeOK
  <2>4. Announced' = Announced /\ Persisted' = Persisted
    BY <2>1 DEF Announced, Persisted, Q!Present
  <2> QED BY <2>2, <2>3, <2>4 DEF Registry!Next, Registry!Acknowledge, Persisted, Announced, Acknowledged
<1>7. ASSUME SeedUpsert
      PROVE  [Registry!Next]_(Registry!vars)
  <2>1. SameJobs /\ UNCHANGED <<pc, drawn>>
    BY <1>7 DEF SeedUpsert, SameJobs, Q!Present
  <2>2. seeded + 1 \in PersonIds /\ table' = [table EXCEPT ![seeded + 1] = SeedPerson]
    BY <1>1, <1>7, PersonIdsAssumption DEF SeedUpsert, TypeOK
  <2>3. \A id \in PersonIds : table'[id] = IF id = seeded + 1 THEN SeedPerson ELSE table[id]
    BY <1>1, <2>2 DEF TypeOK
  <2>4. Persisted' = Persisted \cup {seeded + 1}
    BY <2>2, <2>3, ValuesAssumption DEF Persisted, Persons
  <2> QED BY <2>1, <2>2, <2>4, StoreStep
<1>8. ASSUME \/ SeedAgain
             \/ \E i \in Instances : LoseRedis(i) \/ RegainRedis(i) \/ Restart(i)
             \/ UNCHANGED vars
      PROVE  [Registry!Next]_(Registry!vars)
  <2>1. SameJobs /\ UNCHANGED <<table, drawn>>
    BY <1>8 DEF SeedAgain, LoseRedis, RegainRedis, Restart, Q!DropLink, Q!Reconnect,
       Q!RestartWorker, vars, SameJobs, Q!Present
  <2>2. \A s \in Requests : pc'[s] = "created" <=> pc[s] = "created"
    BY <1>1, <1>8 DEF SeedAgain, LoseRedis, RegainRedis, Restart, vars, TypeOK, InFlight
  <2> QED BY <2>1, <2>2, StoreStep DEF Persisted
<1>9. ASSUME \/ \E i \in Instances, j \in JobIds : Consume(i, j)
             \/ \E i \in Instances : Consumed(i)
             \/ \E j \in JobIds : Stall(j)
      PROVE  [Registry!Next]_(Registry!vars)
  <2>1. SameJobs /\ UNCHANGED <<store, handlers>>
    BY <1>1, <1>9, TakeKeepsJobs, FinishKeepsJobs, StallKeepsJobs DEF Consume, Consumed, Stall
  <2> QED BY <2>1, StoreStep DEF Persisted
<1> QED BY <1>2, <1>3, <1>4, <1>5, <1>6, <1>7, <1>8, <1>9 DEF Next

\* Creating persons keeps the promises of PersonRegistry: stored, then
\* announced, then acknowledged, and nothing of it undone.
THEOREM Refinement == Spec => ImplementsRegistry
<1>1. Init => Registry!Init
  BY DEF Init, Q!QueueInit, Q!NoJob, Q!Present, Registry!Init
<1>2. QED
  BY <1>1, RegistryStep, Invariance, PTL DEF Spec, ImplementsRegistry, Registry!Spec

-----------------------------------------------------------------------------
(* Why an announced person's job ends.  PersonConsumer.process never       *)
(* throws, so a job is neither retried nor delayed: only a lock that       *)
(* lapses makes it run again.                                              *)

ConsumedOrStalled(job) ==
  /\ job.state = "absent" => job.stalls = 0 /\ job.runs = 0
  /\ job.state # "delayed" /\ job.made = 0
  /\ job.runs = job.stalls + (IF job.state \in {"active", "completed"} THEN 1 ELSE 0)
  /\ IF job.state = "failed" THEN job.stalls = MaxStalls + 1 ELSE job.stalls <= MaxStalls

JobsAccounted == \A j \in JobIds : ConsumedOrStalled(jobs[j])

StepsLeft(job) ==
  IF job.state \in {"completed", "failed"} THEN 0
  ELSE 2 * (MaxStalls - job.stalls) + 3
       - (IF job.state = "waiting" THEN 1 ELSE IF job.state = "active" THEN 2 ELSE 0)

\* Whatever happens to a job brings it closer to its end.
Closer ==
  \A j \in JobIds : jobs'[j] # jobs[j] => StepsLeft(jobs'[j]) < StepsLeft(jobs[j])

\* One job replaced by an accounted one that is closer to its end.
LEMMA OneCloser ==
  ASSUME Q!QueueTypeOK, JobsAccounted, NEW j \in JobIds,
         jobs' = [jobs EXCEPT ![j] = jobs'[j]],
         ConsumedOrStalled(jobs'[j]), StepsLeft(jobs'[j]) < StepsLeft(jobs[j])
  PROVE  JobsAccounted' /\ Closer
<1>1. \A k \in JobIds \ {j} : jobs'[k] = jobs[k]
  BY DEF Q!QueueTypeOK
<1>2. JobsAccounted'
  BY <1>1 DEF JobsAccounted
<1> QED BY <1>1, <1>2 DEF Closer

LEMMA AddIsCloser ==
  ASSUME Q!QueueTypeOK, JobsAccounted, NEW j \in JobIds, NEW d, Q!AddJob(j, d)
  PROVE  JobsAccounted' /\ Closer
<1>1. /\ jobs'[j] = [Q!NoJob EXCEPT !.state = "waiting", !.data = d]
      /\ jobs' = [jobs EXCEPT ![j] = jobs'[j]]
  BY DEF Q!AddJob, Q!QueueTypeOK
<1>2. /\ jobs'[j].state = "waiting" /\ jobs'[j].made = 0 /\ jobs'[j].stalls = 0
      /\ jobs'[j].runs = 0
  BY <1>1 DEF Q!NoJob
<1>3. jobs[j].state = "absent" /\ jobs[j].stalls = 0
  BY DEF Q!AddJob, Q!Present, JobsAccounted, ConsumedOrStalled
<1>4. ConsumedOrStalled(jobs'[j]) /\ StepsLeft(jobs'[j]) < StepsLeft(jobs[j])
  BY <1>2, <1>3, BoundsAssumption DEF ConsumedOrStalled, StepsLeft
<1> QED BY <1>1, <1>4, OneCloser

LEMMA TakeIsCloser ==
  ASSUME Q!QueueTypeOK, JobsAccounted, NEW i \in Instances, NEW j \in JobIds, Q!TakeJob(i, j)
  PROVE  JobsAccounted' /\ Closer
<1>1. jobs[j] \in Q!Job /\ jobs[j].state = "waiting" /\ ConsumedOrStalled(jobs[j])
  BY DEF Q!TakeJob, Q!QueueTypeOK, JobsAccounted
<1>2. /\ jobs'[j].state = "active" /\ jobs'[j].made = jobs[j].made
      /\ jobs'[j].stalls = jobs[j].stalls /\ jobs'[j].runs = jobs[j].runs + 1
      /\ jobs' = [jobs EXCEPT ![j] = jobs'[j]]
  BY <1>1 DEF Q!TakeJob, Q!QueueTypeOK, Q!Job
<1>3. ConsumedOrStalled(jobs'[j]) /\ StepsLeft(jobs'[j]) < StepsLeft(jobs[j])
  BY <1>1, <1>2, BoundsAssumption DEF ConsumedOrStalled, StepsLeft, Q!Job
<1> QED BY <1>2, <1>3, OneCloser

LEMMA FinishIsCloser ==
  ASSUME Q!QueueTypeOK, JobsAccounted, NEW i \in Instances, Q!FinishJob(i)
  PROVE  JobsAccounted' /\ Closer
<1> DEFINE j == running[i].job
<1>1. j \in JobIds /\ jobs[j] \in Q!Job /\ ConsumedOrStalled(jobs[j])
  BY DEF Q!FinishJob, Q!QueueTypeOK, Q!Run, JobsAccounted
<1>2. CASE ~ Q!Holds(i)
  BY <1>2 DEF Q!FinishJob, JobsAccounted, Closer
<1>3. CASE Q!Holds(i)
  <2>1. jobs[j].state = "active"
    BY <1>3 DEF Q!Holds
  <2>2. jobs'[j] = [[jobs[j] EXCEPT !.state = "completed"] EXCEPT !.owner = None]
    BY <1>1, <1>3 DEF Q!FinishJob, Q!QueueTypeOK
  <2>3. jobs' = [jobs EXCEPT ![j] = jobs'[j]]
    BY <1>1, <1>3, <2>2 DEF Q!FinishJob, Q!QueueTypeOK
  <2>4. /\ jobs'[j].state = "completed" /\ jobs'[j].made = jobs[j].made
        /\ jobs'[j].stalls = jobs[j].stalls /\ jobs'[j].runs = jobs[j].runs
    BY <1>1, <2>2 DEF Q!Job
  <2>5. ConsumedOrStalled(jobs'[j]) /\ StepsLeft(jobs'[j]) < StepsLeft(jobs[j])
    BY <1>1, <2>1, <2>4, BoundsAssumption DEF ConsumedOrStalled, StepsLeft, Q!Job
  <2> QED BY <1>1, <2>3, <2>5, OneCloser
<1> QED BY <1>2, <1>3

LEMMA StallIsCloser ==
  ASSUME Q!QueueTypeOK, JobsAccounted, NEW j \in JobIds, Q!StallJob(j)
  PROVE  JobsAccounted' /\ Closer
<1>1. jobs[j] \in Q!Job /\ jobs[j].state = "active" /\ ConsumedOrStalled(jobs[j])
  BY DEF Q!StallJob, Q!QueueTypeOK, JobsAccounted
<1>2. /\ jobs'[j].state = IF jobs[j].stalls < MaxStalls THEN "waiting" ELSE "failed"
      /\ jobs'[j].made = jobs[j].made /\ jobs'[j].stalls = jobs[j].stalls + 1
      /\ jobs'[j].runs = jobs[j].runs
      /\ jobs' = [jobs EXCEPT ![j] = jobs'[j]]
  BY <1>1 DEF Q!StallJob, Q!QueueTypeOK, Q!Job
<1>3. ConsumedOrStalled(jobs'[j]) /\ StepsLeft(jobs'[j]) < StepsLeft(jobs[j])
  BY <1>1, <1>2, BoundsAssumption DEF ConsumedOrStalled, StepsLeft, Q!Job
<1> QED BY <1>2, <1>3, OneCloser

LEMMA NextIsCloser == IndInv /\ JobsAccounted /\ [Next]_vars => JobsAccounted' /\ Closer
<1> SUFFICES ASSUME IndInv, JobsAccounted, [Next]_vars PROVE JobsAccounted' /\ Closer
  OBVIOUS
<1>1. Q!QueueTypeOK
  BY DEF IndInv, TypeOK
<1>2. ASSUME NEW r \in Requests, NEW j \in JobIds, Add(r, j)
      PROVE  JobsAccounted' /\ Closer
  <2>1. PICK d : d = [id |-> drawn[r], person |-> input[r]]
    OBVIOUS
  <2>2. Q!AddJob(j, d)
    BY <1>2, <2>1 DEF Add
  <2> QED BY <1>1, <2>2, AddIsCloser
<1>3. ASSUME NEW i \in Instances, NEW j \in JobIds, Consume(i, j)
      PROVE  JobsAccounted' /\ Closer
  BY <1>1, <1>3, TakeIsCloser DEF Consume
<1>4. ASSUME NEW i \in Instances, Consumed(i)
      PROVE  JobsAccounted' /\ Closer
  BY <1>1, <1>4, FinishIsCloser DEF Consumed
<1>5. ASSUME NEW j \in JobIds, Stall(j)
      PROVE  JobsAccounted' /\ Closer
  BY <1>1, <1>5, StallIsCloser DEF Stall
<1>6. ASSUME \/ \E r \in Requests :
                  \/ \E i \in Instances, in \in Inputs : Receive(r, i, in)
                  \/ Insert(r) \/ InsertFails(r) \/ InsertReplyLost(r)
                  \/ Reply(r) \/ AddRejected(r)
             \/ SeedUpsert \/ SeedAgain
             \/ \E i \in Instances : LoseRedis(i) \/ RegainRedis(i) \/ Restart(i)
             \/ UNCHANGED vars
      PROVE  JobsAccounted' /\ Closer
  <2>1. UNCHANGED jobs
    BY <1>6 DEF Receive, Insert, InsertRow, InsertFails, InsertReplyLost, Reply, AddRejected,
       SeedUpsert, SeedAgain, LoseRedis, RegainRedis, Restart, Q!DropLink, Q!Reconnect,
       Q!RestartWorker, vars, queue
  <2> QED BY <2>1 DEF Closer, JobsAccounted
<1> QED BY <1>2, <1>3, <1>4, <1>5, <1>6 DEF Next

\* A person is consumed more than once only for a lapsed lock, and never more
\* often than the stalls BullMQ tolerates and once more; a job is failed for
\* nothing but its stalls.
ConsumptionBounded ==
  \A j \in JobIds : /\ jobs[j].runs <= MaxStalls + 1
                    /\ jobs[j].state = "failed" => jobs[j].stalls = MaxStalls + 1
                    /\ StepsLeft(jobs[j]) \in 0 .. (2 * MaxStalls + 3)
                    /\ StepsLeft(jobs[j]) = 0 <=> Q!Ended(j)

\* Every change of a create-person job uses up one of a bounded number of
\* steps, and only a completed or failed job has none left.
THEOREM JobsAdvance == Spec => []ConsumptionBounded /\ [][Closer]_vars
<1>1. Init => JobsAccounted
  BY BoundsAssumption DEF Init, Q!QueueInit, Q!NoJob, JobsAccounted, ConsumedOrStalled
<1>2. Spec => [](IndInv /\ JobsAccounted)
  BY <1>1, NextIsCloser, Invariance, PTL DEF Spec
<1>3. IndInv /\ JobsAccounted => ConsumptionBounded
  <2> SUFFICES ASSUME IndInv, JobsAccounted, NEW j \in JobIds
               PROVE  /\ jobs[j].runs <= MaxStalls + 1
                      /\ jobs[j].state = "failed" => jobs[j].stalls = MaxStalls + 1
                      /\ StepsLeft(jobs[j]) \in 0 .. (2 * MaxStalls + 3)
                      /\ StepsLeft(jobs[j]) = 0 <=> Q!Ended(j)
    BY DEF ConsumptionBounded
  <2>1. jobs[j] \in Q!Job /\ ConsumedOrStalled(jobs[j])
    BY DEF IndInv, TypeOK, Q!QueueTypeOK, JobsAccounted
  <2> QED BY <2>1, BoundsAssumption DEF ConsumedOrStalled, StepsLeft, Q!Job, Q!Ended, Q!States
<1>4. Spec => []ConsumptionBounded
  BY <1>2, <1>3, PTL
<1>5. Spec => [][Closer]_vars
  BY <1>2, NextIsCloser, PTL DEF Spec
<1> QED BY <1>4, <1>5

-----------------------------------------------------------------------------
(* What a call that was refused leaves behind: nothing.                    *)

\* Where a call is whose row may have been stored.
Wrote == {"adding", "added", "created", "failed", "dropped"}

\* Every row is the seed's, or the argument of the call that drew its id, which
\* was neither refused by the validations nor told of a conflict.
RowsAreAccounted ==
  \A id \in PersonIds : table[id] # None =>
    \/ id <= SeedCount /\ table[id] = SeedPerson
    \/ \E r \in Requests : drawn[r] = id /\ table[id] = input[r] /\ pc[r] \in Wrote

\* A step that stores nothing and takes back no call.
LEMMA RowsStay ==
  ASSUME RowsAreAccounted, UNCHANGED table,
         \A r \in Requests : pc[r] \in Wrote =>
           pc'[r] \in Wrote /\ drawn'[r] = drawn[r] /\ input'[r] = input[r]
  PROVE  RowsAreAccounted'
<1> SUFFICES ASSUME NEW id \in PersonIds, table[id] # None
             PROVE  \/ id <= SeedCount /\ table[id] = SeedPerson
                    \/ \E r \in Requests : drawn'[r] = id /\ table[id] = input'[r] /\ pc'[r] \in Wrote
  BY DEF RowsAreAccounted
<1> QED BY DEF RowsAreAccounted

LEMMA InsertAccounts ==
  ASSUME IndInv, RowsAreAccounted, NEW r \in Requests, Insert(r) \/ InsertReplyLost(r)
  PROVE  RowsAreAccounted'
<1>1. TypeOK /\ None \notin PersonIds
  BY ValuesAssumption DEF IndInv
<1>2. /\ pc[r] = "inserting" /\ seq \in PersonIds /\ UNCHANGED input
      /\ drawn' = [drawn EXCEPT ![r] = seq]
      /\ table' = IF table[seq] = None THEN [table EXCEPT ![seq] = input[r]] ELSE table
  BY DEF Insert, InsertReplyLost, InsertRow
<1>3. /\ \A s \in Requests \ {r} : pc'[s] = pc[s]
      /\ table[seq] = None => pc'[r] \in Wrote
  BY <1>1 DEF Insert, InsertReplyLost, TypeOK, Wrote
<1>4. pc[r] \notin Wrote
  BY <1>2 DEF Wrote
<1>5. drawn'[r] = seq /\ \A s \in Requests \ {r} : drawn'[s] = drawn[s]
  BY <1>1, <1>2 DEF TypeOK
<1> SUFFICES ASSUME NEW id \in PersonIds, table'[id] # None
             PROVE  \/ id <= SeedCount /\ table'[id] = SeedPerson
                    \/ \E s \in Requests : drawn'[s] = id /\ table'[id] = input'[s] /\ pc'[s] \in Wrote
  BY DEF RowsAreAccounted
<1>6. CASE id = seq /\ table[seq] = None
  <2>1. table'[id] = input[r]
    BY <1>1, <1>2, <1>6 DEF TypeOK
  <2> QED BY <1>2, <1>3, <1>5, <1>6, <2>1
<1>7. CASE ~ (id = seq /\ table[seq] = None)
  <2>1. table'[id] = table[id]
    BY <1>1, <1>2, <1>7 DEF TypeOK
  <2>2. \/ id <= SeedCount /\ table[id] = SeedPerson
        \/ \E s \in Requests : drawn[s] = id /\ table[id] = input[s] /\ pc[s] \in Wrote
    BY <2>1 DEF RowsAreAccounted
  <2>3. ASSUME NEW s \in Requests, drawn[s] = id, table[id] = input[s], pc[s] \in Wrote
        PROVE  drawn'[s] = id /\ table'[id] = input'[s] /\ pc'[s] \in Wrote
    BY <1>2, <1>3, <1>4, <1>5, <2>1, <2>3
  <2> QED BY <2>1, <2>2, <2>3
<1> QED BY <1>6, <1>7

LEMMA NextAccounts == IndInv /\ RowsAreAccounted /\ [Next]_vars => RowsAreAccounted'
<1> SUFFICES ASSUME IndInv, RowsAreAccounted, [Next]_vars PROVE RowsAreAccounted'
  OBVIOUS
<1> USE DEF store, handlers, queue
<1>1. TypeOK
  BY DEF IndInv
<1>2. ASSUME NEW r \in Requests, Insert(r) \/ InsertReplyLost(r) PROVE RowsAreAccounted'
  BY <1>2, InsertAccounts
<1>3. ASSUME SeedUpsert PROVE RowsAreAccounted'
  <2>1. /\ seeded + 1 \in PersonIds /\ seeded + 1 <= SeedCount
        /\ table' = [table EXCEPT ![seeded + 1] = SeedPerson]
        /\ UNCHANGED <<pc, drawn, input>>
    BY <1>1, <1>3, PersonIdsAssumption DEF SeedUpsert, TypeOK
  <2>2. \A id \in PersonIds : table'[id] = IF id = seeded + 1 THEN SeedPerson ELSE table[id]
    BY <1>1, <2>1 DEF TypeOK
  <2> QED BY <2>1, <2>2 DEF RowsAreAccounted
<1>4. ASSUME \/ \E r \in Requests :
                  \/ \E i \in Instances, in \in Inputs : Receive(r, i, in)
                  \/ InsertFails(r)
                  \/ \E j \in JobIds : Add(r, j)
                  \/ Reply(r) \/ AddRejected(r)
             \/ SeedAgain
             \/ \E i \in Instances : \/ LoseRedis(i) \/ RegainRedis(i) \/ Restart(i) \/ Consumed(i)
                                     \/ \E j \in JobIds : Consume(i, j)
             \/ \E j \in JobIds : Stall(j)
             \/ UNCHANGED vars
      PROVE  RowsAreAccounted'
  <2>1. UNCHANGED <<table, drawn>>
    BY <1>4 DEF Receive, InsertFails, Add, Reply, AddRejected, SeedAgain, LoseRedis, RegainRedis,
       Restart, Consumed, Consume, Stall, vars
  <2>2. \A r \in Requests : pc[r] \in Wrote => input'[r] = input[r]
    BY <1>1, <1>4 DEF Receive, InsertFails, Add, Reply, AddRejected, SeedAgain, LoseRedis,
       RegainRedis, Restart, Consumed, Consume, Stall, vars, Wrote, TypeOK
  <2>3. \A r \in Requests : pc[r] \in Wrote => pc'[r] \in Wrote
    <3>1. ASSUME \E r \in Requests :
                  \/ \E i \in Instances, in \in Inputs : Receive(r, i, in)
                  \/ InsertFails(r)
                  \/ \E j \in JobIds : Add(r, j)
                  \/ Reply(r) \/ AddRejected(r)
          PROVE  \A r \in Requests : pc[r] \in Wrote => pc'[r] \in Wrote
      BY <1>1, <3>1 DEF Receive, InsertFails, Add, Reply, AddRejected, Wrote, TypeOK
    <3>2. ASSUME \E i \in Instances : LoseRedis(i) \/ Restart(i)
          PROVE  \A r \in Requests : pc[r] \in Wrote => pc'[r] \in Wrote
      BY <3>2 DEF LoseRedis, Restart, Wrote, InFlight
    <3>3. ASSUME \/ SeedAgain
                 \/ \E i \in Instances : \/ RegainRedis(i) \/ Consumed(i)
                                         \/ \E j \in JobIds : Consume(i, j)
                 \/ \E j \in JobIds : Stall(j)
                 \/ UNCHANGED vars
          PROVE  \A r \in Requests : pc[r] \in Wrote => pc'[r] \in Wrote
      BY <3>3 DEF SeedAgain, RegainRedis, Consumed, Consume, Stall, vars
    <3> QED BY <1>4, <3>1, <3>2, <3>3
  <2> QED BY <2>1, <2>2, <2>3, RowsStay
<1> QED BY <1>2, <1>3, <1>4 DEF Next

\* A call that the validations of PersonService.create refuse, or that is told
\* of a conflict, leaves no row: whatever is in the table is the seed's or was
\* asked for by a call that got past them.
THEOREM RefusedCallsLeaveNothing == Spec => []RowsAreAccounted
<1>1. Init => RowsAreAccounted
  BY DEF Init, RowsAreAccounted
<1> QED BY <1>1, NextAccounts, Invariance, PTL DEF Spec
=============================================================================
