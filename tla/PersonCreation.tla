--------------------------- MODULE PersonCreation ---------------------------
(***************************************************************************)
(* The createPerson mutation: the handlers of PersonService.create on      *)
(* every instance of the service, the Person table with its id sequence,   *)
(* the seed script, the "person" queue and the consumers of that queue.    *)
(* The insert and the enqueue are two awaited calls to two systems, with   *)
(* no transaction around them; either can fail, lose its reply, or be cut  *)
(* short by the exit of the process.                                       *)
(***************************************************************************)
EXTENDS Naturals, FiniteSets

CONSTANTS Requests,   \* createPerson calls
          Instances,  \* running instances of the service
          PersonIds,  \* the ids the sequence can reach (a bound)
          JobIds,     \* the job ids Redis can hand out (a bound)
          Inputs,     \* [name, age] arguments a caller may send
          SeedCount,  \* the seed script writes ids 1 .. SeedCount
          SeedPerson, \* what it writes
          MaxSends,   \* how often Redis may execute one add (a bound)
          MaxStalls,  \* maxStalledCount of BullMQ
          None

Persons == Inputs \cup {SeedPerson}
Jobs == [id : PersonIds, person : Persons]

ASSUME PersonIdsAssumption ==
  /\ PersonIds \subseteq Nat \ {0}
  /\ SeedCount \in Nat /\ 1 .. SeedCount \subseteq PersonIds
ASSUME ValuesAssumption ==
  /\ \A in \in Inputs : /\ in.name \in {"empty", "blank", "text"}
                        /\ in.age \in Nat
  /\ None \notin Persons /\ None \notin PersonIds
  /\ None \notin Jobs /\ None \notin Instances
  /\ SeedPerson \notin Inputs
ASSUME BoundsAssumption == MaxSends \in Nat /\ MaxStalls \in Nat

VARIABLES table,   \* id -> its row in the Person table, or None
          seq,     \* next value of the id sequence
          seeded,  \* upserts the running seed script has done
          pc,      \* request -> where its handler is, or how it ended
          input,   \* request -> its argument
          home,    \* request -> the instance that handles it
          drawn,   \* request -> the id its insert drew from the sequence
          sends,   \* request -> times Redis may have executed its add
          jobs, running, link   \* the "person" queue

store == <<table, seq, seeded>>
handlers == <<pc, input, home, drawn, sends>>
queue == <<jobs, running, link>>
vars == <<store, handlers, queue>>

Q == INSTANCE JobQueue WITH Workers <- Instances, Payloads <- Jobs, Attempts <- 3

\* The handler awaits the insert, the add, or the add's reply.
InFlight == {"inserting", "adding", "added"}
\* Answers, in the order the code can give them, and no answer at all.
Outcomes == {"badRequest", "invalid", "conflict", "failed", "created", "dropped"}
Locations == {"idle"} \cup InFlight \cup Outcomes

Init ==
  /\ table = [id \in PersonIds |-> None] /\ seq = 1 /\ seeded = 0
  /\ pc = [r \in Requests |-> "idle"]
  /\ input = [r \in Requests |-> None]
  /\ home = [r \in Requests |-> None]
  /\ drawn = [r \in Requests |-> None]
  /\ sends = [r \in Requests |-> 0]
  /\ Q!QueueInit

-----------------------------------------------------------------------------
\* The ValidationPipe on CreatePersonInput: a non-empty name, an age of 1 or more.
PipeAccepts(in) == in.name # "empty" /\ in.age >= 1

\* Fields the business rules object to: a name of blanks only, an age below 1.
FieldErrors(in) == {f \in {"name", "age"} :
                      \/ f = "name" /\ in.name \in {"empty", "blank"}
                      \/ f = "age" /\ in.age < 1}

Admitted(in) == IF ~ PipeAccepts(in) THEN "badRequest"
                ELSE IF FieldErrors(in) # {} THEN "invalid" ELSE "inserting"

\* Up to its first await a call runs in one go: both validations, then the insert is sent.
Receive(r, i, in) ==
  /\ pc[r] = "idle"
  /\ pc' = [pc EXCEPT ![r] = Admitted(in)]
  /\ input' = [input EXCEPT ![r] = in] /\ home' = [home EXCEPT ![r] = i]
  /\ UNCHANGED <<store, drawn, sends, queue>>

\* Mutant: a conflicting insert gives its id back to the sequence.
InsertRowKeepsSequence(r) ==
  /\ pc[r] = "inserting" /\ seq \in PersonIds
  /\ drawn' = [drawn EXCEPT ![r] = seq]
  /\ seq' = IF table[seq] = None THEN seq + 1 ELSE seq
  /\ table' = IF table[seq] = None THEN [table EXCEPT ![seq] = input[r]] ELSE table
  /\ UNCHANGED <<seeded, input, home, queue>>

\* The database executes the insert.  The id column is SERIAL: the insert
\* draws from the sequence and keeps the value drawn, even when a row the seed
\* wrote already has that id (P2002).
InsertRow(r) ==
  /\ pc[r] = "inserting" /\ seq \in PersonIds
  /\ drawn' = [drawn EXCEPT ![r] = seq] /\ seq' = seq + 1
  /\ table' = IF table[seq] = None THEN [table EXCEPT ![seq] = input[r]] ELSE table
  /\ UNCHANGED <<seeded, input, home, queue>>

\* Mutant: the insert is not awaited, the add goes out before the row is stored.
InsertUnawaited(r) ==
  /\ pc[r] = "inserting" /\ seq \in PersonIds
  /\ drawn' = [drawn EXCEPT ![r] = seq] /\ seq' = seq + 1
  /\ pc' = [pc EXCEPT ![r] = "adding"] /\ sends' = [sends EXCEPT ![r] = 1]
  /\ UNCHANGED <<table, seeded, input, home, queue>>

\* Mutant: the add is not awaited, the caller is answered when the row is stored.
AddUnawaited(r) ==
  /\ InsertRow(r)
  /\ pc' = [pc EXCEPT ![r] = IF table[seq] = None THEN "created" ELSE "conflict"]
  /\ UNCHANGED sends

\* create() resolves and the add is sent, or it rejects with the conflict.
Insert(r) ==
  /\ InsertRow(r)
  /\ pc' = [pc EXCEPT ![r] = IF table[seq] = None THEN "adding" ELSE "conflict"]
  /\ sends' = [sends EXCEPT ![r] = IF table[seq] = None THEN 1 ELSE 0]

\* The database cannot be reached: create() rejects.
InsertFails(r) ==
  /\ pc[r] = "inserting"
  /\ pc' = [pc EXCEPT ![r] = "failed"]
  /\ UNCHANGED <<store, input, home, drawn, sends, queue>>

\* The insert is executed, the connection breaks before the reply: create() rejects.
InsertReplyLost(r) ==
  /\ InsertRow(r)
  /\ pc' = [pc EXCEPT ![r] = "failed"]
  /\ UNCHANGED sends

\* Mutant: the add is issued again without looking at what the last one returned.
AddRepeated(r, j) ==
  /\ pc[r] = "adding" /\ link[home[r]]
  /\ Q!AddJob(j, [id |-> drawn[r], person |-> input[r]])
  /\ UNCHANGED <<store, handlers>>

\* personQueue.add('create-person', person) is executed by Redis.
Add(r, j) ==
  /\ pc[r] = "adding" /\ link[home[r]]
  /\ Q!AddJob(j, [id |-> drawn[r], person |-> input[r]])
  /\ pc' = [pc EXCEPT ![r] = "added"]
  /\ UNCHANGED <<store, input, home, drawn, sends>>

\* The reply of the add resolves the promise: the caller gets the person.
Reply(r) ==
  /\ pc[r] = "added" /\ link[home[r]]
  /\ pc' = [pc EXCEPT ![r] = "created"]
  /\ UNCHANGED <<store, input, home, drawn, sends, queue>>

\* Mutant: a rejected add is caught, and the caller is told all went well.
AddRejectionSwallowed(r) ==
  /\ pc[r] = "adding"
  /\ pc' = [pc EXCEPT ![r] = "created"]
  /\ UNCHANGED <<store, input, home, drawn, sends, queue>>

\* Mutant: the connection retries for ever (maxRetriesPerRequest: null).
AddNeverRejected(r) == FALSE

\* Redis replies with an error, or ioredis gave up on the command after its
\* retries: add() rejects.
AddRejected(r) ==
  /\ pc[r] = "adding"
  /\ pc' = [pc EXCEPT ![r] = "failed"]
  /\ UNCHANGED <<store, input, home, drawn, sends, queue>>

\* An instance loses Redis: ioredis will send again every command that had
\* no reply yet, those that Redis executed included.
LoseRedis(i) ==
  /\ \A r \in Requests : pc[r] = "added" /\ home[r] = i => sends[r] < MaxSends
  /\ Q!DropLink(i)
  /\ pc' = [r \in Requests |-> IF pc[r] = "added" /\ home[r] = i THEN "adding" ELSE pc[r]]
  /\ sends' = [r \in Requests |-> IF pc[r] = "added" /\ home[r] = i
                                  THEN sends[r] + 1 ELSE sends[r]]
  /\ UNCHANGED <<store, input, home, drawn>>

\* SIGTERM ends the process without closing the application: handlers and
\* the running job are abandoned where they are.
Restart(i) ==
  /\ Q!RestartWorker(i)
  /\ pc' = [r \in Requests |-> IF pc[r] \in InFlight /\ home[r] = i THEN "dropped" ELSE pc[r]]
  /\ UNCHANGED <<store, input, home, drawn, sends>>

-----------------------------------------------------------------------------
\* Mutant: the seed's loop runs one too far.
SeedUpsertPastEnd ==
  /\ seeded <= SeedCount /\ seeded + 1 \in PersonIds
  /\ table' = [table EXCEPT ![seeded + 1] = SeedPerson]
  /\ seeded' = seeded + 1
  /\ UNCHANGED <<seq, handlers, queue>>

\* prisma/seed.ts upserts its persons one after the other, under explicit
\* ids: the sequence does not move.
SeedUpsert ==
  /\ seeded < SeedCount
  /\ table' = [table EXCEPT ![seeded + 1] = SeedPerson]
  /\ seeded' = seeded + 1
  /\ UNCHANGED <<seq, handlers, queue>>

\* The seed is run again, after it was done or had failed midway.
SeedAgain ==
  /\ seeded # 0 /\ seeded' = 0
  /\ UNCHANGED <<table, seq, handlers, queue>>

\* PersonConsumer.process logs the job and returns its data: it never throws.
Consume(i, j) == Q!TakeJob(i, j) /\ UNCHANGED <<store, handlers>>
\* Mutant: process() never returns.
ConsumerHangs(i) == FALSE
Consumed(i) == Q!FinishJob(i) /\ UNCHANGED <<store, handlers>>
Stall(j) == Q!StallJob(j) /\ UNCHANGED <<store, handlers>>
RegainRedis(i) == Q!Reconnect(i) /\ UNCHANGED <<store, handlers>>

Next ==
  \/ \E r \in Requests : \/ \E i \in Instances, in \in Inputs : Receive(r, i, in)
                         \/ Insert(r) \/ InsertFails(r) \/ InsertReplyLost(r)
                         \/ \E j \in JobIds : Add(r, j)
                         \/ Reply(r) \/ AddRejected(r)
  \/ SeedUpsert \/ SeedAgain
  \/ \E i \in Instances : \/ LoseRedis(i) \/ RegainRedis(i) \/ Restart(i) \/ Consumed(i)
                          \/ \E j \in JobIds : Consume(i, j)
  \/ \E j \in JobIds : Stall(j)

Spec == Init /\ [][Next]_vars

-----------------------------------------------------------------------------
\* A handler that can go on does: the event loop is not blocked, the database
\* answers or fails, and ioredis sends or rejects every command it holds.
Advance(r) == \/ Insert(r) \/ InsertFails(r) \/ InsertReplyLost(r)
              \/ \E j \in JobIds : Add(r, j)
              \/ Reply(r) \/ AddRejected(r)

\* A worker that can take a job, finish its job or find a stalled one does so
\* in the end, however often its connection breaks.
Fairness ==
  /\ \A r \in Requests : SF_vars(Advance(r))
  /\ \A i \in Instances : /\ SF_vars(Consumed(i))
                          /\ SF_vars(\E j \in JobIds : Consume(i, j))
  /\ \A j \in JobIds : SF_vars(Stall(j))

FairSpec == Spec /\ Fairness

-----------------------------------------------------------------------------
TypeOK ==
  /\ table \in [PersonIds -> Persons \cup {None}]
  /\ seq \in Nat /\ seeded \in 0 .. SeedCount
  /\ pc \in [Requests -> Locations]
  /\ input \in [Requests -> Inputs \cup {None}]
  /\ home \in [Requests -> Instances \cup {None}]
  /\ drawn \in [Requests -> PersonIds \cup {None}]
  /\ sends \in [Requests -> Nat]
  /\ Q!QueueTypeOK

JobsFor(r) == {j \in JobIds : Q!Present(j) /\ jobs[j].data.id = drawn[r]}

\* A create-person job never runs ahead of its row: the person it carries is
\* stored, as the caller sent it unless the seed has rewritten that id since.
JobsCarryStoredRows ==
  \A j \in JobIds : Q!Present(j) =>
    LET p == jobs[j].data IN
      \/ table[p.id] = p.person
      \/ p.id <= SeedCount /\ table[p.id] = SeedPerson

\* A caller who was given a person finds its row, and its job was queued:
\* whatever failed in between ends in an error, never in a half-done success.
AcknowledgedIsComplete ==
  \A r \in Requests : pc[r] = "created" =>
    table[drawn[r]] # None /\ JobsFor(r) # {}

\* Ids are drawn once, by one call, and only an id of the seed can be taken
\* already: the seed makes at most SeedCount calls fail, whatever the order.
ConflictsOnlyOnSeedIds ==
  \A r \in Requests :
    /\ pc[r] = "conflict" => drawn[r] \in 1 .. SeedCount
    /\ \A s \in Requests \ {r} : drawn[r] # None => drawn[s] # drawn[r]

\* A person is announced more than once only because replies of Redis were
\* lost: one job for the first add, at most one more for each repetition.
JobsOnlyMultiplyOnLostReplies ==
  \A r \in Requests : drawn[r] # None => Cardinality(JobsFor(r)) <= sends[r]

\* Every call ends, whether or not Redis ever comes back.
EveryCallEnds ==
  \A r \in Requests : pc[r] \in InFlight ~> pc[r] \in Outcomes

\* As long as every instance reaches Redis again and again, every announced
\* person is consumed, or its job is failed for stalling too often.
EveryJobEnds ==
  (\A i \in Instances : []<> link[i]) =>
  \A j \in JobIds : Q!Present(j) ~> Q!Ended(j)

Registry == INSTANCE PersonRegistry WITH
  persisted <- {id \in PersonIds : table[id] # None},
  announced <- {jobs[j].data.id : j \in {k \in JobIds : Q!Present(k)}},
  acknowledged <- {drawn[r] : r \in {s \in Requests : pc[s] = "created"}}

\* Whatever fails in between: stored, then announced, then acknowledged.
ImplementsRegistry == Registry!Spec
=============================================================================
