--------------------------- MODULE EmailDelivery ---------------------------
(***************************************************************************)
(* Sending e-mail: EmailService.send on every instance of the service, the *)
(* "email-sending" queue, and EmailProcessor.process, which hands each job *)
(* to the mail server and rethrows what the server refuses.  A call of     *)
(* sendMail is one SMTP transaction: what the SES SDK would repeat by      *)
(* itself is left out.                                                     *)
(* The mail server has no part in the queue's bookkeeping: it may accept a *)
(* message whose job is later run again, because the reply was lost, the   *)
(* process died, or the lock lapsed while the server was answering.        *)
(***************************************************************************)
EXTENDS JobQueue, FiniteSets

CONSTANT MaxSends   \* how often Redis may execute one add (a bound)

Emails == Payloads  \* each is handed to send() once

ASSUME BoundsAssumption == MaxSends \in Nat /\ IsFiniteSet(Workers)
\* The options send() gives its job.
ASSUME SendOptions == Attempts = 3

VARIABLES pc,        \* e-mail -> where its send() is, or how it ended
          home,      \* e-mail -> the instance whose send() it is
          sends,     \* e-mail -> times Redis may have executed its add
          mail,      \* worker -> how far the sendMail of its run is
          delivered  \* job -> messages the mail server accepted for it

callers == <<pc, home, sends>>
vars == <<callers, mail, delivered, queueVars>>

InFlight == {"adding", "added"}
Outcomes == {"enqueued", "failed", "dropped"}

Init ==
  /\ pc = [e \in Emails |-> "idle"]
  /\ home = [e \in Emails |-> None]
  /\ sends = [e \in Emails |-> 0]
  /\ mail = [w \in Workers |-> "idle"]
  /\ delivered = [j \in JobIds |-> 0]
  /\ QueueInit

-----------------------------------------------------------------------------
\* send(email) is called: the add is issued.
Send(e, w) ==
  /\ pc[e] = "idle"
  /\ pc' = [pc EXCEPT ![e] = "adding"] /\ home' = [home EXCEPT ![e] = w]
  /\ sends' = [sends EXCEPT ![e] = 1]
  /\ UNCHANGED <<mail, delivered, queueVars>>

\* Mutant: the e-mail and the options change places in the call of add.
AddSwapped(e, j) ==
  /\ pc[e] = "adding" /\ link[home[e]]
  /\ AddJob(j, [attempts |-> Attempts])
  /\ pc' = [pc EXCEPT ![e] = "added"]
  /\ UNCHANGED <<home, sends, mail, delivered>>

\* Redis executes the add.
Add(e, j) ==
  /\ pc[e] = "adding" /\ link[home[e]]
  /\ AddJob(j, e)
  /\ pc' = [pc EXCEPT ![e] = "added"]
  /\ UNCHANGED <<home, sends, mail, delivered>>

\* The add's reply arrives: send() resolves.
Reply(e) ==
  /\ pc[e] = "added" /\ link[home[e]]
  /\ pc' = [pc EXCEPT ![e] = "enqueued"]
  /\ UNCHANGED <<home, sends, mail, delivered, queueVars>>

\* Mutant: send() does not await the add, so its rejection is never seen.
AddRejectionUnseen(e) ==
  /\ pc[e] = "adding"
  /\ pc' = [pc EXCEPT ![e] = "enqueued"]
  /\ UNCHANGED <<home, sends, mail, delivered, queueVars>>

\* Redis replies with an error, or ioredis gave up on the command: send() rejects.
AddRejected(e) ==
  /\ pc[e] = "adding"
  /\ pc' = [pc EXCEPT ![e] = "failed"]
  /\ UNCHANGED <<home, sends, mail, delivered, queueVars>>

-----------------------------------------------------------------------------
\* A worker starts process(job): sendMail is called.
Take(w, j) ==
  /\ TakeJob(w, j)
  /\ mail' = [mail EXCEPT ![w] = "sending"]
  /\ UNCHANGED <<callers, delivered>>

\* The mail server accepts the message.
Accepted(w) ==
  /\ mail[w] = "sending"
  /\ delivered' = [delivered EXCEPT ![running[w].job] = @ + 1]
  /\ UNCHANGED <<callers, queueVars>>

\* sendMail resolves.
Deliver(w) == Accepted(w) /\ mail' = [mail EXCEPT ![w] = "sent"]

\* Mutant: process() calls sendMail again itself when it rejects.
DeliverAgain(w) == Accepted(w) /\ UNCHANGED mail

\* The server accepts, its reply is lost: sendMail rejects.
DeliverReplyLost(w) == Accepted(w) /\ mail' = [mail EXCEPT ![w] = "refused"]

\* The server refuses, or cannot be reached: sendMail rejects.
Refuse(w) ==
  /\ mail[w] = "sending"
  /\ mail' = [mail EXCEPT ![w] = "refused"]
  /\ UNCHANGED <<callers, delivered, queueVars>>

\* Mutant: the processor reports to Redis itself, without the lock.
FinishUnlocked(w) ==
  /\ mail[w] = "sent" /\ link[w]
  /\ jobs' = [jobs EXCEPT ![running[w].job].state = "completed",
                          ![running[w].job].owner = None]
  /\ running' = [running EXCEPT ![w] = None] /\ UNCHANGED link
  /\ mail' = [mail EXCEPT ![w] = "idle"]
  /\ UNCHANGED <<callers, delivered>>

\* process() returns after the log line.
Finish(w) ==
  /\ mail[w] = "sent" /\ FinishJob(w)
  /\ mail' = [mail EXCEPT ![w] = "idle"]
  /\ UNCHANGED <<callers, delivered>>

\* Mutant: the catch block logs the error and does not rethrow it.
ThrowSwallowed(w) ==
  /\ mail[w] = "refused" /\ FinishJob(w)
  /\ mail' = [mail EXCEPT ![w] = "idle"]
  /\ UNCHANGED <<callers, delivered>>

\* Mutant: process() throws BullMQ's UnrecoverableError.
ThrowUnrecoverable(w) ==
  /\ mail[w] = "refused" /\ running[w] # None /\ link[w]
  /\ jobs' = IF Holds(w)
             THEN [jobs EXCEPT ![running[w].job].state = "failed",
                               ![running[w].job].owner = None,
                               ![running[w].job].made = @ + 1]
             ELSE jobs
  /\ running' = [running EXCEPT ![w] = None]
  /\ mail' = [mail EXCEPT ![w] = "idle"]
  /\ UNCHANGED <<link, callers, delivered>>

\* Mutant: the catch block waits for the server to come back.
ThrowNever(w) == FALSE

\* process() logs the error and rethrows it.
Throw(w) ==
  /\ mail[w] = "refused" /\ FailJob(w)
  /\ mail' = [mail EXCEPT ![w] = "idle"]
  /\ UNCHANGED <<callers, delivered>>

-----------------------------------------------------------------------------
Promote(j) == PromoteJob(j) /\ UNCHANGED <<callers, mail, delivered>>
Stall(j) == StallJob(j) /\ UNCHANGED <<callers, mail, delivered>>
RegainRedis(w) == Reconnect(w) /\ UNCHANGED <<callers, mail, delivered>>

\* An instance loses Redis: the adds that had no reply will be sent again.
Unanswered(w) == {e \in Emails : pc[e] = "added" /\ home[e] = w}

LoseRedis(w) ==
  /\ \A e \in Unanswered(w) : sends[e] < MaxSends
  /\ DropLink(w)
  /\ pc' = [e \in Emails |-> IF e \in Unanswered(w) THEN "adding" ELSE pc[e]]
  /\ sends' = [e \in Emails |-> IF e \in Unanswered(w) THEN sends[e] + 1 ELSE sends[e]]
  /\ UNCHANGED <<home, mail, delivered>>

\* The process ends where it is: a message on its way to the server is
\* accepted (Deliver came first) or never will be.
Restart(w) ==
  /\ RestartWorker(w)
  /\ mail' = [mail EXCEPT ![w] = "idle"]
  /\ pc' = [e \in Emails |-> IF pc[e] \in InFlight /\ home[e] = w THEN "dropped" ELSE pc[e]]
  /\ UNCHANGED <<home, sends, delivered>>

Next ==
  \/ \E e \in Emails : \/ \E w \in Workers : Send(e, w)
                       \/ \E j \in JobIds : Add(e, j)
                       \/ Reply(e) \/ AddRejected(e)
  \/ \E w \in Workers : \/ \E j \in JobIds : Take(w, j)
                        \/ Deliver(w) \/ DeliverReplyLost(w) \/ Refuse(w)
                        \/ Finish(w) \/ Throw(w)
                        \/ LoseRedis(w) \/ RegainRedis(w) \/ Restart(w)
  \/ \E j \in JobIds : Promote(j) \/ Stall(j)

Spec == Init /\ [][Next]_vars

\* sendMail settles (nodemailer's transports time out), process() then returns
\* or throws, and connected workers keep taking, promoting and checking jobs.
Fairness ==
  /\ \A w \in Workers : /\ WF_vars(Deliver(w) \/ DeliverReplyLost(w) \/ Refuse(w))
                        /\ SF_vars(Finish(w) \/ Throw(w))
                        /\ SF_vars(\E j \in JobIds : Take(w, j))
  /\ \A j \in JobIds : SF_vars(Promote(j) \/ Stall(j))

FairSpec == Spec /\ Fairness

-----------------------------------------------------------------------------
TypeOK ==
  /\ pc \in [Emails -> {"idle"} \cup InFlight \cup Outcomes]
  /\ home \in [Emails -> Workers \cup {None}]
  /\ sends \in [Emails -> Nat]
  /\ mail \in [Workers -> {"idle", "sending", "sent", "refused"}]
  /\ delivered \in [JobIds -> Nat]
  /\ QueueTypeOK

\* A send() that resolved left a job for its e-mail in the queue.
SentIsQueued ==
  \A e \in Emails : pc[e] = "enqueued" => \E j \in JobIds : jobs[j].data = e

\* No e-mail is written off as sent that the mail server never accepted: the
\* rethrow of process() is what keeps a refused one out of "completed", also
\* when the worker lost its lock and another one ran the job meanwhile.
CompletedWasDelivered ==
  \A j \in JobIds : jobs[j].state = "completed" => delivered[j] > 0

\* Lost replies, deaths and lapsed locks can repeat an e-mail, but no more
\* often than the attempts and the stalls the queue allows.
DeliveriesBounded ==
  \A j \in JobIds : delivered[j] <= Attempts + MaxStalls

\* An e-mail is given up only after all its attempts, or too many stalls.
FailedIsExhausted ==
  \A j \in JobIds : jobs[j].state = "failed" =>
    jobs[j].made = Attempts \/ jobs[j].stalls = MaxStalls + 1

\* With Redis within reach again and again, every queued e-mail is completed
\* or failed in the end, whatever the mail server answers.
EveryEmailEnds ==
  (\A w \in Workers : []<> link[w]) =>
  \A j \in JobIds : Present(j) ~> Ended(j)

-----------------------------------------------------------------------------
Queued == {j \in JobIds : Present(j)}
Content == [j \in JobIds |-> jobs[j].data]
Reports == [j \in JobIds |-> IF jobs[j].state = "completed" THEN "sent"
                             ELSE IF jobs[j].state = "failed" THEN "givenUp" ELSE "open"]
Told == {e \in Emails : pc[e] = "enqueued"}

Mailbox == INSTANCE Outbox WITH
  Entries <- JobIds, Limit <- Attempts + MaxStalls, queued <- Queued, content <- Content,
  accepted <- delivered, report <- Reports, told <- Told

\* Adds that are sent again, runs that overlap and workers that die keep the
\* promises of Outbox; in particular no report of a job is ever revised.
ImplementsOutbox == Mailbox!Spec
=============================================================================
