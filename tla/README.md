# constellation-service in TLA+

A verification development of constellation-service, a NestJS service with a
GraphQL API, PostgreSQL behind Prisma, and BullMQ queues on Redis. It runs as
several instances that share the database and Redis and nothing else.

Almost everything hard in this code comes from that: a handler awaits two
systems one after the other with no transaction around them, a queue delivers
at least once, clocks of instances differ, and `SIGTERM` ends a process between
any two awaits. Unit tests mock both systems and see none of it.

Paths below are relative to the repository; `src/...` is its own source
directory.

## 1. Inventory

| Component | State it keeps | Operations | Hard behaviour | What makes it correct |
|---|---|---|---|---|
| Person creation (`src/person/`) | rows and id sequence of `Person`; queue `person` | `createPerson`, `PersonConsumer.process`, the seed script | insert, then enqueue, each may fail or lose its reply; exit in between; seed ids collide with the sequence | nobody is announced who is not stored; who was told of success has row and job; every job ends |
| Person listing (`src/person/`, `src/common/utils/cursor.utils.ts`) | none; reads `Person` | `getAll` | rows commit between pages, out of the order of `createdAt`, with equal times | no row twice, none missed, `hasMore` and `total` never contradict the pages, walks end |
| Person lookup | none | `getOne`, `resolveReference` | none of its own; passes the guards | returns the row or an error |
| Job queues (BullMQ, Redis) | jobs, locks, repeated jobs | add, take, finish, fail, promote, stall | at-least-once runs, lost connections | (used by the others) |
| E-mail (`src/email/`) | queue `email-sending` | `send`, `EmailProcessor.process` | the mail server accepts and the reply is lost; retries; overlap after a stall | reported as sent means accepted; bounded repetition; given up last |
| Audit log (`src/audit/`) | `AuditLog` rows; repeated job | `log`, `AuditCleanupProcessor.process`, registrar | cutoff computed before an await; clocks differ; clean-ups overlap; a process ends between taking an iteration and scheduling the next | nothing deleted early; "completed" is true; everything expires |
| Audit query | none | `getAuditLogs` | the one handler that asks for a permission | only for `audit:read`; filters as documented (see findings) |
| Token revocation and gateway guard (`src/auth/`, `src/graphql/guards/gateway-auth.guard.ts`) | `revoked-jti:*` keys with a time to live | `revoke`, `isRevoked`, `canActivate` | check-then-use across an await; keys replaced with another time to live; Redis away | a resolved revoke holds while the token lives; an outage opens the guard and never blocks it |
| Configuration, bootstrap, shutdown (`src/config/`, `src/main.ts`, `docker-entrypoint.sh`, `src/monitoring/tracer.ts`) | stage of each instance | migrate, validate, construct the providers, `onModuleInit` hooks, `listen`, `SIGTERM` | database or Redis away during boot; one environment read by two functions; a constructor that throws | who listens is complete and hardened; a sound instance comes up and does not fail over and over |
| Chain of a request: document limits, permissions guard, rate limit, health checks, error status (`src/app.module.ts`, `src/graphql/`, `src/common/`, `src/health/`) | counts and blocks in the memory of each process | the plugins and rules of the GraphQL module, three global guards, the ValidationPipe, `formatError`, `GlobalExceptionFilter` | guards in a row with an await in the first; counts per process, forgotten when it ends; one handler that is not GraphQL | a limit holds per process; a refusal has its reason; a handler runs only for who passed everything |
| Correlation ids, tracing, federation stubs | none | functions of one request | none | not modelled: no state |
| Deployment (`terraform/`, CI, migrations) | – | – | – | not modelled, except the entrypoint and the migration that dates old rows |

How they interact. `createPerson` writes `Person` and adds to the queue
`person`; its consumer runs in every instance. `getAll` reads the same table.
`send` and `log` are offered to other modules; nothing in `src/` calls them yet,
nor `revoke`, so their callers are part of the environment: each e-mail, entry
or token may be handed over at any time. All queues go through one Redis
connection per queue and instance; losing it is one event of the instance in the
models. The guard of every request reads the keys `revoke` writes, and behind it
the throttler counts in the memory of its own process. The registrar
of the clean-up adds to Redis while the instance boots.

Redis commands. Connections use ioredis' defaults: a command that got no reply
is sent again when the connection is back, and is rejected after its retries.
So a command may be executed and its caller rejected, or executed twice. Every
module has both. An error reply of Redis rejects a command too, with the
connection up; nobody's progress may count on one.

## 2. Plan

Modules in the order of importance; all are written.

1. `JobQueue` (the queue all processors share), `PersonCreation` over
   `PersonRegistry`, what creation promises.
2. `PersonPagination`.
3. `EmailDelivery`, composed from `JobQueue` by `EXTENDS`, over `Outbox`.
4. `AuditRetention`, likewise composed, with relative time, over
   `RetentionLedger`.
5. `TokenRevocation` over `RevocationRegister`.
6. `ServiceLifecycle`.
7. `RequestPipeline`: everything a call passes, composed with
   `RevocationRegister` rather than with `TokenRevocation`. What the detailed
   module is shown to implement is all the guard relies on, and one module with
   both the keys in Redis and the throttler would multiply their state spaces.

Proofs follow the modules: type correctness and the invariants first, then the
action properties, the refinements, what each abstract specification implies on
its own, and last the part of liveness that is not about fairness: a measure
that every step brings down.

What a later extension could add: what the rows of `getAuditLogs` and `getOne`
are; the values of `configuration()` that no rule concerns.

Runs. Related questions share a run; the liveness runs are separate because
fairness needs smaller instances and forbids symmetry. A refinement is checked
with the invariants where the run has two instances to interleave (creation,
audit, revocation), that of e-mail in the smaller run, which has two as well.

## 3. Modules and the code

| Module | Models | Extends / instantiates |
|---|---|---|
| `JobQueue` | a BullMQ queue: records, workers, locks, attempts, stalls, links | – |
| `PersonRegistry` | abstract: persisted, then announced, then acknowledged | – |
| `PersonCreation` | `PersonService.create`, repository, pipe and business rules, seed script, consumer | `Q == INSTANCE JobQueue`, `Registry == INSTANCE PersonRegistry` |
| `PersonPagination` | `findAll`, `findMany`, cursors, `CursorPaginated` mapping, concurrent inserts | – |
| `Outbox` | abstract: queued, accepted by the mail server, reported once | – |
| `EmailDelivery` | `EmailService`, `EmailProcessor`, an SMTP server | `JobQueue`, `INSTANCE Outbox` |
| `RetentionLedger` | abstract: entries kept for their period, then gone, and reports of a clean log | – |
| `AuditRetention` | `AuditService`, repository, clean-up processor, registrar | `JobQueue`, `Ledger == INSTANCE RetentionLedger` |
| `RevocationRegister` | abstract: who may pass after a revoke was acknowledged | – |
| `TokenRevocation` | `TokenRevocationService`, `GatewayAuthGuard` | `INSTANCE RevocationRegister` |
| `RequestPipeline` | document rules, guards, throttler, pipe, handlers' outcomes, error status | `Register == INSTANCE RevocationRegister` |
| `ServiceLifecycle` | entrypoint, `validateConfig`, `configuration`, the mail transport's construction, hooks, `listen`, `SIGTERM` | – |
| `MC*` | instances for TLC | the module they are named after |
| `*Proofs` | theorems | the module they are named after, `TLAPS` |

Correspondence. A handler is a program counter per call; an `await` is the
boundary between two actions. For a call to PostgreSQL there are the actions
"executed and answered", "failed" and "executed, reply lost"; for a command to
Redis "issued", "executed" (possibly again), "answered" and "rejected". A query
that only reads is executed or fails. An
exit of an instance (`Restart`) drops every handler and every run it hosts and
leaves the database, Redis and the mail server as they are.

* **PersonCreation.** `Receive` is the resolver with the ValidationPipe
  (`PipeAccepts`) and `validateBusinessRules` (`FieldErrors`); a call that
  passes both (`Admitted`) inserts. `Insert` draws an id from the sequence and
  fails on a taken one, the sequence having moved on, as PostgreSQL's does.
  `Add` to `Reply` is the awaited `queue.add`. `SeedUpsert` is one upsert of the
  seed script, `SeedAgain` another run of it, whether the last one was done or
  failed midway. Names are "empty", "blank" and
  "text", which is what the two validation layers tell apart.
* **PersonPagination.** `Newer` is `orderBy createdAt desc, id desc`; `After` is
  the `OR` of the cursor's where clause; `FindMany` takes one row too many and
  `HasMore`/`Items` cut it off; `Count` is the second, separate query. Either may
  fail (`QueryFails`): the caller gets an error instead of a page, and may ask
  again with the same cursor (`Repeat`). A cursor
  is the pair (createdAt, id) by what encoding and decoding do to it. A request
  with a bad cursor or `first` changes nothing and is not a step here. `Stamp`
  dates a row and `Commit` makes it visible, in any order. A row that commits
  under a cursor already passed is not owed to that walk.
* **EmailDelivery.** `Deliver`, `DeliverReplyLost` and `Refuse` are the outcomes
  of `sendMail`, one SMTP transaction; `Finish` returns, `Throw` is the catch
  block that logs and rethrows. A worker whose lock has lapsed keeps sending. The outbox sees of a
  job its e-mail, how often it was accepted, what was reported of it, and which
  senders were told that it is queued.
* **AuditRetention.** `Log` to `Store` or `StoreFails` is the fire-and-forget
  insert, dated by the instance when it calls. `Take` is the worker's command that
  hands it the job; `Process` is BullMQ's next command, which schedules the
  following iteration, and then `process()` up to its first await, which computes
  the cutoff. A process may end between the two, and then no clean-up is
  scheduled until one boots. `Delete` is executed up to `MaxLag` ticks after the
  cutoff. Time is relative (ages
  instead of dates), so that it goes on for ever in a finite state space. The
  ledger sees what became of each entry, its age, and how long ago the log was
  last reported clean; queue, workers, schedule and clocks are hidden from it.
* **TokenRevocation.** `Revoke`, `Set`, `SetReplied`, `SetRejected` (an error
  reply, or retries used up); a time to
  live of zero or less is refused by Redis. `CanActivate` goes through
  `@Public`, the federation switch, the two header formats and `isJwtPayload`,
  abstracted to what a request carries; then `Exists` and `Answered`, or
  `CheckRejected`, which lets the request pass. Tokens expire for the gateway
  as they do for Redis. The register sees a revoke from its command on as begun,
  a resolved one as acknowledged, and what each check decided.
* **RequestPipeline.** A call is one root field of a document, or one request to
  an HTTP controller. `Arrive` is the rules on the document (`DocumentRuns`) and
  `GatewayAuthGuard` up to its first await; `Checked` is the answer of
  `isRevoked`, a step of the register. `Admit` and `Refuse` are the throttler
  and, in the same step since nothing is awaited between them that another call
  could disturb, the permissions guard and the ValidationPipe. `Finish` is the
  handler with what it may throw, and `Status` what becomes of that. `Stop`
  ends a process with its calls, counts and blocks. `@nestjs/throttler` is not
  part of the repository. It is modelled from its configuration: a call that is
  refused does not count, a block lasts one window and is not renewed by
  further calls, each counted call is forgotten a window after it was counted,
  and the key is the handler and `req.ip`. Behind the gateway that address is
  the gateway's, so all its callers share one count; `Clients` is the set of
  addresses, not of users. With `NODE_ENV=test` nothing is counted. A token that
  has expired is not accepted as a bearer token; behind the gateway this service
  does not look at the expiry, as in the code.
* **ServiceLifecycle.** A process that is not there was stopped (never started, or
  ended by a SIGTERM) or has failed (ended on its own); who starts it again is
  not part of the code. `Construct` is `NestFactory.create` building the
  providers, of which EmailProcessor's constructor can throw: with a region it
  hands nodemailer the client of the old SES SDK, which the releases
  `package.json` admits refuse. `legacySes` says what the image's nodemailer
  takes. `SchemaIssues` and `ProductionIssues` are the zod schema
  and its `superRefine`; `Configuration` is what `configuration()` reads off the
  same environment. A number is a text, and a text is the pair of what
  `Number()` and `parseInt()` make of it. Hooks run in the framework's order,
  which the model leaves open. The rejection of `bootstrap()` is caught by
  nobody and ends the process.

## 4. Runs

State counts are distinct states.

| Run | Instance | Properties | States |
|---|---|---|---|
| `person_creation` | 2 calls, 2 instances, 2 ids, 2 jobs, 1 seed row, 6 inputs; `MaxSends` 2, `MaxStalls` 1 | `TypeOK`, `JobsCarryStoredRows`, `AcknowledgedIsComplete`, `ConflictsOnlyOnSeedIds`, `JobsOnlyMultiplyOnLostReplies`, `ImplementsRegistry` | 579,521 |
| `person_creation_live` | 1 call, 2 instances, 2 jobs, no seed | `EveryCallEnds`, `EveryJobEnds` | 11,368 |
| `person_pagination` | 1 caller, pages of 1 and 2, 2 old rows with one date, 2 inserts, `MaxClock` 2 | `TypeOK`, `PagesDescend`, `WalkMissesNothing`, `TotalCoversWalk`, `MoreMeansMore`, `WalkEnds` | 417,020 |
| `email_delivery` | 1 e-mail, 2 instances, 2 jobs, 3 attempts, 1 stall | `TypeOK`, `SentIsQueued`, `CompletedWasDelivered`, `DeliveriesBounded`, `FailedIsExhausted` | 2,067,777 |
| `email_delivery_live` | the same, 1 job, 1 send | `EveryEmailEnds`, `ImplementsOutbox` | 26,236 |
| `audit_retention` | 1 entry, 2 instances, `Retention`, `Day`, `Skew`, `MaxLag` 1 | `TypeOK`, `ReportIsTrue`, `NoneDeletedEarly`, `ImplementsLedger` | 2,417,900 |
| `audit_retention_live` | 1 entry, 1 instance, `Retention` 2, `Day` 2 | `EveryEntryExpires` | 30,168 |
| `token_revocation` | 1 token, 2 revokes, 1 request, 2 instances, `MaxLife` 2 | `TypeOK`, `KeyOutlivesToken`, `NoLatePass`, `OnlyRevokedTurnedAway`, `EveryGuardDecides`, `ImplementsRegister` | 400,872 |
| `service_lifecycle` | 2 instances, 19 environments | `TypeOK`, `HardenedInProduction`, `ListensComplete`, `ComesUp` | 101,844 |
| `request_pipeline` | 3 calls, 2 processes, 2 addresses, 1 token, `Window` 2, limits 1 and 2; 3 deployments, 9 requests | `TypeOK`, `FleetLimit`, `HandledWasAllowed`, `RefusedHadReason` | 1,262,828 |
| `health_checked` | the same | `HealthIsChecked` is violated | – |
| `retention_validation` | the same | `RetentionAsValidated` is violated | – |

What they show.

* **Creation.** No job carries a row that is not stored; a caller who got a
  person finds its row and its job; an insert fails only on an id of the seed;
  more jobs than calls need a lost reply. `ImplementsRegistry` maps the rows,
  jobs and answers to the registry's three sets: whatever fails in between, no
  step skips "persisted" or "announced". What the code does *not* promise shows
  too: a stored person whose enqueue fails is never announced, and its caller is
  told of an error. The registry leaves that open, as the code does.
* **Listing.** Every walk sees each row at most once, in listing order, and, if
  it ends, every row that was committed when its first page was read. `total`
  is read after the page and rows are never deleted, hence it covers the walk.
* **E-mail.** A job the queue calls completed was accepted by the mail server at
  least once; one job reaches it at most `Attempts + MaxStalls` times.
  `ImplementsOutbox`: it is accepted before it is reported sent, and no report is
  ever revised, although a run that lost its lock may end last.
* **Audit.** No entry goes before its period is over by more than the clocks
  differ, with any number of clean-ups under way; a clean-up that logs
  "completed" left nothing that was too old at its cutoff. `ImplementsLedger`:
  an entry is written, kept or lost, expires once it is too old by its own date,
  and never comes back, whoever retries, overlaps or dies. It is checked with
  two workers whose clocks differ and whose clean-ups overlap after a stall.
* **Revocation.** A request that comes after a revoke resolved does not pass
  behind the gateway while the token lives, unless the check could not be made;
  an outage keeps nobody out, and every guard decides. `ImplementsRegister`
  says the same for all tokens and checks at once, without keys and lifetimes.
* **Requests.** `FleetLimit`: within a window a client gets no more calls of a
  handler than the limit times the processes its calls came to, those that have
  ended included, and no better bound holds of this code. `RefusedHadReason`:
  behind every 429 stand as many admitted calls of the same handler and address
  in the same process; refused calls and other callers never cause one.
  `HandledWasAllowed`: revokes, expiry and stops during the await of the first
  guard get nobody past the chain. What the code does not promise: a bearer
  token is not checked for revocation, and its payload may have any shape unless
  a permission is asked for.
* **Lifecycle.** An instance that listens has its schema, its connection and
  the registered clean-up; in production it uses what the production rules
  admit, although `configuration()` has defaults of its own. `ComesUp`: with
  database and Redis up and a sound image and environment, an instance that is
  started whenever it has failed listens in the end, that is, no boot hangs and
  none fails over and over, for ever. Only SIGTERMs are excepted, and a process
  that ended by one is told from one that failed. What the code does not
  promise: an image with the locked nodemailer and a region is not sound.

Bounds. Two calls (or revokes, or clean-up runs) on two instances are the least
that interleave; three attempts and one stall are the code's own numbers (the
stall is BullMQ's default). `MaxSends` 2 is one lost reply; `JobIds` and
`PersonIds` bound what the sequence and Redis hand out, and two of each are what
two calls, or one with a lost reply, can use. Two inserts and two old rows
suffice for every order of a new row, a tie and a cursor; pages of one and two
give the last page full and not full. In RequestPipeline two calls fill a limit
of one on one process and of two on the fleet, and the third takes every way a
single step of the chain can stop or pass it; a window of two ticks tells a call
from before the block from one within it. Which call carries which request is
fixed by the MC module: it is a choice of instance, and the first two are
symmetric. `Cap` in AuditRetention is beyond every age
a clean-up compares, and `Late` a report old enough to bind no entry any more. A
period of one tick is as long as an insert may take, the least the assumptions
allow, and leaves both an entry that is too old at a cutoff and one that becomes
so before the delete; the liveness run has two ticks and a day of two, so that
an entry outlives a clean-up. The environments are a sound one for production
and one for development, each rule's variable changed in turn, an image whose
nodemailer takes the SES configuration or does not, and six texts of a number.
The theorems of section 6 hold without these bounds.

Deadlock is checked in all runs but that of PersonPagination, where clock and
ids run out: an insert that was stamped and walks that ended may all be done.
Symmetry is used for safety only.

### Disagreements between code and documentation

Two runs show the code against its own words: `GET /health` is answered with 500
by the gateway guard, which is global and reads a GraphQL context that an HTTP
controller does not have, and its checks never run (README.md:481);
`AUDIT_RETENTION_DAYS=0x10` passes validation as 16 and is used as 0, `1e2` as
100 and is used as 1. Others were read off the code without a run and are listed
with their lines in `PROJECT.json`: an e-mail is attempted three times and so
retried twice; `total` is counted on every call; the audit filter and the
ValidationPipe; the guard with federation disabled; 02:00 in whose time zone;
what the health check pings; and the mail transport of production, whose
configuration the locked nodemailer (8.0.5) refuses at construction, so that
such an instance does not start.

## 5. Fairness

* Handlers: the runtime resumes a handler whose awaited call was answered or
  rejected; strong fairness, as a lost connection may interrupt again and again.
  The rejection after the retries makes `EveryCallEnds` and `EveryGuardDecides`
  independent of Redis ever coming back.
* Workers: a worker that is connected takes waiting jobs, and a run ends (the
  calls in it have timeouts or are answered). A worker that took a clean-up goes
  on to schedule the next (strong fairness of `Process`, which needs the
  connection) unless its process ends. BullMQ's own timers promote
  delayed jobs and find stalled ones. Strong, for the same reason.
* `EveryJobEnds`, `EveryEmailEnds` and `EveryEntryExpires` have a premise about
  the outside: every connection to Redis keeps coming back. In AuditRetention an
  instance that ended must register the clean-up before it is up again, so there
  the premise also says that every instance keeps coming back; the other modules
  take the end of a process and the start of its successor for one step, as all
  that is left of it is what it dropped. That deletes do not
  fail on every night for ever is the strong fairness of `Delete` (its two
  executed outcomes together), and without it no code could keep the promise.
* Failures, lost replies, outages, stops and seed runs have no fairness: they
  may happen at any time and need not happen at all.
* Callers of `getAll` keep following `endCursor`, or repeat what failed (weak
  fairness of `Follow` and `Repeat`), and a query that is sent again and again
  is answered some time (strong fairness of `FindMany` and `Count`): a database
  that fails every query for ever keeps any caller from the end.
* The rejection of a check of a token counts as progress only while the
  connection is down (`GiveUp`), which is what bounded retries give; an error
  reply may never come.
* `ServiceLifecycle`: what can go on does (weak fairness of `Boot`), and no more.
  `docker-compose.yml` does not run the service and `terraform/main.tf` has a
  `desired_count` of 0, so that somebody starts an instance again is no fairness
  but a premise of `ComesUp`, next to database and Redis staying up, a sound
  environment, and an end of SIGTERMs. A crash loop meets the
  premise, so the property rules it out.

## 6. Proofs

For every value of the constants that meets the assumptions below, checked by
tlapm to the last leaf.

| Module | Theorems | Argument |
|---|---|---|
| `JobQueueProofs` | lemmas on each operation of the queue | what a step keeps of the records, and how it brings its job closer to the end (`StepsLeft`): used for e-mail and audit |
| `PersonCreationProofs` | `Typing`, `JobsNeverRunAhead`, `AcknowledgementIsSound`, `ConflictsAreBounded`, `AnnouncementsAreCounted`, `Refinement`, `JobsAdvance`, `RefusedCallsLeaveNothing` | A handler past its insert knows its row (`HandlersKnow`, `AddersHaveRows`); no id is drawn twice and only seed ids lie ahead of the sequence (`DrawnOnce`, `OnlySeedsAhead`), so a row is rewritten only by the seed and only where no handler stored it; so jobs hold what the table holds (`JobsHoldRows`, `AddedHaveJobs`). The refinement follows step by step under the same invariant. The count of announcements needs that no job carries an id not yet drawn (`JobsWereDrawn`) and that an add under way has not made its job (`AddsCounted`). Every row is the seed's or the argument of a call that drew its id and was neither refused nor told of a conflict (`RowsAreAccounted`). |
| `PersonPaginationProofs` | `Typing`, `WalksDescend`, `WalksAreComplete`, `TotalsCover`, `MoreIsTrue`, `WalksAdvance` | `Newer` is a strict total order. The invariant of a walk says that all that was seen is newer than the page, the page newer than what remains, and each row of the start is seen, on the page or, if there is more, older than the page. `Cardinality` facts give the total. |
| `EmailDeliveryProofs` | `Typing`, `SendIsSound`, `CompletionIsSound`, `RepetitionIsBounded`, `GivingUpIsLast`, `Refinement`, `JobsAdvance`, `OutboxKeepsPromises` | Runs of a job are attempts plus stalls plus the one under way (`JobsAccounted`); messages accepted and runs that may still deliver never outnumber the runs (`RunsCoverDeliveries`), although workers that lost their lock go on sending. `Refinement` uses `EndsAreFinal` of the queue: no step revises an ended job. |
| `AuditRetentionProofs` | `Typing`, `ReportsAreTrue`, `RetentionIsKept`, `Refinement`, `LedgerPromises`, `ScheduleIsNeverLost`, `JobsAdvance` | An entry under way is not older than its insert may take (`WritesAreFresh`), so one that is stored after a cutoff is younger than the period. Under the same invariant every step is one of the ledger's. The next iteration of the clean-up is on the schedule, in a waiting job that was never run, or with the worker that took one (`ScheduleKept`): no end, stall or removal can come in between, as each needs a run. Only the end of that worker's process breaks it, and then an instance is not up until it has registered the job again. |
| `TokenRevocationProofs` | `Typing`, `KeysLast`, `LateRequestsStop`, `OutagesLetPass`, `Refinement` | Every revoke on its way carries a time to live its token cannot exceed, so replacing one by another never shortens it too far; hence the key is there when a late request's check is executed. The refinement maps each step under that invariant. |
| `RequestPipelineProofs` | `Typing`, `LimitsHoldPerProcess`, `HandlersAreGuarded`, `RefusalsHaveReason`, `RegisterPromises`, `UsesRegister`, `RevocationHoldsInPipeline` | What a process counts is what it let in within the window (`HitsAreRecent`), so it never exceeds the limit (`WithinLimit`); the fleet's bound is a pigeonhole over the processes (`ClassesBound`). A block with b ticks left began when the limit was reached, by calls at most 2 * Window - b old (`BlocksHaveReason`), which is why a refusal always has its reason. `Cleared` says what the chain has made sure of at each place. Every step of the chain is one of `RevocationRegister` or none (`UsesRegister`), so what the register promises (`RegisterPromises`) holds of every call. |
| `ServiceLifecycleProofs` | `Typing`, `ListensHardened`, `ListeningIsComplete`, `BootsAdvance` | Each stage implies what was done before it (`StagesInOrder`); no environment without issues yields a value the production rules forbid (`ValidatedIsHardened`). With database, Redis and a sound environment every failing step is disabled, so what is left brings the boot forward, and only a SIGTERM ends in "stopped". |

None of the properties is inductive as it stands: each speaks of the end of a
handler, and what makes it true was established before an await. The inductive
invariants add what the handler knows in between.

The abstract specifications are proved about too, so that a refinement says what
it is worth: `OutboxKeepsPromises`, `LedgerPromises` and `RegisterPromises` hold
of anything that implements them. `UsesRegister` with `Refinement` of
TokenRevocation is the composition of section 2: the chain of guards relies on
the register only, and the keys in Redis provide it.

Measures. Liveness itself stays with TLC, but the half of it that is safety is
proved: each step brings down a bounded number, so that nothing goes round for
ever, and what is left to fairness is that a step comes at all.

* `JobsAdvance`: `StepsLeft` of a job is three steps for each attempt it has
  (taken, failed, promoted) and two for each stall (taken, stalled). It starts
  at `3 * Attempts + 2 * MaxStalls`, every change of the job's record lowers it,
  and it is 0 exactly when the job is completed or failed. In PersonCreation the
  consumer never throws, so a job has `2 * MaxStalls + 3` steps and is consumed
  at most `MaxStalls + 1` times. In AuditRetention the record of an ended job is
  used again.
* `WalksAdvance`: the rows behind the cursor are finite, and a page followed
  leaves fewer of them, since its last item was ahead and no longer is. A row
  that commits meanwhile adds itself: a walk ends unless inserts outrun it. A
  query that fails and is repeated leaves the rows behind the cursor as they are.
* `BootsAdvance`: the stages and hooks between an instance and `listen()`. With
  all within reach each step of the boot lowers their number; none ends in
  "failed", and none but a SIGTERM raises it.

`ScheduleIsNeverLost`, `RefusedCallsLeaveNothing` and the measures are stated
by no run (TLC agrees with them on the instances of section 4).

Assumptions. `Workers` is finite (EmailDelivery counts the runs under way), and
so is the set of calls (RequestPipeline counts those let in). A
database call takes no longer than the retention period
(`MaxLag <= Retention`): seconds against days. A revoke carries at least the
remaining lifetime of its token, as README.md:277 asks of its caller. `Attempts`
is 3, as configured. Old rows have distinct ids. The rest names model values and
types of the constants.

Only model-checked: all liveness (`EveryCallEnds`, `EveryJobEnds`, `WalkEnds`,
`EveryEmailEnds`, `EveryEntryExpires`, `EveryGuardDecides`, `ComesUp`), which
needs fairness and ENABLED, out of the prover's reach here. For
`EveryCallEnds` and `EveryGuardDecides` no measure is proved: each loss of the
connection sends a command again, and how often that may be is up to ioredis.
Every invariant, action property and refinement a passing run checks is also
proved. No module
uses RECURSIVE.

## 7. Not modelled

* `resolveReference`, which only a gateway calls, and the rows `getOne` and
  `getAuditLogs` return: single reads without state.
* Empty environment variables beyond "other"; values of `configuration()` no
  rule concerns (hosts, ports, names).
* What the SDK of SES repeats by itself within one `sendMail`: that transport
  cannot be constructed with the locked nodemailer, and with it the bound on
  deliveries would be one of runs, not of messages.
* The order of waiting jobs, and trimming of finished ones except for the
  repeated clean-up job, whose record is reused.
* `.env` files: ConfigModule would put the validated value into the process's
  environment; the model is of variables that are set there already.
* How depth and complexity of a document are computed (libraries), and the
  wording of errors; `RequestPipeline` has the numbers and the statuses.
* The fields of one document together: each is a call of its own, as each passes
  the guards on its own; that a document is answered as one is left out.
* CORS, helmet, correlation ids, spans, metrics and log lines: functions of one
  request without effect on any state above.
* Infrastructure descriptions.
