-------------------------- MODULE ServiceLifecycle --------------------------
(***************************************************************************)
(* Starting and stopping the instances of the service: the entrypoint runs *)
(* the migrations, validateConfig checks the environment, configuration()  *)
(* turns the same environment into the values in use, the providers are    *)
(* constructed, the onModuleInit hooks reach for the database and for      *)
(* Redis, and only then the instance listens.  Each step may fail and end  *)
(* the process; starting it again is up to whoever deployed it.            *)
(*                                                                         *)
(* An environment variable is abstracted to what the code tells apart: a   *)
(* number is written as a text, and a text is the pair of what Number()    *)
(* and parseInt() make of it.                                              *)
(***************************************************************************)
EXTENDS Integers

CONSTANTS Instances,     \* tasks of the service
          Environments,  \* what an instance may be started with
          NaN            \* the text is no number

Texts == [set : BOOLEAN, number : Int \cup {NaN}, int : Int \cup {NaN}]
Origins == {"url", "junk"}
Levels == {"error", "warn", "info", "debug", "verbose"}

Environment == [nodeEnv : {"unset", "development", "production", "test", "other"},
                secret : {"unset", "short", "long"},   \* long: 32 characters or more
                databaseUrl : {"unset", "set"},
                federation : {"unset", "true", "false", "other"},
                region : {"unset", "set"},
                origins : SUBSET Origins,   \* after split, trim and filter
                logLevel : Levels \cup {"unset", "other"},
                retention : Texts,
                legacySes : BOOLEAN]   \* the image's nodemailer takes {ses, aws}

ASSUME EnvironmentsAssumption == Environments \subseteq Environment
ASSUME NaNAssumption == NaN \notin Int

VARIABLES stage,       \* instance -> how far it has come
          env,         \* instance -> the environment it was started with
          hooks,       \* instance -> the onModuleInit hooks that are done
          dbUp,        \* the database can be reached
          redisUp,     \* Redis can be reached
          migrated,    \* the schema is up to date
          registered   \* Redis has the repeated clean-up job

world == <<dbUp, redisUp, migrated, registered>>
vars == <<stage, env, hooks, world>>

\* A process that is not there was never started or ended by a SIGTERM
\* ("stopped"), or it ended on its own ("failed").
Down == {"stopped", "failed"}
Stages == Down \cup {"migrating", "loading", "constructing", "initialising", "listening"}
Hooks == {"connect", "register"}

-----------------------------------------------------------------------------
\* Number() of the text, the schema's default for a variable that is not set.
RetentionValidated(e) == IF e.retention.set THEN e.retention.number ELSE 90

\* parseInt() of the same text, with a default of its own.
RetentionInUse(e) == IF e.retention.set THEN e.retention.int ELSE 90

NodeEnv(e) == IF e.nodeEnv = "unset" THEN "development" ELSE e.nodeEnv

SchemaIssues(e) ==
  {v \in {"NODE_ENV", "DATABASE_URL", "FEDERATION_ENABLED", "LOG_LEVEL", "AUDIT_RETENTION_DAYS"} :
     \/ v = "NODE_ENV" /\ e.nodeEnv = "other"
     \/ v = "DATABASE_URL" /\ e.databaseUrl = "unset"
     \/ v = "FEDERATION_ENABLED" /\ e.federation = "other"
     \/ v = "LOG_LEVEL" /\ e.logLevel = "other"
     \/ v = "AUDIT_RETENTION_DAYS" /\ (RetentionValidated(e) = NaN \/ RetentionValidated(e) < 1)}

\* The rules of superRefine, for production only.
ProductionIssues(e) ==
  {v \in {"JWT_SECRET", "AWS_SES_REGION", "FRONTEND_ORIGINS", "LOG_LEVEL"} :
     \/ v = "JWT_SECRET" /\ e.secret # "long"
     \/ v = "AWS_SES_REGION" /\ e.region = "unset"
     \/ v = "FRONTEND_ORIGINS" /\ (e.origins = {} \/ "junk" \in e.origins)
     \/ v = "LOG_LEVEL" /\ e.logLevel \in {"debug", "verbose"}}

\* validateConfig throws if there is any issue.  (Some of the schema's keep
\* superRefine from being run; that shortens the message, and nothing else.)
Issues(e) == SchemaIssues(e) \cup (IF NodeEnv(e) = "production" THEN ProductionIssues(e) ELSE {})

\* createTransporter() hands nodemailer the configuration of the SES client of
\* old; the releases package.json admits (8.0.5 and later) throw at it.
Constructs(e) == e.region = "unset" \/ e.legacySes

\* Nothing in image or environment keeps the instance from starting.
Sound(e) == Issues(e) = {} /\ Constructs(e)

\* Mutant: one default of LOG_LEVEL for all environments.
OneLogLevel(e) == IF e.logLevel = "unset" THEN "debug" ELSE e.logLevel

LogLevel(e) == IF e.logLevel # "unset" THEN e.logLevel
               ELSE IF NodeEnv(e) = "production" THEN "info" ELSE "debug"

\* configuration(): the values in use.
Configuration(e) ==
  [nodeEnv |-> NodeEnv(e), logLevel |-> LogLevel(e), federation |-> e.federation = "true",
   region |-> e.region, retentionDays |-> RetentionInUse(e), secret |-> e.secret,
   origins |-> e.origins]

-----------------------------------------------------------------------------
Init ==
  /\ stage = [i \in Instances |-> "stopped"]
  /\ env \in [Instances -> Environments]
  /\ hooks = [i \in Instances |-> {}]
  /\ dbUp \in BOOLEAN /\ redisUp \in BOOLEAN
  /\ migrated = FALSE /\ registered = FALSE

\* The process ends, whatever it was doing.
Exit(i, s) ==
  /\ stage' = [stage EXCEPT ![i] = s] /\ hooks' = [hooks EXCEPT ![i] = {}]
  /\ UNCHANGED env

Fail(i) == Exit(i, "failed") /\ UNCHANGED world

Enter(i, s) == stage' = [stage EXCEPT ![i] = s] /\ UNCHANGED <<env, hooks>>

\* The instance is started, and the entrypoint runs the migrations first.
Start(i) == stage[i] \in Down /\ Enter(i, "migrating") /\ UNCHANGED world

Migrate(i) ==
  /\ stage[i] = "migrating" /\ dbUp /\ Enter(i, "loading")
  /\ migrated' = TRUE
  /\ UNCHANGED <<dbUp, redisUp, registered>>

\* set -e: without its migrations the application is not started.
MigrateFails(i) == stage[i] = "migrating" /\ ~ dbUp /\ Fail(i)

\* The modules are loaded: ConfigModule validates the environment at once.
Load(i) ==
  /\ stage[i] = "loading" /\ Issues(env[i]) = {}
  /\ Enter(i, "constructing") /\ UNCHANGED world

LoadFails(i) == stage[i] = "loading" /\ Issues(env[i]) # {} /\ Fail(i)

\* NestFactory.create builds the providers, EmailProcessor its transport.
Construct(i) ==
  /\ stage[i] = "constructing" /\ Constructs(env[i])
  /\ Enter(i, "initialising") /\ UNCHANGED world

\* A constructor that throws makes the framework end the process.
ConstructFails(i) == stage[i] = "constructing" /\ ~ Constructs(env[i]) /\ Fail(i)

\* A hook is done.  Their order is the framework's.
Hook(i, h) ==
  /\ stage[i] = "initialising" /\ h \notin hooks[i]
  /\ hooks' = [hooks EXCEPT ![i] = @ \cup {h}]
  /\ UNCHANGED <<stage, env, dbUp, redisUp, migrated>>

\* PrismaService.onModuleInit: $connect.
Connect(i) == dbUp /\ Hook(i, "connect") /\ UNCHANGED registered

\* Mutant: bootstrap() has a catch block that logs the error.
ConnectFailureCaught(i) ==
  /\ stage[i] = "initialising" /\ "connect" \notin hooks[i] /\ ~ dbUp
  /\ Enter(i, "hanging") /\ UNCHANGED world

\* Nothing catches the rejection of bootstrap(): the process ends.
ConnectFails(i) ==
  /\ stage[i] = "initialising" /\ "connect" \notin hooks[i] /\ ~ dbUp
  /\ Fail(i)

\* Mutant: the add is not awaited.
RegisterUnawaited(i) == Hook(i, "register") /\ UNCHANGED registered

\* AuditCronRegistrar.onModuleInit awaits the add, and Queue.add the connection.
Register(i) == redisUp /\ Hook(i, "register") /\ registered' = TRUE

\* Mutant: the job is added under an id of its own, and an add of one that is
\* there already is rejected.
RegisterRefused(i) ==
  /\ stage[i] = "initialising" /\ "register" \notin hooks[i] /\ (~ redisUp \/ registered)
  /\ Exit(i, "failed")
  /\ registered' = TRUE \/ UNCHANGED registered
  /\ UNCHANGED <<dbUp, redisUp, migrated>>

\* The connection is lost under the add, executed or not, and its retries are
\* used up: the rejection ends the process.  Until there is a connection to
\* lose, the add waits instead.
RegisterFails(i) ==
  /\ stage[i] = "initialising" /\ "register" \notin hooks[i] /\ ~ redisUp
  /\ Exit(i, "failed")
  /\ registered' = TRUE \/ UNCHANGED registered
  /\ UNCHANGED <<dbUp, redisUp, migrated>>

\* app.listen comes after all hooks.
Listen(i) ==
  /\ stage[i] = "initialising" /\ hooks[i] = Hooks
  /\ Enter(i, "listening") /\ UNCHANGED world

\* The handler of SIGTERM exits once the exporters are shut down, at any stage;
\* before it is installed, the process is just killed.
Sigterm(i) == stage[i] \notin Down /\ Exit(i, "stopped") /\ UNCHANGED world

Redeploy(i, e) ==
  /\ stage[i] \in Down /\ e # env[i] /\ env' = [env EXCEPT ![i] = e]
  /\ UNCHANGED <<stage, hooks, world>>

Outage ==
  /\ \/ dbUp' = ~ dbUp /\ UNCHANGED redisUp
     \/ redisUp' = ~ redisUp /\ UNCHANGED dbUp
  /\ UNCHANGED <<stage, env, hooks, migrated, registered>>

\* What an instance that was started does on its own.
Boot(i) == \/ Migrate(i) \/ MigrateFails(i) \/ Load(i) \/ LoadFails(i)
           \/ Construct(i) \/ ConstructFails(i)
           \/ Connect(i) \/ ConnectFails(i) \/ Register(i) \/ Listen(i)

Next == \/ \E i \in Instances : \/ Start(i) \/ Boot(i) \/ RegisterFails(i) \/ Sigterm(i)
                                \/ \E e \in Environments : Redeploy(i, e)
        \/ Outage

Spec == Init /\ [][Next]_vars

\* An instance that can go on does.  Nobody promises that it is started, and
\* nobody that an add fails: it may wait for ever.
Fairness == \A i \in Instances : WF_vars(Boot(i))

FairSpec == Spec /\ Fairness

-----------------------------------------------------------------------------
TypeOK ==
  /\ stage \in [Instances -> Stages] /\ env \in [Instances -> Environments]
  /\ hooks \in [Instances -> SUBSET Hooks]
  /\ dbUp \in BOOLEAN /\ redisUp \in BOOLEAN
  /\ migrated \in BOOLEAN /\ registered \in BOOLEAN

\* What the instance uses when it listens in production meets the production
\* rules: the environment is read twice, and the two readings agree on them.
HardenedInProduction ==
  \A i \in Instances : LET c == Configuration(env[i]) IN
    stage[i] = "listening" /\ c.nodeEnv = "production" =>
      /\ c.secret = "long" /\ c.region = "set"
      /\ c.origins = {"url"} /\ c.logLevel \in {"error", "warn", "info"}

\* Who listens is complete: schema, database and the nightly clean-up are
\* there, whatever was down while the instance started.
ListensComplete ==
  \A i \in Instances : stage[i] = "listening" =>
    migrated /\ registered /\ hooks[i] = Hooks

\* Once database and Redis stay up and SIGTERMs cease, an instance with a sound
\* environment that somebody starts whenever it has failed comes up and stays up:
\* its boot (the entrypoint, bootstrap()) neither hangs nor fails over and over.
ComesUp ==
  \A i \in Instances :
    /\ <>[](dbUp /\ redisUp /\ Sound(env[i]))
    /\ <>[](stage[i] # "stopped")
    /\ []<>(stage[i] # "failed")
    => <>[](stage[i] = "listening")

\* config.validation.ts: AUDIT_RETENTION_DAYS is at least 1, or the service
\* does not start.
RetentionAsValidated ==
  \A i \in Instances : stage[i] = "listening" =>
    LET days == Configuration(env[i]).retentionDays IN days # NaN /\ days >= 1
=============================================================================
