----------------------- MODULE ServiceLifecycleProofs -----------------------
(***************************************************************************)
(* Proofs about ServiceLifecycle, for every number of instances and every  *)
(* set of environments.  An instance keeps what it went through: nothing   *)
(* undoes a migration or the registered job, and its environment changes   *)
(* only while it is down, so what Load and Construct found stays true      *)
(* until it ends.                                                          *)
(***************************************************************************)
EXTENDS ServiceLifecycle, TLAPS

\* How far an instance has come tells what is there and what was checked.
StagesInOrder ==
  \A i \in Instances :
    /\ stage[i] \in {"loading", "constructing", "initialising", "listening"} => migrated
    /\ stage[i] \in {"constructing", "initialising", "listening"} => Issues(env[i]) = {}
    /\ stage[i] \in {"initialising", "listening"} => Constructs(env[i])
    /\ "register" \in hooks[i] => registered
    /\ stage[i] = "listening" => hooks[i] = Hooks

IndInv == TypeOK /\ StagesInOrder

\* Before any instance is started the invariant holds.
LEMMA InitInv == Init => IndInv
BY DEF Init, IndInv, TypeOK, StagesInOrder, Stages, Down, Hooks

\* The steps of one instance keep the invariant: a stage is entered when what
\* it promises is there.
LEMMA InstanceStep ==
  ASSUME IndInv, NEW i \in Instances,
         Start(i) \/ Boot(i) \/ RegisterFails(i) \/ Sigterm(i)
  PROVE  IndInv'
<1> USE DEF IndInv, TypeOK, StagesInOrder, Stages, Down, Hooks, world
<1>1. CASE Start(i)
  BY <1>1 DEF Start, Enter
<1>2. CASE Migrate(i)
  BY <1>2 DEF Migrate, Enter
<1>3. CASE MigrateFails(i) \/ LoadFails(i) \/ ConstructFails(i) \/ ConnectFails(i) \/ Sigterm(i)
  BY <1>3 DEF MigrateFails, LoadFails, ConstructFails, ConnectFails, Sigterm, Fail, Exit
<1>4. CASE Load(i) \/ Construct(i)
  BY <1>4 DEF Load, Construct, Enter
<1>5. CASE Connect(i)
  BY <1>5 DEF Connect, Hook
<1>6. CASE Register(i)
  BY <1>6 DEF Register, Hook
<1>7. CASE RegisterFails(i)
  <2>1. TypeOK'
    BY <1>7 DEF RegisterFails, Exit
  <2>2. /\ stage' = [stage EXCEPT ![i] = "failed"] /\ hooks' = [hooks EXCEPT ![i] = {}]
        /\ UNCHANGED <<env, migrated>>
    BY <1>7 DEF RegisterFails, Exit
  <2>3. registered => registered'
    BY <1>7 DEF RegisterFails
  <2>4. StagesInOrder'
    BY <2>2, <2>3
  <2> QED BY <2>1, <2>4
<1>8. CASE Listen(i)
  BY <1>8 DEF Listen, Enter
<1> QED BY <1>1, <1>2, <1>3, <1>4, <1>5, <1>6, <1>7, <1>8 DEF Boot

\* Every step keeps the invariant.
LEMMA NextInv == IndInv /\ [Next]_vars => IndInv'
<1> SUFFICES ASSUME IndInv, [Next]_vars PROVE IndInv'
  OBVIOUS
<1>1. CASE \E i \in Instances : Start(i) \/ Boot(i) \/ RegisterFails(i) \/ Sigterm(i)
  BY <1>1, InstanceStep
<1>2. CASE \E i \in Instances, e \in Environments : Redeploy(i, e)
  BY <1>2 DEF IndInv, TypeOK, StagesInOrder, Stages, Down, Hooks, Redeploy, world
<1>3. CASE Outage
  BY <1>3 DEF IndInv, TypeOK, StagesInOrder, Outage
<1>4. CASE UNCHANGED vars
  BY <1>4 DEF IndInv, TypeOK, StagesInOrder, vars, world
<1> QED BY <1>1, <1>2, <1>3, <1>4 DEF Next

\* The invariant holds for ever.
LEMMA Invariance == Spec => []IndInv
BY InitInv, NextInv, PTL DEF Spec

-----------------------------------------------------------------------------
\* What validateConfig lets through in production meets the production rules
\* when configuration() reads it: the defaults of the one cannot slip a value
\* past the other.
LEMMA ValidatedIsHardened ==
  ASSUME NEW e \in Environment, Issues(e) = {}, Configuration(e).nodeEnv = "production"
  PROVE  /\ Configuration(e).secret = "long" /\ Configuration(e).region = "set"
         /\ Configuration(e).origins = {"url"}
         /\ Configuration(e).logLevel \in {"error", "warn", "info"}
<1>1. SchemaIssues(e) = {} /\ ProductionIssues(e) = {}
  BY DEF Issues, Configuration
<1>2. e.logLevel # "other"
  BY <1>1 DEF SchemaIssues
<1>3. /\ e.secret = "long" /\ e.region # "unset"
      /\ e.origins # {} /\ "junk" \notin e.origins
      /\ e.logLevel \notin {"debug", "verbose"}
  BY <1>1 DEF ProductionIssues
<1>4. e.region = "set" /\ e.origins = {"url"}
  BY <1>3 DEF Environment, Origins
<1>5. e.logLevel \in {"unset", "error", "warn", "info"}
  BY <1>2, <1>3 DEF Environment, Levels
<1>6. LogLevel(e) \in {"error", "warn", "info"}
  BY <1>5 DEF LogLevel, Configuration
<1> QED BY <1>3, <1>4, <1>6 DEF Configuration

\* Type correctness: every variable keeps its type.
THEOREM Typing == Spec => []TypeOK
BY Invariance, PTL DEF IndInv

\* What an instance uses when it listens in production meets the production
\* rules, whatever it was deployed with before.
THEOREM ListensHardened == Spec => []HardenedInProduction
<1>1. IndInv => HardenedInProduction
  <2> SUFFICES ASSUME IndInv, NEW i \in Instances, stage[i] = "listening",
                      Configuration(env[i]).nodeEnv = "production"
               PROVE  /\ Configuration(env[i]).secret = "long"
                      /\ Configuration(env[i]).region = "set"
                      /\ Configuration(env[i]).origins = {"url"}
                      /\ Configuration(env[i]).logLevel \in {"error", "warn", "info"}
    BY DEF HardenedInProduction
  <2>1. env[i] \in Environment /\ Issues(env[i]) = {}
    BY EnvironmentsAssumption DEF IndInv, TypeOK, StagesInOrder
  <2> QED BY <2>1, ValidatedIsHardened
<1> QED BY <1>1, Invariance, PTL

\* An instance that listens has its schema, its database and the clean-up job.
THEOREM ListeningIsComplete == Spec => []ListensComplete
<1>1. IndInv => ListensComplete
  BY DEF IndInv, StagesInOrder, ListensComplete, Hooks
<1> QED BY <1>1, Invariance, PTL

-----------------------------------------------------------------------------
(* Why an instance comes up: the safety half of ComesUp.                   *)

\* The steps between an instance and the requests it will listen for.
StepsToListen(i) ==
  CASE stage[i] \in Down -> 7
    [] stage[i] = "migrating" -> 6
    [] stage[i] = "loading" -> 5
    [] stage[i] = "constructing" -> 4
    [] stage[i] = "initialising" -> 1 + (IF "connect" \in hooks[i] THEN 0 ELSE 1)
                                      + (IF "register" \in hooks[i] THEN 0 ELSE 1)
    [] OTHER -> 0

\* With database and Redis up and a sound environment, an instance that is not
\* stopped by a SIGTERM only comes closer to listening; above all, it does not
\* fail.  (A SIGTERM ends in "stopped", each of the failures in "failed".)
ComesCloser ==
  \A i \in Instances :
    dbUp /\ redisUp /\ Sound(env[i]) =>
      \/ Sigterm(i)
      \/ UNCHANGED <<stage[i], hooks[i]>>
      \/ StepsToListen(i)' < StepsToListen(i)

\* No step of a boot but those that fail for an outage or an unsound
\* environment leaves an instance where it was.
LEMMA BootIsCloser ==
  ASSUME IndInv, NEW i \in Instances, dbUp, redisUp, Sound(env[i]),
         Start(i) \/ Boot(i) \/ RegisterFails(i)
  PROVE  StepsToListen(i)' < StepsToListen(i)
<1> USE DEF IndInv, TypeOK, StagesInOrder, Stages, Down, Hooks
<1>1. CASE Start(i)
  BY <1>1 DEF Start, Enter, StepsToListen
<1>2. CASE Migrate(i)
  BY <1>2 DEF Migrate, Enter, StepsToListen
<1>3. CASE Load(i)
  BY <1>3 DEF Load, Enter, StepsToListen
<1>4. CASE Construct(i)
  <2>1. stage[i] = "constructing" /\ stage'[i] = "initialising"
    BY <1>4 DEF Construct, Enter
  <2> QED BY <2>1 DEF StepsToListen
<1>5. CASE Connect(i)
  <2>1. /\ stage[i] = "initialising" /\ stage'[i] = "initialising"
        /\ "connect" \notin hooks[i] /\ hooks'[i] = hooks[i] \cup {"connect"}
    BY <1>5 DEF Connect, Hook
  <2> QED BY <2>1 DEF StepsToListen
<1>6. CASE Register(i)
  <2>1. /\ stage[i] = "initialising" /\ stage'[i] = "initialising"
        /\ "register" \notin hooks[i] /\ hooks'[i] = hooks[i] \cup {"register"}
    BY <1>6 DEF Register, Hook
  <2> QED BY <2>1 DEF StepsToListen
<1>7. CASE Listen(i)
  <2>1. stage[i] = "initialising" /\ stage'[i] = "listening"
    BY <1>7 DEF Listen, Enter
  <2> QED BY <2>1 DEF StepsToListen
<1>8. ~ (MigrateFails(i) \/ LoadFails(i) \/ ConstructFails(i) \/ ConnectFails(i) \/ RegisterFails(i))
  BY DEF MigrateFails, LoadFails, ConstructFails, ConnectFails, RegisterFails, Sound
<1> QED BY <1>1, <1>2, <1>3, <1>4, <1>5, <1>6, <1>7, <1>8 DEF Boot

\* Every step brings each sound instance closer, leaves it alone, or stops it.
LEMMA NextIsCloser == IndInv /\ [Next]_vars => ComesCloser
<1> SUFFICES ASSUME IndInv, [Next]_vars, NEW i \in Instances,
                    dbUp, redisUp, Sound(env[i])
             PROVE  \/ Sigterm(i)
                    \/ UNCHANGED <<stage[i], hooks[i]>>
                    \/ StepsToListen(i)' < StepsToListen(i)
  BY DEF ComesCloser
<1>1. CASE Start(i) \/ Boot(i) \/ RegisterFails(i)
  BY <1>1, BootIsCloser
<1>2. ASSUME NEW k \in Instances \ {i},
             Start(k) \/ Boot(k) \/ RegisterFails(k) \/ Sigterm(k)
      PROVE  UNCHANGED <<stage[i], hooks[i]>>
  BY <1>2 DEF IndInv, TypeOK, Boot, Start, Migrate, MigrateFails, Load, LoadFails, Construct,
     ConstructFails, Connect, ConnectFails, Register, RegisterFails, Listen, Sigterm, Enter,
     Fail, Exit, Hook
<1>3. ASSUME (\E k \in Instances, e \in Environments : Redeploy(k, e)) \/ Outage \/ UNCHANGED vars
      PROVE  UNCHANGED <<stage[i], hooks[i]>>
  BY <1>3 DEF Redeploy, Outage, vars
<1> QED BY <1>1, <1>2, <1>3 DEF Next

\* With everything it needs within reach, every step of the boot (the entrypoint,
\* bootstrap()) brings an instance closer to listening, none fails, and only a
\* SIGTERM takes it back: a deploy cannot loop on its own.
THEOREM BootsAdvance == Spec => [][ComesCloser]_vars
BY NextIsCloser, Invariance, PTL DEF Spec
=============================================================================
