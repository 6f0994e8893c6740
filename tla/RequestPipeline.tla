-------------------------- MODULE RequestPipeline --------------------------
(***************************************************************************)
(* What a call passes on its way to its handler: the limits on the GraphQL *)
(* document, GatewayAuthGuard, GqlThrottlerGuard, PermissionsGuard and the *)
(* ValidationPipe, in this order, and how it is answered.  A call is one   *)
(* root field of a document, or a request to an HTTP controller.  Every    *)
(* process counts the calls of a handler and a client address in memory;   *)
(* a restarted process is a new one.  Revoked tokens are those of          *)
(* RevocationRegister, which TokenRevocation implements.                   *)
(***************************************************************************)
EXTENDS Naturals, FiniteSets

CONSTANTS Calls, Processes,
          Deployments,    \* the settings the fleet may run with, a subset of Deployment
          Requests,       \* call -> what its caller may send, a subset of Request
          Clients,        \* addresses (req.ip): behind the gateway, the gateway's
          Tokens,         \* tokens with an id (jti)
          Window,         \* ticks a call counts, and a block lasts (60 s in the code)
          DefaultLimit,   \* calls of a handler within the window (100)
          CreateLimit,    \* the same for createPerson (10)
          MaxDepth,       \* of a document (10)
          MaxComplexity,  \* of a document (100)
          None

Handlers == {"getAll", "getOne", "createPerson", "getAuditLogs", "health"}
\* A payload without jti, one that is no JwtPayload, an undecodable one, none.
NoToken == {"plain", "wrongShape", "malformed", "missing"}
Request == [handler : Handlers, client : Clients, carries : Tokens \cup NoToken,
            grants : SUBSET {"audit:read"}, arguments : {"none", "sound", "unsound"},
            depth : Nat, complexity : Nat, introspects : BOOLEAN]

ASSUME LimitsAssumption ==
  Window \in Nat \ {0} /\ DefaultLimit \in Nat \ {0} /\ CreateLimit \in Nat \ {0}
Deployment == [federation : BOOLEAN, environment : {"development", "test", "production"}]

ASSUME CallsAssumption ==
  IsFiniteSet(Calls) /\ Deployments \subseteq Deployment /\ Requests \in [Calls -> SUBSET Request]
ASSUME NamesAssumption ==
  Tokens \cap NoToken = {} /\ None \notin Request /\ None \notin Processes

VARIABLES settings,     \* app.federationEnabled and NODE_ENV
          process,      \* process -> "new", "up" or "ended"
          stage,        \* call -> where it is, or the status it was answered with
          request,      \* call -> what the caller sent
          home,         \* call -> the process it runs in
          hits,         \* calls the throttler counts, in the memory of their processes
          age,          \* call -> ticks since the throttler let it in, Old if it is long
                        \*   ago or never
          block,        \* process, key -> ticks the key stays blocked
          begun, revoked, expired, subject, verdict  \* RevocationRegister

calls == <<stage, request, home>>
throttler == <<hits, age, block>>
tokens == <<begun, revoked, expired, subject, verdict>>
vars == <<settings, process, calls, throttler, tokens>>

Register == INSTANCE RevocationRegister WITH Checks <- Calls

Keys == Handlers \X Clients

\* A call this old neither counts nor has to do with a block.
Old == 2 * Window - 1

Init ==
  /\ settings \in Deployments
  /\ process = [p \in Processes |-> "new"]
  /\ stage = [c \in Calls |-> "idle"]
  /\ request = [c \in Calls |-> None] /\ home = [c \in Calls |-> None]
  /\ hits = {} /\ age = [c \in Calls |-> Old]
  /\ block = [p \in Processes |-> [k \in Keys |-> 0]]
  /\ Register!Init

-----------------------------------------------------------------------------
HttpStatus == [BadRequest |-> "400", Unauthorized |-> "401", Forbidden |-> "403",
               NotFound |-> "404", TooManyRequests |-> "429", ServiceUnavailable |-> "503"]

\* formatError and GlobalExceptionFilter: an HttpException keeps its status,
\* whatever else is thrown is a server error.
Status(error) == IF error \in DOMAIN HttpStatus THEN HttpStatus[error] ELSE "500"

\* The rules on a document, before any guard: depth, complexity unless it
\* introspects, and no introspection in production.
DocumentRuns(q) ==
  /\ q.depth <= MaxDepth
  /\ q.introspects \/ q.complexity <= MaxComplexity
  /\ ~ (q.introspects /\ settings.environment = "production")

IsPublic(handler) == handler = "getAll"

\* Mutant: the check of a token's revocation is not awaited, a promise is true.
LetsPassUnawaited(q) ==
  IF settings.federation THEN q.carries \in Tokens \cup {"plain"}
  ELSE q.carries \in {"plain", "wrongShape"} \cup (Tokens \ expired)

\* What GatewayAuthGuard takes without asking: behind the gateway a payload
\* without jti, else whatever payload is signed and has not expired.
LetsPass(q) ==
  IF settings.federation THEN q.carries = "plain"
  ELSE q.carries \in {"plain", "wrongShape"} \cup (Tokens \ expired)

\* GatewayAuthGuard up to its first await.  On an HTTP controller it looks for
\* the request of a GraphQL context, and fails.
CanActivate(q) ==
  IF q.handler = "health" THEN Status("TypeError")
  ELSE IF IsPublic(q.handler) \/ LetsPass(q) THEN "entering"
  ELSE IF settings.federation /\ q.carries \in Tokens THEN "checking"
  ELSE Status("Unauthorized")

\* A call comes to a process.
Arrive(c, q, p) ==
  /\ stage[c] = "idle" /\ process[p] = "up"
  /\ stage' = [stage EXCEPT ![c] = IF DocumentRuns(q) THEN CanActivate(q)
                                   ELSE Status("GraphQLError")]
  /\ request' = [request EXCEPT ![c] = q]
  /\ home' = [home EXCEPT ![c] = p]
  /\ IF stage'[c] = "checking" THEN Register!Ask(c, q.carries) ELSE UNCHANGED tokens
  /\ UNCHANGED <<settings, process, throttler>>

Move(c, s) ==
  /\ stage' = [stage EXCEPT ![c] = s]
  /\ UNCHANGED <<settings, process, request, home>>

\* isRevoked has answered, or could not ask.
Checked(c) ==
  /\ stage[c] = "checking"
  /\ \/ (Register!Pass(c) \/ Register!PassUnchecked(c)) /\ Move(c, "entering")
     \/ Register!Stop(c) /\ Move(c, Status("Unauthorized"))
  /\ UNCHANGED throttler

-----------------------------------------------------------------------------
\* Mutant: calls are counted by handler alone.
KeyWithoutClient(q) == <<q.handler, CHOOSE a \in Clients : TRUE>>

\* What calls are counted by.
Key(q) == <<q.handler, q.client>>

Limit(key) == IF key[1] = "createPerson" THEN CreateLimit ELSE DefaultLimit

Counted(p, key) == {c \in hits : home[c] = p /\ Key(request[c]) = key}

\* GqlThrottlerGuard: blocked already, or the limit is reached (never in a test).
Exceeded(c) ==
  LET key == Key(request[c])
  IN /\ settings.environment # "test"
     /\ \/ block[home[c]][key] > 0
        \/ Cardinality(Counted(home[c], key)) >= Limit(key)

\* PermissionsGuard: the user must be a JwtPayload with every permission asked for.
RequiredPermissions(handler) == IF handler = "getAuditLogs" THEN {"audit:read"} ELSE {}
HasAllPermissions(q) ==
  RequiredPermissions(q.handler) # {} =>
    q.carries \in Tokens \cup {"plain"} /\ RequiredPermissions(q.handler) \subseteq q.grants

\* No field of AuditLogFilterInput carries a rule.
HasRules(handler) == handler # "getAuditLogs"

\* ValidationPipe rejects arguments that break a rule, and those without one.
Transforms(q) == q.arguments = "none" \/ (q.arguments = "sound" /\ HasRules(q.handler))

\* The throttler refuses: the key is blocked for a window, which is not renewed.
Refuse(c) ==
  /\ stage[c] = "entering" /\ Exceeded(c)
  /\ LET key == Key(request[c])
     IN block' = [block EXCEPT ![home[c]][key] = IF @ > 0 THEN @ ELSE Window]
  /\ Move(c, Status("TooManyRequests"))
  /\ UNCHANGED <<hits, age, tokens>>

\* Mutant: a call is counted when it is answered.
AdmitUncounted(c) ==
  /\ stage[c] = "entering" /\ ~ Exceeded(c)
  /\ age' = [age EXCEPT ![c] = IF settings.environment = "test" THEN @ ELSE 0]
  /\ Move(c, "handling")
  /\ UNCHANGED <<hits, block, tokens>>

\* The throttler counts the call, whatever the guard and the pipe behind it say.
Admit(c) ==
  /\ stage[c] = "entering" /\ ~ Exceeded(c)
  /\ hits' = IF settings.environment = "test" THEN hits ELSE hits \cup {c}
  /\ age' = [age EXCEPT ![c] = IF settings.environment = "test" THEN @ ELSE 0]
  /\ Move(c, IF ~ HasAllPermissions(request[c]) THEN Status("Forbidden")
             ELSE IF ~ Transforms(request[c]) THEN Status("BadRequest") ELSE "handling")
  /\ UNCHANGED <<block, tokens>>

\* What handlers throw: a cursor that does not decode, a person that does not
\* exist, a check that failed, and what the database or the queue reports.
FindAllThrows == {"BadRequest", "Error"}
FindOneThrows == {"NotFound", "Error"}
CheckThrows == {"ServiceUnavailable"}
Throws(handler) == CASE handler = "getAll" -> FindAllThrows
                     [] handler = "getOne" -> FindOneThrows
                     [] handler = "health" -> CheckThrows
                     [] OTHER -> {"Error"}

\* The handler returns or throws.
Finish(c) ==
  /\ stage[c] = "handling"
  /\ \E s \in {"200"} \cup {Status(e) : e \in Throws(request[c].handler)} : Move(c, s)
  /\ UNCHANGED <<throttler, tokens>>

-----------------------------------------------------------------------------
\* Mutant: a countdown runs below zero.
LessUnchecked(n) == n - 1

Less(n) == IF n = 0 THEN 0 ELSE n - 1

Older(n) == IF n = Old THEN n ELSE n + 1

\* Time passes: the throttler forgets calls and blocks.  That it does so one by
\* one is the library's part, forRoot only gives it the window.
Tick ==
  /\ age' = [c \in Calls |-> Older(age[c])]
  /\ hits' = {c \in hits : Older(age[c]) < Window}
  /\ block' = [p \in Processes |-> [k \in Keys |-> Less(block[p][k])]]
  /\ UNCHANGED <<settings, process, calls, tokens>>

Start(p) ==
  /\ process[p] = "new" /\ process' = [process EXCEPT ![p] = "up"]
  /\ UNCHANGED <<settings, calls, throttler, tokens>>

InProgress == {"checking", "entering", "handling"}

\* A process ends: its calls are not answered, its counts are gone.
Stop(p) ==
  /\ process[p] = "up" /\ process' = [process EXCEPT ![p] = "ended"]
  /\ stage' = [c \in Calls |-> IF home[c] = p /\ stage[c] \in InProgress
                               THEN "dropped" ELSE stage[c]]
  /\ hits' = {c \in hits : home[c] # p}
  /\ block' = [block EXCEPT ![p] = [k \in Keys |-> 0]]
  /\ Register!Drop({c \in Calls : home[c] = p /\ stage[c] = "checking"})
  /\ UNCHANGED <<settings, request, home, age>>

\* Tokens are revoked, and run out.
Revocation(t) ==
  /\ Register!Begin(t) \/ Register!Acknowledge(t) \/ Register!Expire({t})
  /\ UNCHANGED <<settings, process, calls, throttler>>

Next ==
  \/ \E c \in Calls :
       \/ \E q \in Requests[c], p \in Processes : Arrive(c, q, p)
       \/ Checked(c) \/ Refuse(c) \/ Admit(c) \/ Finish(c)
  \/ Tick
  \/ \E p \in Processes : Start(p) \/ Stop(p)
  \/ \E t \in Tokens : Revocation(t)

Spec == Init /\ [][Next]_vars

-----------------------------------------------------------------------------
Statuses == {"200", "400", "401", "403", "404", "429", "500", "503"}

TypeOK ==
  /\ settings \in Deployment
  /\ process \in [Processes -> {"new", "up", "ended"}]
  /\ stage \in [Calls -> {"idle", "dropped"} \cup InProgress \cup Statuses]
  /\ request \in [Calls -> Request \cup {None}]
  /\ home \in [Calls -> Processes \cup {None}]
  /\ hits \subseteq Calls /\ age \in [Calls -> 0 .. Old]
  /\ block \in [Processes -> [Keys -> 0 .. Window]]
  /\ begun \subseteq Tokens /\ revoked \subseteq Tokens /\ expired \subseteq Tokens
  /\ subject \in [Calls -> [token : Tokens, late : BOOLEAN] \cup {None}]
  /\ verdict \in [Calls -> {"none", "asked", "passed", "unchecked", "stopped", "dropped"}]

\* The calls of a handler and client let in within the last n ticks.
LetIn(handler, client, n) ==
  {c \in Calls : /\ request[c] # None /\ age[c] < n
                 /\ request[c].handler = handler /\ request[c].client = client}

\* The limit holds for each process a client's calls came to, and for no more
\* than that: over any window, a fleet lets in at most the limit for every
\* process that took part, the ones that ended included (app.module.ts:195).
FleetLimit ==
  \A h \in Handlers, a \in Clients :
    LET recent == LetIn(h, a, Window)
    IN Cardinality(recent) <= Limit(<<h, a>>) * Cardinality({home[c] : c \in recent})

\* Nobody is refused for what others do, nor for having been refused: behind a
\* 429 stand as many calls of the same handler and client as the limit allows,
\* all let in by the same process, less than two windows ago.
RefusedHadReason ==
  [][\A c \in Calls : stage'[c] = "429" /\ stage[c] # "429" =>
       LET h == request[c].handler
           a == request[c].client
       IN Cardinality({d \in LetIn(h, a, Old) : home[d] = home[c]})
            >= Limit(<<h, a>>)]_vars

\* A handler runs only for who passed the whole chain: in production a document
\* within both limits; behind the gateway a handler that is not public never for
\* a token whose revoke was acknowledged before the call, unless it has expired
\* or could not be checked; the audit log only for a JwtPayload with audit:read.
HandledWasAllowed ==
  \A c \in Calls : stage[c] = "handling" =>
    LET q == request[c]
    IN /\ settings.environment = "production" => q.depth <= MaxDepth /\ q.complexity <= MaxComplexity
       /\ settings.federation /\ ~ IsPublic(q.handler) =>
            /\ q.carries \in Tokens \cup {"plain"}
            /\ q.carries \in Tokens =>
                 \/ verdict[c] = "unchecked"
                 \/ verdict[c] = "passed" /\ (subject[c].late => q.carries \in expired)
       /\ q.handler = "getAuditLogs" =>
            q.carries \in Tokens \cup {"plain"} /\ "audit:read" \in q.grants

\* "GET /health performs the following checks" (README.md): it is answered by
\* its checks, with 200 or 503.
HealthIsChecked ==
  \A c \in Calls : stage[c] \in Statuses /\ request[c].handler = "health"
                     => stage[c] \in {"200", "503"}
=============================================================================
