-------------------------- MODULE TokenRevocation --------------------------
(***************************************************************************)
(* Revoked tokens: TokenRevocationService.revoke and isRevoked on every    *)
(* instance, the keys they share in Redis, and GatewayAuthGuard, which     *)
(* awaits isRevoked before it lets a request pass.  Redis forgets a key    *)
(* after its time to live; a command that got no reply is sent again when  *)
(* the connection is back, or is rejected, and a rejected check passes.    *)
(***************************************************************************)
EXTENDS Naturals

CONSTANTS Tokens,     \* tokens with an id (jti)
          Revokes,    \* calls of revoke
          Requests,   \* calls of the guard
          Instances,  \* running instances of the service
          MaxLife,    \* longest lifetime of a token, in ticks
          None

ASSUME LifeAssumption == MaxLife \in Nat
\* What a request carries besides a token with an id: the handler is public
\* and nothing is read; no credential; an undecodable one; a payload that is
\* no JwtPayload; a payload without jti.
NoToken == {"unread", "missing", "malformed", "wrongShape", "plain"}
ASSUME NamesAssumption == Tokens \cap NoToken = {} /\ None \notin Tokens \cup NoToken

VARIABLES federation,  \* app.federationEnabled, read when an instance starts
          life,        \* token -> ticks until it expires
          ttl,         \* token -> ticks until its revoked-jti key expires, 0 for no key
          link,        \* instance -> its connection to Redis is up
          revoking,    \* revoke call -> where it is, or how it ended
          order,       \* revoke call -> [token, seconds, at]: its arguments and instance
          phase,       \* request -> where its guard is, or what it decided
          request,     \* request -> [carries, at, late]: what it carries, its instance, and
                       \*   whether a revoke of its token had resolved when it came
          open         \* request -> its check was rejected

redis == <<life, ttl>>
calls == <<revoking, order>>
guards == <<phase, request, open>>
vars == <<federation, redis, link, calls, guards>>

RevokeOutcomes == {"resolved", "rejected", "dropped"}
GuardOutcomes == {"passed", "unauthorized", "dropped"}
Checking == {"checking", "present", "absent"}

Init ==
  /\ federation \in BOOLEAN
  /\ life \in [Tokens -> 0 .. MaxLife] /\ ttl = [t \in Tokens |-> 0]
  /\ link = [i \in Instances |-> TRUE]
  /\ revoking = [v \in Revokes |-> "idle"] /\ order = [v \in Revokes |-> None]
  /\ phase = [r \in Requests |-> "idle"] /\ request = [r \in Requests |-> None]
  /\ open = [r \in Requests |-> FALSE]

-----------------------------------------------------------------------------
\* Mutant: the SET is not awaited.
RevokeUnawaited(v, i, t) ==
  /\ revoking[v] = "idle"
  /\ revoking' = [revoking EXCEPT ![v] = "resolved"]
  /\ order' = [order EXCEPT ![v] = [token |-> t, seconds |-> life[t], at |-> i]]
  /\ UNCHANGED <<federation, redis, link, guards>>

\* revoke(jti, ttlSeconds) with the token's remaining lifetime: SET ... EX is sent.
Revoke(v, i, t) ==
  /\ revoking[v] = "idle"
  /\ revoking' = [revoking EXCEPT ![v] = "sent"]
  /\ order' = [order EXCEPT ![v] = [token |-> t, seconds |-> life[t], at |-> i]]
  /\ UNCHANGED <<federation, redis, link, guards>>

\* Mutant: the lifetime is rounded down to the tick before.
SetShort(v) ==
  /\ revoking[v] = "sent" /\ link[order[v].at] /\ order[v].seconds > 0
  /\ ttl' = [ttl EXCEPT ![order[v].token] = order[v].seconds - 1]
  /\ revoking' = [revoking EXCEPT ![v] = "set"]
  /\ UNCHANGED <<federation, life, link, order, guards>>

\* Redis executes the SET: whatever time to live the key had is replaced.
Set(v) ==
  /\ revoking[v] = "sent" /\ link[order[v].at] /\ order[v].seconds > 0
  /\ ttl' = [ttl EXCEPT ![order[v].token] = order[v].seconds]
  /\ revoking' = [revoking EXCEPT ![v] = "set"]
  /\ UNCHANGED <<federation, life, link, order, guards>>

RevokeEnds(v, outcome) ==
  /\ revoking' = [revoking EXCEPT ![v] = outcome]
  /\ UNCHANGED <<federation, redis, link, order, guards>>

\* Redis refuses an expire time of 0: revoke() rejects.
SetRefused(v) ==
  /\ revoking[v] = "sent" /\ link[order[v].at] /\ order[v].seconds = 0
  /\ RevokeEnds(v, "rejected")

\* The reply arrives: revoke() resolves.
SetReplied(v) == revoking[v] = "set" /\ link[order[v].at] /\ RevokeEnds(v, "resolved")

\* Mutant: revoke() catches what Redis reports, as isRevoked() does.
SetFailureSwallowed(v) == revoking[v] = "sent" /\ RevokeEnds(v, "resolved")

\* Redis replies with an error, or ioredis gave up on the command: revoke()
\* rejects, though the SET may have been executed before.
SetRejected(v) == revoking[v] = "sent" /\ RevokeEnds(v, "rejected")

-----------------------------------------------------------------------------
\* What canActivate decides without asking Redis, "checking" if it has to ask.
ValidateGatewayContext(c) ==
  IF c \in Tokens THEN "checking" ELSE IF c = "plain" THEN "passed" ELSE "unauthorized"

\* jwtService.verify accepts any payload that is signed and has not expired.
ValidateBearerToken(c) ==
  IF c \in {"plain", "wrongShape"} \/ (c \in Tokens /\ life[c] > 0)
  THEN "passed" ELSE "unauthorized"

CanActivate(c) == IF c = "unread" THEN "passed"
                  ELSE IF federation THEN ValidateGatewayContext(c) ELSE ValidateBearerToken(c)

IsResolved(t) == \E v \in Revokes : revoking[v] = "resolved" /\ order[v].token = t

\* A request reaches the guard, which runs up to its first await.
Arrive(r, i, c) ==
  /\ phase[r] = "idle"
  /\ phase' = [phase EXCEPT ![r] = CanActivate(c)]
  /\ request' = [request EXCEPT ![r] = [carries |-> c, at |-> i, late |-> IsResolved(c)]]
  /\ UNCHANGED <<federation, redis, link, calls, open>>

Instance(r) == request[r].at
Decide(r, outcome) ==
  /\ phase' = [phase EXCEPT ![r] = outcome]
  /\ UNCHANGED <<federation, redis, link, calls, request>>

\* isRevoked: Redis executes EXISTS, and may send an answer that is out of date.
Exists(r) ==
  /\ phase[r] = "checking" /\ link[Instance(r)]
  /\ Decide(r, IF ttl[request[r].carries] > 0 THEN "present" ELSE "absent")
  /\ UNCHANGED open

\* The answer arrives.
Answered(r) ==
  /\ phase[r] \in {"present", "absent"} /\ link[Instance(r)]
  /\ Decide(r, IF phase[r] = "present" THEN "unauthorized" ELSE "passed")
  /\ UNCHANGED open

\* Mutant: a failed check counts as revoked.
CheckFailsClosed(r) ==
  /\ phase[r] = "checking"
  /\ Decide(r, "unauthorized") /\ open' = [open EXCEPT ![r] = TRUE]

\* Mutant: isRevoked() has no catch block, the guard rejects with what Redis reported.
CheckRethrown(r) ==
  /\ phase[r] = "checking"
  /\ Decide(r, "rejected") /\ open' = [open EXCEPT ![r] = TRUE]

\* Mutant: the connection retries for ever (maxRetriesPerRequest: null).
CheckNeverRejected(r) == FALSE

\* Redis replies with an error, or ioredis gave up on the command: isRevoked()
\* warns and answers false.
CheckRejected(r) ==
  /\ phase[r] = "checking"
  /\ Decide(r, "passed") /\ open' = [open EXCEPT ![r] = TRUE]

-----------------------------------------------------------------------------
\* An instance loses Redis: what had no reply will be sent again, whether
\* Redis has executed it or not.
LoseRedis(i) ==
  /\ link[i] /\ link' = [link EXCEPT ![i] = FALSE]
  /\ revoking' = [v \in Revokes |-> IF revoking[v] = "set" /\ order[v].at = i
                                    THEN "sent" ELSE revoking[v]]
  /\ phase' = [r \in Requests |-> IF phase[r] \in Checking /\ Instance(r) = i
                                  THEN "checking" ELSE phase[r]]
  /\ UNCHANGED <<federation, redis, order, request, open>>

RegainRedis(i) ==
  /\ ~ link[i] /\ link' = [link EXCEPT ![i] = TRUE]
  /\ UNCHANGED <<federation, redis, calls, guards>>

\* The process ends where it is.
Restart(i) ==
  /\ revoking' = [v \in Revokes |-> IF revoking[v] \in {"sent", "set"} /\ order[v].at = i
                                    THEN "dropped" ELSE revoking[v]]
  /\ phase' = [r \in Requests |-> IF phase[r] \in Checking /\ Instance(r) = i
                                  THEN "dropped" ELSE phase[r]]
  /\ UNCHANGED <<federation, redis, link, order, request, open>>

Less(n) == IF n = 0 THEN 0 ELSE n - 1

\* Tokens and keys run out together.
Tick ==
  /\ life' = [t \in Tokens |-> Less(life[t])]
  /\ ttl' = [t \in Tokens |-> Less(ttl[t])]
  /\ UNCHANGED <<federation, link, calls, guards>>

Next ==
  \/ \E v \in Revokes : \/ \E i \in Instances, t \in Tokens : Revoke(v, i, t)
                        \/ Set(v) \/ SetRefused(v) \/ SetReplied(v) \/ SetRejected(v)
  \/ \E r \in Requests : \/ \E i \in Instances, c \in Tokens \cup NoToken : Arrive(r, i, c)
                         \/ Exists(r) \/ Answered(r) \/ CheckRejected(r)
  \/ \E i \in Instances : LoseRedis(i) \/ RegainRedis(i) \/ Restart(i)
  \/ Tick

Spec == Init /\ [][Next]_vars

\* ioredis sends what it holds once it is connected, and while it is not, gives
\* up on a command after its retries.  Nobody counts on an error reply.
GiveUp(r) == phase[r] = "checking" /\ ~ link[Instance(r)] /\ CheckRejected(r)
Fairness ==
  \A r \in Requests : SF_vars(Exists(r)) /\ SF_vars(Answered(r) \/ GiveUp(r))

FairSpec == Spec /\ Fairness

-----------------------------------------------------------------------------
Order == [token : Tokens, seconds : 0 .. MaxLife, at : Instances]
Request == [carries : Tokens \cup NoToken, at : Instances, late : BOOLEAN]

TypeOK ==
  /\ federation \in BOOLEAN
  /\ life \in [Tokens -> 0 .. MaxLife] /\ ttl \in [Tokens -> 0 .. MaxLife]
  /\ link \in [Instances -> BOOLEAN]
  /\ revoking \in [Revokes -> {"idle", "sent", "set"} \cup RevokeOutcomes]
  /\ order \in [Revokes -> Order \cup {None}]
  /\ phase \in [Requests -> {"idle"} \cup Checking \cup GuardOutcomes]
  /\ request \in [Requests -> Request \cup {None}]
  /\ open \in [Requests -> BOOLEAN]

\* Once a revoke has resolved, its key outlives the token, although other
\* revokes of the token, delayed or sent again, replace its time to live.
KeyOutlivesToken ==
  \A t \in Tokens : IsResolved(t) => ttl[t] >= life[t]

\* Behind the gateway, no request that came after a revoke of its token had
\* resolved gets past the guard while the token lives, on whatever instance,
\* unless the guard could not ask Redis.
NoLatePass ==
  \A r \in Requests :
    federation /\ phase[r] = "passed" /\ request[r].late /\ ~ open[r]
      => life[request[r].carries] = 0

\* An outage of Redis keeps no caller out: a token with an id is turned away
\* behind the gateway only after somebody asked to revoke it.
OnlyRevokedTurnedAway ==
  \A r \in Requests :
    federation /\ phase[r] = "unauthorized" /\ request[r].carries \in Tokens
      => \E v \in Revokes : revoking[v] # "idle" /\ order[v].token = request[r].carries

\* The guard decides, whether or not Redis ever comes back.
EveryGuardDecides ==
  \A r \in Requests : phase[r] \in Checking ~> phase[r] \in GuardOutcomes

-----------------------------------------------------------------------------
\* What the rest of the service sees: behind the gateway, a check of a token
\* lasts from the request's arrival to the guard's decision.
Asked(r) == federation /\ phase[r] # "idle" /\ request[r].carries \in Tokens

Verdict(r) ==
  CASE ~ Asked(r) -> "none"
    [] Asked(r) /\ phase[r] \in Checking -> "asked"
    [] Asked(r) /\ phase[r] = "passed" -> IF open[r] THEN "unchecked" ELSE "passed"
    [] Asked(r) /\ phase[r] = "unauthorized" -> "stopped"
    [] OTHER -> "dropped"

Subject(r) == IF Asked(r) THEN [token |-> request[r].carries, late |-> request[r].late] ELSE None

Begun == {t \in Tokens : \E v \in Revokes : revoking[v] # "idle" /\ order[v].token = t}
Resolved == {t \in Tokens : IsResolved(t)}
Expired == {t \in Tokens : life[t] = 0}
Subjects == [r \in Requests |-> Subject(r)]
Verdicts == [r \in Requests |-> Verdict(r)]

Register == INSTANCE RevocationRegister WITH
  Checks <- Requests, begun <- Begun, revoked <- Resolved, expired <- Expired,
  subject <- Subjects, verdict <- Verdicts

\* Keys with a time to live, commands sent again and checks that fail keep the
\* promises of RevocationRegister: every step is one of the register's, or none.
ImplementsRegister == Register!Spec
=============================================================================
