----------------------- MODULE TokenRevocationProofs -----------------------
(***************************************************************************)
(* Proofs about TokenRevocation, for every number of tokens, instances,    *)
(* revokes and requests.  A late request cannot pass because the key is    *)
(* there when its check is executed, and the key is there because every    *)
(* revoke on its way carries a time to live its token cannot exceed, so    *)
(* that replacing one time to live by another never shortens it too far.   *)
(***************************************************************************)
EXTENDS TokenRevocation, TLAPS

\* Arguments of a revoke stay valid while it is under way.
RevokesOutliveTokens ==
  \A v \in Revokes :
    /\ revoking[v] # "idle" => order[v] \in Order
    /\ revoking[v] # "idle" => order[v].seconds >= life[order[v].token]
    /\ revoking[v] \in {"set", "resolved"} => ttl[order[v].token] >= life[order[v].token]

KeysWereAsked ==
  \A t \in Tokens : ttl[t] > 0 => \E v \in Revokes : revoking[v] # "idle" /\ order[v].token = t

\* What a guard knows: a late request's token has been revoked, only tokens
\* are asked about, and an answer was true when Redis gave it.
GuardsKnow ==
  \A r \in Requests :
    /\ phase[r] # "idle" => request[r] \in Request
    /\ phase[r] # "idle" /\ request[r].late => IsResolved(request[r].carries)
    /\ phase[r] \in Checking => request[r].carries \in Tokens
    /\ phase[r] = "absent" /\ request[r].late => life[request[r].carries] = 0
    /\ phase[r] = "present" =>
         \E v \in Revokes : revoking[v] # "idle" /\ order[v].token = request[r].carries

IndInv == /\ TypeOK /\ RevokesOutliveTokens /\ KeysWereAsked /\ GuardsKnow
          /\ NoLatePass /\ OnlyRevokedTurnedAway

\* Before any call the invariant holds.
LEMMA InitInv == Init => IndInv
<1> SUFFICES ASSUME Init PROVE IndInv
  OBVIOUS
<1>1. TypeOK
  BY LifeAssumption DEF Init, TypeOK
<1>2. RevokesOutliveTokens /\ KeysWereAsked /\ GuardsKnow
  BY DEF Init, RevokesOutliveTokens, KeysWereAsked, GuardsKnow, Checking
<1>3. NoLatePass /\ OnlyRevokedTurnedAway
  BY DEF Init, NoLatePass, OnlyRevokedTurnedAway
<1> QED BY <1>1, <1>2, <1>3 DEF IndInv

\* Only tokens are revoked.
LEMMA ResolvedAreTokens ==
  ASSUME IndInv, NEW c, IsResolved(c)
  PROVE  c \in Tokens
BY DEF IndInv, IsResolved, RevokesOutliveTokens, Order

-----------------------------------------------------------------------------
\* Steps of revokes, of the clock and of instances leave guards alone, or put
\* them back to their check, or abandon them.  They keep what guards know
\* when no revoke is forgotten and no token lives longer.
LEMMA GuardsKept ==
  ASSUME IndInv, TypeOK', UNCHANGED <<federation, request, open>>,
         \A r \in Requests : \/ phase'[r] = phase[r]
                             \/ phase[r] \in Checking /\ phase'[r] \in {"checking", "dropped"},
         \A t \in Tokens : life'[t] <= life[t],
         \A v \in Revokes : /\ revoking[v] # "idle" => revoking'[v] # "idle" /\ order'[v] = order[v]
                            /\ revoking[v] = "resolved" => revoking'[v] = "resolved"
  PROVE  GuardsKnow' /\ NoLatePass' /\ OnlyRevokedTurnedAway'
<1> USE DEF IndInv
<1>1. \A t : IsResolved(t) => IsResolved(t)'
  BY DEF IsResolved
<1>2. \A t \in Tokens : life[t] = 0 => life'[t] = 0
  BY DEF TypeOK
<1>3. \A t : (\E v \in Revokes : revoking[v] # "idle" /\ order[v].token = t)
             => \E v \in Revokes : revoking'[v] # "idle" /\ order'[v].token = t
  OBVIOUS
<1>4. \A r \in Requests : phase[r] # "idle" /\ request[r].late => request[r].carries \in Tokens
  BY ResolvedAreTokens DEF GuardsKnow
<1>5. GuardsKnow'
  <2> SUFFICES ASSUME NEW r \in Requests
      PROVE /\ phase'[r] # "idle" => request[r] \in Request
            /\ phase'[r] # "idle" /\ request[r].late => IsResolved(request[r].carries)'
            /\ phase'[r] \in Checking => request[r].carries \in Tokens
            /\ phase'[r] = "absent" /\ request[r].late => life'[request[r].carries] = 0
            /\ phase'[r] = "present" =>
                 \E v \in Revokes : revoking'[v] # "idle" /\ order'[v].token = request[r].carries
    BY DEF GuardsKnow, IsResolved
  <2>1. CASE phase'[r] = phase[r]
    BY <2>1, <1>1, <1>2, <1>3, <1>4 DEF GuardsKnow, Checking
  <2>2. CASE phase[r] \in Checking /\ phase'[r] \in {"checking", "dropped"}
    BY <2>2, <1>1 DEF GuardsKnow, Checking
  <2> QED BY <2>1, <2>2
<1>6. \A r \in Requests : phase'[r] \in {"passed", "unauthorized"} => phase[r] = phase'[r]
  BY DEF Checking
<1>7. NoLatePass'
  BY <1>2, <1>4, <1>6 DEF NoLatePass
<1>8. OnlyRevokedTurnedAway'
  BY <1>3, <1>6 DEF OnlyRevokedTurnedAway
<1> QED BY <1>5, <1>7, <1>8

\* The calls of revoke that leave the keys alone.
LEMMA RevokeInv ==
  ASSUME IndInv, NEW v \in Revokes, NEW i \in Instances, NEW t \in Tokens, Revoke(v, i, t)
  PROVE  IndInv'
<1> USE DEF IndInv, redis, guards
<1> DEFINE o == [token |-> t, seconds |-> life[t], at |-> i]
<1>1. /\ revoking[v] = "idle" /\ revoking' = [revoking EXCEPT ![v] = "sent"]
      /\ order' = [order EXCEPT ![v] = o]
      /\ UNCHANGED <<federation, life, ttl, link, phase, request, open>>
  BY DEF Revoke
<1>2. o \in Order /\ o.seconds = life[o.token] /\ life[o.token] \in Nat
  BY DEF Order, TypeOK
<1>3. TypeOK'
  BY <1>1, <1>2 DEF TypeOK
<1>4. \A u \in Revokes : /\ revoking'[u] = IF u = v THEN "sent" ELSE revoking[u]
                         /\ order'[u] = IF u = v THEN o ELSE order[u]
  BY <1>1 DEF TypeOK
<1>5. RevokesOutliveTokens'
  BY <1>1, <1>2, <1>4 DEF RevokesOutliveTokens
<1>6. KeysWereAsked'
  BY <1>1, <1>4 DEF KeysWereAsked
<1>7. \A u \in Tokens : life'[u] <= life[u]
  BY <1>1 DEF TypeOK
<1>8. GuardsKnow' /\ NoLatePass' /\ OnlyRevokedTurnedAway'
  BY <1>1, <1>3, <1>4, <1>7, GuardsKept
<1> QED BY <1>3, <1>5, <1>6, <1>8

\* The SET replaces a time to live by one that no token exceeds either.
LEMMA SetInv ==
  ASSUME IndInv, NEW v \in Revokes, Set(v)
  PROVE  IndInv'
<1> USE DEF IndInv, guards
<1> DEFINE t == order[v].token
<1>1. /\ revoking[v] = "sent" /\ revoking' = [revoking EXCEPT ![v] = "set"]
      /\ ttl' = [ttl EXCEPT ![t] = order[v].seconds]
      /\ UNCHANGED <<federation, life, link, order, phase, request, open>>
  BY DEF Set
<1>2. t \in Tokens /\ order[v].seconds \in 0 .. MaxLife /\ order[v].seconds >= life[t]
  BY <1>1 DEF RevokesOutliveTokens, Order
<1>3. TypeOK'
  BY <1>1, <1>2 DEF TypeOK
<1>4. /\ \A u \in Revokes : revoking'[u] = IF u = v THEN "set" ELSE revoking[u]
      /\ \A u \in Tokens : ttl'[u] = IF u = t THEN order[v].seconds ELSE ttl[u]
  BY <1>1 DEF TypeOK
<1>5. RevokesOutliveTokens'
  <2> SUFFICES ASSUME NEW u \in Revokes, revoking'[u] # "idle"
      PROVE /\ order[u] \in Order /\ order[u].seconds >= life[order[u].token]
            /\ revoking'[u] \in {"set", "resolved"} => ttl'[order[u].token] >= life[order[u].token]
    BY <1>1 DEF RevokesOutliveTokens
  <2>1. order[u] \in Order /\ order[u].token \in Tokens
        /\ order[u].seconds >= life[order[u].token]
    BY <1>1, <1>4 DEF RevokesOutliveTokens, Order
  <2>2. CASE order[u].token = t
    BY <2>1, <2>2, <1>2, <1>4
  <2>3. CASE order[u].token # t
    BY <2>1, <2>3, <1>4 DEF RevokesOutliveTokens
  <2> QED BY <2>1, <2>2, <2>3
<1>6. KeysWereAsked'
  BY <1>1, <1>4 DEF KeysWereAsked
<1>7. \A u \in Tokens : life'[u] <= life[u]
  BY <1>1 DEF TypeOK
<1>8. GuardsKnow' /\ NoLatePass' /\ OnlyRevokedTurnedAway'
  BY <1>1, <1>3, <1>4, <1>7, GuardsKept
<1> QED BY <1>3, <1>5, <1>6, <1>8

\* Ends of revokes, losses of connections, restarts.
LEMMA InstanceInv ==
  ASSUME IndInv,
         \/ \E v \in Revokes : SetRefused(v) \/ SetReplied(v) \/ SetRejected(v)
         \/ \E i \in Instances : LoseRedis(i) \/ RegainRedis(i) \/ Restart(i)
         \/ UNCHANGED vars
  PROVE  IndInv'
<1> USE DEF IndInv, redis, calls, guards, vars
<1>1. UNCHANGED <<federation, life, ttl, order, request, open>>
  BY DEF SetRefused, SetReplied, SetRejected, RevokeEnds, LoseRedis, RegainRedis, Restart
<1>2. \A u \in Revokes : \/ revoking'[u] = revoking[u]
                         \/ revoking[u] \in {"sent", "set"} /\ revoking'[u] \in {"sent", "rejected", "dropped"}
                         \/ revoking[u] = "set" /\ revoking'[u] = "resolved"
  <2>1. ASSUME NEW v \in Revokes, SetRefused(v) \/ SetReplied(v) \/ SetRejected(v)
        PROVE  \A u \in Revokes :
                 \/ revoking'[u] = revoking[u]
                 \/ revoking[u] \in {"sent", "set"} /\ revoking'[u] \in {"sent", "rejected", "dropped"}
                 \/ revoking[u] = "set" /\ revoking'[u] = "resolved"
    BY <2>1 DEF SetRefused, SetReplied, SetRejected, RevokeEnds, TypeOK
  <2>2. ASSUME NEW i \in Instances, LoseRedis(i) \/ RegainRedis(i) \/ Restart(i)
        PROVE  \A u \in Revokes :
                 \/ revoking'[u] = revoking[u]
                 \/ revoking[u] \in {"sent", "set"} /\ revoking'[u] \in {"sent", "rejected", "dropped"}
    BY <2>2 DEF LoseRedis, RegainRedis, Restart
  <2> QED BY <2>1, <2>2
<1>3. \A r \in Requests : \/ phase'[r] = phase[r]
                          \/ phase[r] \in Checking /\ phase'[r] \in {"checking", "dropped"}
  BY DEF SetRefused, SetReplied, SetRejected, RevokeEnds, LoseRedis, RegainRedis, Restart
<1>4. TypeOK'
  <2>1. link' \in [Instances -> BOOLEAN]
    BY DEF SetRefused, SetReplied, SetRejected, RevokeEnds, LoseRedis, RegainRedis, Restart, TypeOK
  <2>2. revoking' \in [Revokes -> {"idle", "sent", "set"} \cup RevokeOutcomes]
    BY DEF SetRefused, SetReplied, SetRejected, RevokeEnds, LoseRedis, RegainRedis, Restart,
       TypeOK, RevokeOutcomes
  <2>3. phase' \in [Requests -> {"idle"} \cup Checking \cup GuardOutcomes]
    BY DEF SetRefused, SetReplied, SetRejected, RevokeEnds, LoseRedis, RegainRedis, Restart,
       TypeOK, Checking, GuardOutcomes
  <2> QED BY <1>1, <2>1, <2>2, <2>3 DEF TypeOK
<1>5. RevokesOutliveTokens' /\ KeysWereAsked'
  BY <1>1, <1>2 DEF RevokesOutliveTokens, KeysWereAsked
<1>6. \A t \in Tokens : life'[t] <= life[t]
  BY <1>1 DEF TypeOK
<1>7. GuardsKnow' /\ NoLatePass' /\ OnlyRevokedTurnedAway'
  BY <1>1, <1>2, <1>3, <1>4, <1>6, GuardsKept
<1> QED BY <1>4, <1>5, <1>7

\* Keys and tokens run out together.
LEMMA TickInv ==
  ASSUME IndInv, Tick
  PROVE  IndInv'
<1> USE DEF IndInv, calls, guards
<1>1. UNCHANGED <<federation, link, revoking, order, phase, request, open>>
  BY DEF Tick
<1>2. \A t \in Tokens : /\ life'[t] \in 0 .. MaxLife /\ ttl'[t] \in 0 .. MaxLife
                        /\ life'[t] <= life[t] /\ ttl'[t] <= ttl[t]
                        /\ ttl[t] >= life[t] => ttl'[t] >= life'[t]
  BY LifeAssumption DEF Tick, Less, TypeOK
<1>3. TypeOK'
  BY <1>1, <1>2 DEF Tick, TypeOK
<1>4. RevokesOutliveTokens'
  <2> SUFFICES ASSUME NEW v \in Revokes, revoking[v] # "idle"
      PROVE /\ order[v] \in Order /\ order[v].seconds >= life'[order[v].token]
            /\ revoking[v] \in {"set", "resolved"} => ttl'[order[v].token] >= life'[order[v].token]
    BY <1>1 DEF RevokesOutliveTokens
  <2>1. order[v] \in Order /\ order[v].token \in Tokens /\ order[v].seconds \in Nat
        /\ life[order[v].token] \in Nat /\ order[v].seconds >= life[order[v].token]
    BY DEF RevokesOutliveTokens, Order, TypeOK
  <2> QED BY <2>1, <1>2 DEF RevokesOutliveTokens
<1>5. KeysWereAsked'
  BY <1>1, <1>2 DEF KeysWereAsked, TypeOK
<1>6. GuardsKnow' /\ NoLatePass' /\ OnlyRevokedTurnedAway'
  BY <1>1, <1>2, <1>3, GuardsKept
<1> QED BY <1>3, <1>4, <1>5, <1>6

-----------------------------------------------------------------------------
\* A step of one guard: what is to be shown of its request.
LEMMA OneGuard ==
  ASSUME IndInv, NEW r \in Requests, TypeOK',
         UNCHANGED <<federation, life, ttl, revoking, order>>,
         \A s \in Requests \ {r} : /\ phase'[s] = phase[s] /\ open'[s] = open[s]
                                   /\ request'[s] = request[s],
         phase'[r] # "idle",
         request'[r] \in Request,
         request'[r].late => IsResolved(request'[r].carries),
         phase'[r] \in Checking => request'[r].carries \in Tokens,
         phase'[r] = "absent" /\ request'[r].late => life[request'[r].carries] = 0,
         federation /\ phase'[r] = "passed" /\ request'[r].late /\ ~ open'[r]
           => life[request'[r].carries] = 0,
         (phase'[r] = "present" \/ (federation /\ phase'[r] = "unauthorized"
                                    /\ request'[r].carries \in Tokens))
           => \E v \in Revokes : revoking[v] # "idle" /\ order[v].token = request'[r].carries
  PROVE  IndInv'
<1> USE DEF IndInv
<1>1. \A t : IsResolved(t)' <=> IsResolved(t)
  BY DEF IsResolved
<1>2. RevokesOutliveTokens' /\ KeysWereAsked'
  BY DEF RevokesOutliveTokens, KeysWereAsked
<1>3. GuardsKnow'
  <2> SUFFICES ASSUME NEW s \in Requests
      PROVE /\ phase'[s] # "idle" => request'[s] \in Request
            /\ phase'[s] # "idle" /\ request'[s].late => IsResolved(request'[s].carries)
            /\ phase'[s] \in Checking => request'[s].carries \in Tokens
            /\ phase'[s] = "absent" /\ request'[s].late => life[request'[s].carries] = 0
            /\ phase'[s] = "present" =>
                 \E v \in Revokes : revoking[v] # "idle" /\ order[v].token = request'[s].carries
    BY <1>1 DEF GuardsKnow, IsResolved
  <2>1. CASE s = r
    BY <2>1
  <2>2. CASE s # r
    BY <2>2 DEF GuardsKnow
  <2> QED BY <2>1, <2>2
<1>4. NoLatePass'
  <2> SUFFICES ASSUME NEW s \in Requests, federation, phase'[s] = "passed", request'[s].late,
                      ~ open'[s]
               PROVE  life[request'[s].carries] = 0
    BY DEF NoLatePass
  <2> QED BY DEF NoLatePass
<1>5. OnlyRevokedTurnedAway'
  <2> SUFFICES ASSUME NEW s \in Requests, federation, phase'[s] = "unauthorized",
                      request'[s].carries \in Tokens
      PROVE \E v \in Revokes : revoking[v] # "idle" /\ order[v].token = request'[s].carries
    BY DEF OnlyRevokedTurnedAway
  <2> QED BY DEF OnlyRevokedTurnedAway
<1> QED BY <1>2, <1>3, <1>4, <1>5

\* A request reaches the guard: what it carries decides.
LEMMA ArriveInv ==
  ASSUME IndInv, NEW r \in Requests, NEW i \in Instances, NEW c \in Tokens \cup NoToken,
         Arrive(r, i, c)
  PROVE  IndInv'
<1> USE DEF redis, calls
<1> DEFINE q == [carries |-> c, at |-> i, late |-> IsResolved(c)]
<1>1. /\ phase' = [phase EXCEPT ![r] = CanActivate(c)]
      /\ request' = [request EXCEPT ![r] = q]
      /\ UNCHANGED <<federation, life, ttl, link, revoking, order, open>>
  BY DEF Arrive
<1>2. TypeOK
  BY DEF IndInv
<1>3. CanActivate(c) \in {"checking", "passed", "unauthorized"}
  BY DEF CanActivate, ValidateGatewayContext, ValidateBearerToken
<1>4. IsResolved(c) \in BOOLEAN
  BY DEF IsResolved
<1>5. q \in Request
  BY <1>4 DEF Request
<1>6. TypeOK'
  BY <1>1, <1>2, <1>3, <1>5 DEF TypeOK, Checking, GuardOutcomes
<1>7. phase'[r] = CanActivate(c) /\ request'[r] = q /\ q.carries = c /\ q.late = IsResolved(c)
  BY <1>1, <1>2 DEF TypeOK
<1>8. CanActivate(c) = "checking" => c \in Tokens
  BY DEF CanActivate, ValidateGatewayContext, ValidateBearerToken
<1>9. federation /\ CanActivate(c) = "passed" => c \notin Tokens
  BY NamesAssumption DEF CanActivate, ValidateGatewayContext, NoToken
<1>10. federation /\ CanActivate(c) = "unauthorized" => c \notin Tokens
  BY NamesAssumption DEF CanActivate, ValidateGatewayContext, NoToken
<1>11. IsResolved(c) => c \in Tokens
  BY ResolvedAreTokens
<1> QED BY <1>1, <1>2, <1>3, <1>5, <1>6, <1>7, <1>8, <1>9, <1>10, <1>11, OneGuard
        DEF TypeOK, Checking

\* The answer of Redis, and what the guard makes of it or of its absence.
LEMMA CheckInv ==
  ASSUME IndInv, NEW r \in Requests, Exists(r) \/ Answered(r) \/ CheckRejected(r)
  PROVE  IndInv'
<1> USE DEF redis, calls, Decide
<1> DEFINE t == request[r].carries
<1>1. TypeOK
  BY DEF IndInv
<1>2. /\ phase[r] \in Checking /\ phase' = [phase EXCEPT ![r] = phase'[r]]
      /\ open' = [open EXCEPT ![r] = open'[r]]
      /\ phase'[r] \in {"present", "absent", "passed", "unauthorized"}
      /\ open'[r] \in BOOLEAN
      /\ UNCHANGED <<federation, life, ttl, link, revoking, order, request>>
  BY <1>1 DEF Exists, Answered, CheckRejected, TypeOK, Checking
<1>3. /\ t \in Tokens /\ request[r] \in Request
      /\ request[r].late => IsResolved(t)
  BY <1>2 DEF IndInv, GuardsKnow, Checking
<1>4. TypeOK'
  BY <1>1, <1>2 DEF TypeOK, Checking, GuardOutcomes
<1>5. request[r].late /\ ttl[t] = 0 => life[t] = 0
  <2>1. ASSUME IsResolved(t) PROVE ttl[t] >= life[t]
    BY <2>1 DEF IndInv, IsResolved, RevokesOutliveTokens
  <2> QED BY <1>1, <1>3, <2>1 DEF TypeOK
<1>6. phase'[r] = "absent" /\ request[r].late => life[t] = 0
  BY <1>1, <1>2, <1>3, <1>5 DEF Exists, Answered, CheckRejected, TypeOK
<1>7. phase'[r] = "passed" /\ request[r].late /\ ~ open'[r] => life[t] = 0
  BY <1>1, <1>2 DEF Exists, Answered, CheckRejected, TypeOK, IndInv, GuardsKnow
<1>8. phase'[r] \in {"present", "unauthorized"}
        => \E v \in Revokes : revoking[v] # "idle" /\ order[v].token = t
  BY <1>1, <1>2, <1>3 DEF Exists, Answered, CheckRejected, TypeOK, IndInv, GuardsKnow,
     KeysWereAsked
<1> QED BY <1>1, <1>2, <1>3, <1>4, <1>6, <1>7, <1>8, OneGuard DEF TypeOK

\* Every step of the specification keeps the invariant.
THEOREM NextInv == IndInv /\ [Next]_vars => IndInv'
<1> SUFFICES ASSUME IndInv, [Next]_vars PROVE IndInv'
  OBVIOUS
<1> QED BY RevokeInv, SetInv, InstanceInv, TickInv, ArriveInv, CheckInv DEF Next

\* The inductive invariant holds throughout.
THEOREM Invariance == Spec => []IndInv
BY InitInv, NextInv, PTL DEF Spec

-----------------------------------------------------------------------------
(* The results. *)

\* Every variable keeps its type.
THEOREM Typing == Spec => []TypeOK
<1>1. IndInv => TypeOK
  BY DEF IndInv
<1> QED BY <1>1, Invariance, PTL

\* A resolved revoke's key outlives its token, however many revokes of the
\* token overwrite each other's time to live (TokenRevocationService.revoke).
THEOREM KeysLast == Spec => []KeyOutlivesToken
<1>1. IndInv => KeyOutlivesToken
  BY DEF IndInv, IsResolved, RevokesOutliveTokens, KeyOutlivesToken
<1> QED BY <1>1, Invariance, PTL

\* No request that came after a resolved revoke of its token passes the
\* gateway guard while the token lives, unless Redis could not be asked.
THEOREM LateRequestsStop == Spec => []NoLatePass
<1>1. IndInv => NoLatePass
  BY DEF IndInv
<1> QED BY <1>1, Invariance, PTL

\* Only a revoked token is turned away: an outage of Redis keeps nobody out.
THEOREM OutagesLetPass == Spec => []OnlyRevokedTurnedAway
<1>1. IndInv => OnlyRevokedTurnedAway
  BY DEF IndInv
<1> QED BY <1>1, Invariance, PTL

-----------------------------------------------------------------------------
(* TokenRevocation implements RevocationRegister. *)

\* What the register sees of a revoke: nothing, its begin, or its end.
LEMMA RevokeStep ==
  ASSUME UNCHANGED <<federation, life, request, open>>,
         \A r \in Requests : \/ phase'[r] = phase[r]
                             \/ phase[r] \in Checking /\ phase'[r] \in Checking,
         \/ Begun' = Begun /\ Resolved' = Resolved
         \/ \E t \in Tokens : Begun' = Begun \cup {t} /\ Resolved' = Resolved
         \/ \E t \in Begun : Resolved' = Resolved \cup {t} /\ Begun' = Begun
  PROVE  [Register!Next]_(Register!vars)
<1>1. Expired' = Expired
  BY DEF Expired
<1>2. \A r \in Requests : Asked(r)' = Asked(r)
  BY DEF Asked, Checking
<1>3. \A r \in Requests : Verdict(r)' = Verdict(r) /\ Subject(r)' = Subject(r)
  BY <1>2 DEF Verdict, Subject, Checking
<1>4. Subjects' = Subjects /\ Verdicts' = Verdicts
  BY <1>3 DEF Subjects, Verdicts
<1>5. Begun \subseteq Tokens
  BY DEF Begun
<1> QED BY <1>1, <1>4, <1>5 DEF Register!Next, Register!vars, Register!register, Register!checks,
   Register!Begin, Register!Acknowledge

\* What the register sees of one guard.
LEMMA GuardStep ==
  ASSUME NEW r \in Requests, UNCHANGED <<federation, life, revoking, order>>,
         \A s \in Requests \ {r} : /\ phase'[s] = phase[s] /\ open'[s] = open[s]
                                   /\ request'[s] = request[s]
  PROVE  /\ Begun' = Begun /\ Resolved' = Resolved /\ Expired' = Expired
         /\ Verdicts' = [Verdicts EXCEPT ![r] = Verdict(r)']
         /\ Subjects' = [Subjects EXCEPT ![r] = Subject(r)']
<1>1. Begun' = Begun /\ Resolved' = Resolved /\ Expired' = Expired
  BY DEF Begun, Resolved, Expired, IsResolved
<1>2. \A s \in Requests \ {r} : Asked(s)' = Asked(s)
  BY DEF Asked
<1>3. \A s \in Requests \ {r} : Verdict(s)' = Verdict(s) /\ Subject(s)' = Subject(s)
  BY <1>2 DEF Verdict, Subject
<1> QED BY <1>1, <1>3 DEF Verdicts, Subjects

\* Every step is a step of the register, or changes nothing it sees.
LEMMA RegisterStep == IndInv /\ [Next]_vars => [Register!Next]_(Register!vars)
<1> SUFFICES ASSUME IndInv, [Next]_vars PROVE [Register!Next]_(Register!vars)
  OBVIOUS
<1> USE DEF redis, calls, guards
<1>1. TypeOK
  BY DEF IndInv
<1>2. ASSUME NEW v \in Revokes, NEW i \in Instances, NEW t \in Tokens, Revoke(v, i, t)
      PROVE  [Register!Next]_(Register!vars)
  <2>1. /\ UNCHANGED <<federation, life, phase, request, open>>
        /\ revoking[v] = "idle"
        /\ \A u \in Revokes : /\ revoking'[u] = IF u = v THEN "sent" ELSE revoking[u]
                              /\ u # v => order'[u] = order[u]
        /\ order'[v].token = t
    BY <1>1, <1>2 DEF Revoke, TypeOK
  <2>2. Begun' = Begun \cup {t} /\ Resolved' = Resolved
    BY <2>1 DEF Begun, Resolved, IsResolved
  <2> QED BY <2>1, <2>2, RevokeStep
<1>3. ASSUME NEW v \in Revokes, Set(v) \/ SetRefused(v) \/ SetReplied(v) \/ SetRejected(v)
      PROVE  [Register!Next]_(Register!vars)
  <2>1. UNCHANGED <<federation, life, phase, request, open, order>>
    BY <1>3 DEF Set, SetRefused, SetReplied, SetRejected, RevokeEnds
  <2>2. /\ revoking[v] \in {"sent", "set"} /\ revoking' = [revoking EXCEPT ![v] = revoking'[v]]
        /\ \/ revoking'[v] \in {"set", "rejected"}
           \/ revoking'[v] = "resolved"
    BY <1>1, <1>3 DEF Set, SetRefused, SetReplied, SetRejected, RevokeEnds, TypeOK
  <2>3. \A u \in Revokes : u # v => revoking'[u] = revoking[u]
    BY <1>1, <2>2 DEF TypeOK
  <2>4. Begun' = Begun
    BY <2>1, <2>2, <2>3 DEF Begun
  <2>5. order[v].token \in Begun
    BY <2>2 DEF Begun, IndInv, RevokesOutliveTokens, Order
  <2>6. CASE revoking'[v] = "resolved"
    <3>1. Resolved' = Resolved \cup {order[v].token}
      BY <2>1, <2>2, <2>3, <2>5, <2>6 DEF Resolved, IsResolved, Begun
    <3> QED BY <2>1, <2>4, <2>5, <3>1, RevokeStep
  <2>7. CASE revoking'[v] # "resolved"
    <3>1. Resolved' = Resolved
      BY <2>1, <2>2, <2>3, <2>7 DEF Resolved, IsResolved
    <3> QED BY <2>1, <2>4, <3>1, RevokeStep
  <2> QED BY <2>6, <2>7
<1>4. ASSUME NEW r \in Requests, NEW i \in Instances, NEW c \in Tokens \cup NoToken,
             Arrive(r, i, c)
      PROVE  [Register!Next]_(Register!vars)
  <2> DEFINE q == [carries |-> c, at |-> i, late |-> IsResolved(c)]
  <2>1. /\ phase[r] = "idle" /\ phase' = [phase EXCEPT ![r] = CanActivate(c)]
        /\ request' = [request EXCEPT ![r] = q]
        /\ UNCHANGED <<federation, life, revoking, order, open>>
    BY <1>4 DEF Arrive
  <2>2. /\ phase'[r] = CanActivate(c) /\ request'[r] = q
        /\ \A s \in Requests \ {r} : /\ phase'[s] = phase[s] /\ open'[s] = open[s]
                                     /\ request'[s] = request[s]
    BY <1>1, <2>1 DEF TypeOK
  <2>3. Verdict(r) = "none" /\ Subject(r) = None
    BY <2>1 DEF Asked, Verdict, Subject
  <2>4. CanActivate(c) # "idle"
    BY DEF CanActivate, ValidateGatewayContext, ValidateBearerToken
  <2>5. CASE federation /\ c \in Tokens
    <3>1. CanActivate(c) = "checking"
      BY <2>5, NamesAssumption DEF CanActivate, ValidateGatewayContext, NoToken
    <3>2. Asked(r)'
      BY <2>1, <2>2, <2>4, <2>5 DEF Asked
    <3>3. Verdict(r)' = "asked"
      BY <2>2, <3>1, <3>2 DEF Verdict, Checking
    <3>4. Subject(r)' = [token |-> c, late |-> c \in Resolved]
      <4>1. Subject(r)' = [token |-> c, late |-> IsResolved(c)]
        BY <2>2, <3>2 DEF Subject
      <4>2. IsResolved(c) = (c \in Resolved)
        <5>1. IsResolved(c) \in BOOLEAN
          BY DEF IsResolved
        <5> QED BY <2>5, <5>1 DEF Resolved
      <4> QED BY <4>1, <4>2
    <3>5. Verdicts[r] = "none"
      BY <2>3 DEF Verdicts
    <3>6. Register!Ask(r, c)
      BY <2>1, <2>2, <3>3, <3>4, <3>5, GuardStep DEF Register!Ask, Register!register
    <3> QED BY <2>5, <3>6 DEF Register!Next
  <2>6. CASE ~ (federation /\ c \in Tokens)
    <3>1. ~ Asked(r)'
      BY <2>1, <2>2, <2>6 DEF Asked
    <3>2. Verdict(r)' = Verdict(r) /\ Subject(r)' = Subject(r)
      BY <2>3, <3>1 DEF Verdict, Subject
    <3>3. Verdicts' = Verdicts /\ Subjects' = Subjects
      BY <2>1, <2>2, <3>2, GuardStep DEF Verdicts, Subjects
    <3> QED BY <2>1, <2>2, <3>3, GuardStep DEF Register!vars, Register!register, Register!checks
  <2> QED BY <2>5, <2>6
<1>5. ASSUME NEW r \in Requests, Exists(r) \/ Answered(r) \/ CheckRejected(r)
      PROVE  [Register!Next]_(Register!vars)
  <2>1. /\ phase[r] \in Checking /\ UNCHANGED <<federation, life, revoking, order, request>>
        /\ \A s \in Requests \ {r} : /\ phase'[s] = phase[s] /\ open'[s] = open[s]
                                     /\ request'[s] = request[s]
    BY <1>1, <1>5 DEF Exists, Answered, CheckRejected, Decide, TypeOK, Checking
  <2>2. /\ phase'[r] # "idle" /\ request[r].carries \in Tokens
        /\ request[r].late \in BOOLEAN
    BY <1>1, <1>5, <2>1 DEF Exists, Answered, CheckRejected, Decide, TypeOK, IndInv, GuardsKnow,
       Request, Checking
  <2>3. Subject(r)' = Subject(r) /\ Subjects' = Subjects
    <3>1. Asked(r)' = Asked(r)
      BY <2>1, <2>2 DEF Asked, Checking
    <3>2. Subject(r)' = Subject(r)
      BY <2>1, <3>1 DEF Subject
    <3> QED BY <2>1, <3>2, GuardStep DEF Subjects
  <2>4. CASE ~ federation
    <3>1. Verdict(r)' = Verdict(r)
      BY <2>1, <2>4 DEF Verdict, Asked
    <3>2. Verdicts' = Verdicts
      BY <2>1, <3>1, GuardStep DEF Verdicts
    <3> QED BY <2>1, <2>3, <3>2, GuardStep DEF Register!vars, Register!register, Register!checks
  <2>5. CASE federation
    <3>1. /\ Asked(r) /\ Asked(r)' /\ Verdict(r) = "asked"
          /\ Verdicts[r] = "asked" /\ Subjects[r] = [token |-> request[r].carries,
                                                     late |-> request[r].late]
      BY <2>1, <2>2, <2>5 DEF Asked, Verdict, Verdicts, Subject, Subjects, Checking
    <3>2. CASE Exists(r)
      <4>1. phase'[r] \in Checking
        BY <1>1, <3>2 DEF Exists, Decide, TypeOK, Checking
      <4>2. Verdict(r)' = "asked"
        BY <3>1, <4>1 DEF Verdict, Checking
      <4>3. Verdicts' = Verdicts
        BY <2>1, <3>1, <4>2, GuardStep DEF Verdicts
      <4> QED BY <2>1, <2>3, <4>3, GuardStep DEF Register!vars, Register!register, Register!checks
    <3>3. CASE CheckRejected(r)
      <4>1. phase'[r] = "passed" /\ open'[r]
        BY <1>1, <3>3 DEF CheckRejected, Decide, TypeOK
      <4>2. Verdict(r)' = "unchecked"
        BY <3>1, <4>1 DEF Verdict, Checking
      <4> QED BY <2>1, <2>3, <3>1, <4>2, GuardStep DEF Register!Next, Register!PassUnchecked,
              Register!Decide, Register!register
    <3>4. CASE Answered(r)
      <4>1. UNCHANGED open
        BY <3>4 DEF Answered
      <4>2. CASE phase[r] = "present"
        <5>1. phase'[r] = "unauthorized"
          BY <1>1, <3>4, <4>2 DEF Answered, Decide, TypeOK
        <5>2. Verdict(r)' = "stopped"
          BY <3>1, <5>1 DEF Verdict, Checking
        <5>3. request[r].carries \in Begun
          BY <2>2, <4>2 DEF IndInv, GuardsKnow, Begun
        <5> QED BY <2>1, <2>3, <3>1, <5>2, <5>3, GuardStep DEF Register!Next, Register!Stop,
                Register!Decide, Register!register
      <4>3. CASE phase[r] = "absent"
        <5>1. phase'[r] = "passed"
          BY <1>1, <3>4, <4>3 DEF Answered, Decide, TypeOK
        <5>2. CASE open[r]
          <6>1. Verdict(r)' = "unchecked"
            BY <3>1, <4>1, <5>1, <5>2 DEF Verdict, Checking
          <6> QED BY <2>1, <2>3, <3>1, <6>1, GuardStep DEF Register!Next, Register!PassUnchecked,
                  Register!Decide, Register!register
        <5>3. CASE ~ open[r]
          <6>1. Verdict(r)' = "passed"
            BY <3>1, <4>1, <5>1, <5>3 DEF Verdict, Checking
          <6>2. request[r].late => request[r].carries \in Expired
            BY <2>2, <4>3 DEF IndInv, GuardsKnow, Expired
          <6> QED BY <2>1, <2>3, <3>1, <6>1, <6>2, GuardStep DEF Register!Next, Register!Pass,
                  Register!Decide, Register!register
        <5> QED BY <5>2, <5>3
      <4> QED BY <3>4, <4>2, <4>3 DEF Answered
    <3> QED BY <1>5, <3>2, <3>3, <3>4
  <2> QED BY <2>4, <2>5
<1>6. ASSUME NEW i \in Instances, LoseRedis(i) \/ RegainRedis(i)
      PROVE  [Register!Next]_(Register!vars)
  <2>1. /\ UNCHANGED <<federation, life, request, open, order>>
        /\ \A u \in Revokes : \/ revoking'[u] = revoking[u]
                              \/ revoking[u] = "set" /\ revoking'[u] = "sent"
        /\ \A r \in Requests : \/ phase'[r] = phase[r]
                               \/ phase[r] \in Checking /\ phase'[r] \in Checking
    BY <1>6 DEF LoseRedis, RegainRedis, Checking
  <2>2. Begun' = Begun /\ Resolved' = Resolved
    BY <2>1 DEF Begun, Resolved, IsResolved
  <2> QED BY <2>1, <2>2, RevokeStep
<1>7. ASSUME NEW i \in Instances, Restart(i)
      PROVE  [Register!Next]_(Register!vars)
  <2> DEFINE S == {r \in Requests : Asked(r) /\ phase[r] \in Checking /\ Instance(r) = i}
  <2>1. /\ UNCHANGED <<federation, life, request, open, order>>
        /\ \A u \in Revokes : \/ revoking'[u] = revoking[u]
                              \/ revoking[u] \in {"sent", "set"} /\ revoking'[u] = "dropped"
        /\ \A r \in Requests : phase'[r] = IF phase[r] \in Checking /\ Instance(r) = i
                                           THEN "dropped" ELSE phase[r]
    BY <1>7 DEF Restart
  <2>2. Begun' = Begun /\ Resolved' = Resolved /\ Expired' = Expired
    BY <2>1 DEF Begun, Resolved, IsResolved, Expired
  <2>3. \A r \in Requests : Asked(r)' = Asked(r) /\ Subject(r)' = Subject(r)
    BY <2>1 DEF Asked, Subject, Checking
  <2>4. \A r \in Requests : Verdict(r)' = IF r \in S THEN "dropped" ELSE Verdict(r)
    BY <2>1, <2>3 DEF Verdict, Checking
  <2>5. \A r \in S : Verdicts[r] = "asked"
    <3> SUFFICES ASSUME NEW r \in S PROVE Verdicts[r] = "asked"
      OBVIOUS
    <3>1. r \in Requests /\ Asked(r) /\ phase[r] \in Checking
      OBVIOUS
    <3>2. Verdict(r) = "asked"
      BY <3>1 DEF Verdict, Checking
    <3> QED BY <3>1, <3>2 DEF Verdicts
  <2>6. /\ Subjects' = Subjects
        /\ Verdicts' = [r \in Requests |-> IF r \in S THEN "dropped" ELSE Verdicts[r]]
    BY <2>3, <2>4 DEF Subjects, Verdicts
  <2>7. S \in SUBSET Requests
    OBVIOUS
  <2> HIDE DEF S
  <2> QED BY <2>2, <2>5, <2>6, <2>7 DEF Register!Next, Register!Drop, Register!register
<1>8. ASSUME Tick
      PROVE  [Register!Next]_(Register!vars)
  <2>1. /\ UNCHANGED <<federation, revoking, order, phase, request, open>>
        /\ \A t \in Tokens : life[t] = 0 => life'[t] = 0
    BY <1>8 DEF Tick, Less
  <2>2. Begun' = Begun /\ Resolved' = Resolved /\ Subjects' = Subjects /\ Verdicts' = Verdicts
    BY <2>1 DEF Begun, Resolved, IsResolved, Subjects, Verdicts, Subject, Verdict, Asked
  <2>3. Expired' = Expired \cup Expired' /\ Expired' \in SUBSET Tokens
    BY <2>1 DEF Expired
  <2> QED BY <2>2, <2>3 DEF Register!Next, Register!Expire, Register!checks
<1>9. CASE UNCHANGED vars
  <2>1. /\ Begun' = Begun /\ Resolved' = Resolved /\ Expired' = Expired
        /\ Subjects' = Subjects /\ Verdicts' = Verdicts
    BY <1>9 DEF vars, Begun, Resolved, IsResolved, Expired, Subjects, Verdicts, Subject, Verdict,
       Asked
  <2> QED BY <2>1 DEF Register!vars, Register!register, Register!checks
<1> QED BY <1>2, <1>3, <1>4, <1>5, <1>6, <1>7, <1>8, <1>9 DEF Next

\* The keys in Redis keep the promises of RevocationRegister.
THEOREM Refinement == Spec => ImplementsRegister
<1>1. Init => Register!Init
  BY DEF Init, Register!Init, Begun, Resolved, IsResolved, Expired, Subjects, Subject, Verdicts,
     Verdict, Asked
<1>2. QED
  BY <1>1, RegisterStep, Invariance, PTL DEF Spec, ImplementsRegister, Register!Spec
=============================================================================
