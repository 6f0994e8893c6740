------------------------ MODULE RequestPipelineProofs ------------------------
(***************************************************************************)
(* Proofs about RequestPipeline, for every number of calls, processes and  *)
(* clients and every limit.  The limits hold because what a process counts *)
(* is what it let in within the window; a refusal has its reason because a *)
(* block lasts no longer than the calls it began with are remembered here. *)
(***************************************************************************)
EXTENDS RequestPipeline, FunctionTheorems, FiniteSetTheorems, TLAPS

\* What is known of a call at each place.
Placed ==
  \A c \in Calls :
    /\ stage[c] = "idle" => home[c] = None /\ age[c] = Old
    /\ stage[c] # "idle" => /\ request[c] \in Request /\ home[c] \in Processes
                            /\ process[home[c]] # "new"
    /\ stage[c] \in InProgress => process[home[c]] = "up"
    /\ stage[c] \in {"checking", "entering"} => age[c] = Old

\* A process counts the calls it let in within the window.
HitsAreRecent ==
  \A c \in Calls : c \in hits <=> /\ home[c] \in Processes /\ process[home[c]] = "up"
                                  /\ age[c] < Window

\* The calls of a handler and client that p let in within the last n ticks.
LetInAt(p, h, a, n) == {c \in LetIn(h, a, n) : home[c] = p}

WithinLimit ==
  \A p \in Processes, h \in Handlers, a \in Clients :
    Cardinality(LetInAt(p, h, a, Window)) <= Limit(<<h, a>>)

\* The calls a block began with are not forgotten before it ends.
BlocksHaveReason ==
  \A p \in Processes, h \in Handlers, a \in Clients, b \in 1 .. Window :
    block[p][<<h, a>>] = b =>
      Cardinality(LetInAt(p, h, a, 2 * Window - b)) >= Limit(<<h, a>>)

\* A call that got past the guard behind the gateway.
Vetted(c) ==
  \/ request[c].carries = "plain"
  \/ /\ request[c].carries \in Tokens
     /\ \/ verdict[c] = "unchecked"
        \/ verdict[c] = "passed" /\ (subject[c].late => request[c].carries \in expired)

\* What the chain has made sure of so far.
ClearedSoFar(c) ==
  /\ stage[c] \in InProgress => DocumentRuns(request[c])
  /\ stage[c] = "checking" => /\ settings.federation /\ request[c].carries \in Tokens
                              /\ subject[c].token = request[c].carries
  /\ stage[c] \in {"entering", "handling"} =>
       (settings.federation /\ ~ IsPublic(request[c].handler) => Vetted(c))
  /\ stage[c] = "handling" => HasAllPermissions(request[c])

Cleared == \A c \in Calls : ClearedSoFar(c)

Counts == HitsAreRecent /\ WithinLimit /\ BlocksHaveReason

IndInv == TypeOK /\ Placed /\ Counts /\ Cleared

-----------------------------------------------------------------------------
(* Facts about the operators. *)

LEMMA StatusValues ==
  /\ Status("TypeError") = "500" /\ Status("GraphQLError") = "500" /\ Status("Error") = "500"
  /\ Status("BadRequest") = "400" /\ Status("Unauthorized") = "401"
  /\ Status("Forbidden") = "403" /\ Status("NotFound") = "404"
  /\ Status("TooManyRequests") = "429" /\ Status("ServiceUnavailable") = "503"
BY DEF Status, HttpStatus

LEMMA LimitType ==
  ASSUME NEW h \in Handlers, NEW a \in Clients
  PROVE  Limit(<<h, a>>) \in Nat \ {0}
BY LimitsAssumption DEF Limit

LEMMA OldIsOld ==
  /\ Old \in Nat /\ Window \in Nat \ {0} /\ Window <= Old
  /\ \A b \in 1 .. Window : 2 * Window - b \in Nat /\ 2 * Window - b <= Old
BY LimitsAssumption DEF Old

\* A set whose members fall into classes of at most L has at most L members
\* for each class.
LEMMA ClassesBound ==
  ASSUME NEW R, IsFiniteSet(R), NEW f, NEW L \in Nat,
         \A p \in {f[c] : c \in R} : Cardinality({c \in R : f[c] = p}) <= L
  PROVE  Cardinality(R) <= L * Cardinality({f[c] : c \in R})
<1> DEFINE P == {f[c] : c \in R}
           Class(p) == {c \in R : f[c] = p}
<1>1. IsFiniteSet(P)
  <2> DEFINE g == [c \in R |-> f[c]]
  <2>1. g \in Surjection(R, P)
    BY DEF Surjection
  <2> QED BY <2>1, FS_Surjection
<1>2. ASSUME NEW p \in P PROVE Injection(Class(p), 1 .. L) # {}
  <2> DEFINE C == Class(p)
             n == Cardinality(C)
  <2>1. IsFiniteSet(C) /\ n <= L
    BY FS_Subset
  <2> HIDE DEF C
  <2>2. n \in Nat /\ ExistsBijection(1 .. n, C)
    BY <2>1, FS_CardinalityType
  <2>3. ExistsBijection(C, 1 .. n)
    BY <2>2, Fun_ExistsBijSymmetric
  <2>4. PICK b : b \in Bijection(C, 1 .. n)
    BY <2>3 DEF ExistsBijection
  <2>5. b \in Injection(C, 1 .. L)
    BY <2>1, <2>2, <2>4 DEF Bijection, Injection
  <2> QED BY <2>5 DEF C
<1> DEFINE num == [p \in P |-> CHOOSE b : b \in Injection(Class(p), 1 .. L)]
           g == [c \in R |-> <<f[c], num[f[c]][c]>>]
<1>3. ASSUME NEW p \in P PROVE num[p] \in Injection(Class(p), 1 .. L)
  BY <1>2
<1> HIDE DEF num
<1>4. g \in Injection(R, P \X (1 .. L))
  <2>1. ASSUME NEW c \in R PROVE g[c] \in P \X (1 .. L)
    <3>1. f[c] \in P /\ c \in Class(f[c])
      OBVIOUS
    <3>2. num[f[c]] \in [Class(f[c]) -> 1 .. L]
      BY <1>3, <3>1 DEF Injection
    <3> QED BY <3>1, <3>2
  <2>2. ASSUME NEW c \in R, NEW d \in R, g[c] = g[d] PROVE c = d
    <3>1. f[c] \in P /\ f[c] = f[d] /\ num[f[c]][c] = num[f[c]][d]
      BY <2>2
    <3>2. c \in Class(f[c]) /\ d \in Class(f[c])
      BY <3>1
    <3> QED BY <1>3, <3>1, <3>2 DEF Injection, IsInjective
  <2> QED BY <2>1, <2>2 DEF Injection, IsInjective
<1>5. IsFiniteSet(1 .. L) /\ Cardinality(1 .. L) = L
  BY FS_Interval
<1>6. IsFiniteSet(P \X (1 .. L)) /\ Cardinality(P \X (1 .. L)) = Cardinality(P) * L
  BY <1>1, <1>5, FS_Product
<1>7. Cardinality(R) <= Cardinality(P) * L
  BY <1>4, <1>6, FS_Injection
<1>8. Cardinality(P) \in Nat
  BY <1>1, FS_CardinalityType
<1> QED BY <1>7, <1>8

-----------------------------------------------------------------------------
(* What is counted. *)

LEMMA LetInFinite ==
  ASSUME NEW p, NEW h, NEW a, NEW n
  PROVE  IsFiniteSet(LetInAt(p, h, a, n)) /\ Cardinality(LetInAt(p, h, a, n)) \in Nat
<1>1. LetInAt(p, h, a, n) \subseteq Calls
  BY DEF LetInAt, LetIn
<1> QED BY <1>1, CallsAssumption, FS_Subset, FS_CardinalityType

\* Steps that let nobody in leave what is let in alone.
LEMMA NobodyLetIn ==
  ASSUME NEW p \in Processes, NEW h, NEW a, NEW n, age' = age,
         \A c \in Calls : age[c] < n => request'[c] = request[c] /\ home'[c] = home[c]
  PROVE  LetInAt(p, h, a, n)' = LetInAt(p, h, a, n)
BY DEF LetInAt, LetIn

\* ... and keep the counts right, unless they block.
LEMMA CountsKept ==
  ASSUME TypeOK, Counts, age' = age, HitsAreRecent',
         \A c \in Calls : age[c] < Old => request'[c] = request[c] /\ home'[c] = home[c],
         \A p \in Processes, k \in Keys : block'[p][k] = block[p][k] \/ block'[p][k] = 0
  PROVE  Counts'
<1>0. \A n \in Nat : n <= Old => \A c \in Calls :
        age[c] < n => request'[c] = request[c] /\ home'[c] = home[c]
  BY OldIsOld DEF TypeOK
<1>1. WithinLimit'
  <2> SUFFICES ASSUME NEW p \in Processes, NEW h \in Handlers, NEW a \in Clients
               PROVE  Cardinality(LetInAt(p, h, a, Window)') <= Limit(<<h, a>>)
    BY DEF WithinLimit
  <2>2. LetInAt(p, h, a, Window)' = LetInAt(p, h, a, Window)
    BY <1>0, OldIsOld, NobodyLetIn
  <2> QED BY <2>2 DEF Counts, WithinLimit
<1>2. BlocksHaveReason'
  <2> SUFFICES ASSUME NEW p \in Processes, NEW h \in Handlers, NEW a \in Clients,
                      NEW b \in 1 .. Window, block'[p][<<h, a>>] = b
               PROVE  Cardinality(LetInAt(p, h, a, 2 * Window - b)') >= Limit(<<h, a>>)
    BY DEF BlocksHaveReason
  <2>1. block[p][<<h, a>>] = b
    BY DEF Keys
  <2>2. LetInAt(p, h, a, 2 * Window - b)' = LetInAt(p, h, a, 2 * Window - b)
    BY <1>0, OldIsOld, NobodyLetIn
  <2> QED BY <2>1, <2>2 DEF Counts, BlocksHaveReason
<1> QED BY <1>1, <1>2 DEF Counts

\* What an open process counts for a key is what it let in within the window.
LEMMA CountedIsLetIn ==
  ASSUME TypeOK, Placed, HitsAreRecent, NEW p \in Processes, process[p] = "up",
         NEW h \in Handlers, NEW a \in Clients
  PROVE  Counted(p, <<h, a>>) = LetInAt(p, h, a, Window)
<1>1. ASSUME NEW c \in Calls
      PROVE  c \in hits /\ home[c] = p <=> request[c] # None /\ age[c] < Window /\ home[c] = p
  BY NamesAssumption DEF Placed, HitsAreRecent, TypeOK
<1>2. ASSUME NEW c \in Calls, request[c] # None
      PROVE  Key(request[c]) = <<h, a>> <=> request[c].handler = h /\ request[c].client = a
  BY DEF Key
<1>3. hits \subseteq Calls
  BY DEF TypeOK
<1> QED BY <1>1, <1>2, <1>3 DEF Counted, LetInAt, LetIn

\* Before any call the invariant holds.
LEMMA InitInv == Init => IndInv
<1> SUFFICES ASSUME Init PROVE IndInv
  OBVIOUS
<1>1. TypeOK
  BY OldIsOld, CallsAssumption DEF Init, Register!Init, TypeOK, Deployment
<1>2. Placed /\ HitsAreRecent /\ Cleared
  BY OldIsOld, NamesAssumption DEF Init, Placed, HitsAreRecent, Cleared, ClearedSoFar,
       InProgress
<1>3. WithinLimit
  <2> SUFFICES ASSUME NEW p \in Processes, NEW h \in Handlers, NEW a \in Clients
               PROVE  Cardinality(LetInAt(p, h, a, Window)) <= Limit(<<h, a>>)
    BY DEF WithinLimit
  <2>1. LetInAt(p, h, a, Window) = {}
    BY DEF Init, LetInAt, LetIn
  <2> QED BY <2>1, FS_EmptySet, LimitType
<1>4. BlocksHaveReason
  BY DEF Init, BlocksHaveReason, Keys
<1> QED BY <1>1, <1>2, <1>3, <1>4 DEF IndInv, Counts

-----------------------------------------------------------------------------
(* Every step keeps the invariant. *)

\* A call that a step does not move, or that it ends, is cleared as before.
LEMMA StaysCleared ==
  ASSUME NEW d \in Calls, ClearedSoFar(d), settings' = settings, expired \subseteq expired',
         request'[d] = request[d], verdict'[d] = verdict[d], subject'[d] = subject[d],
         stage'[d] = stage[d] \/ stage'[d] \notin InProgress
  PROVE  ClearedSoFar(d)'
BY DEF ClearedSoFar, Vetted, InProgress, DocumentRuns

LEMMA ArriveKeeps ==
  ASSUME IndInv, NEW c \in Calls, NEW q \in Requests[c], NEW p \in Processes, Arrive(c, q, p)
  PROVE  IndInv'
<1>1. /\ stage[c] = "idle" /\ process[p] = "up"
      /\ request' = [request EXCEPT ![c] = q] /\ home' = [home EXCEPT ![c] = p]
      /\ UNCHANGED <<settings, process, hits, age, block>>
  BY DEF Arrive, throttler
<1> DEFINE s == IF DocumentRuns(q) THEN CanActivate(q) ELSE Status("GraphQLError")
<1>2. stage' = [stage EXCEPT ![c] = s]
  BY DEF Arrive
<1>3. q \in Request /\ TypeOK
  BY CallsAssumption DEF IndInv
<1>4. s \in {"entering", "checking", "500", "401"}
  BY StatusValues DEF CanActivate
<1> HIDE DEF s
<1>5. stage'[c] = s /\ request'[c] = q /\ home'[c] = p
  BY <1>1, <1>2, <1>3 DEF TypeOK
<1>6. \A d \in Calls \ {c} : /\ stage'[d] = stage[d] /\ request'[d] = request[d]
                             /\ home'[d] = home[d]
  BY <1>1, <1>2, <1>3 DEF TypeOK
<1>7. /\ s = "checking" => Register!Ask(c, q.carries)
      /\ s # "checking" => UNCHANGED tokens
  BY <1>5 DEF Arrive
<1>8. s = "checking" => settings.federation /\ q.carries \in Tokens
  BY <1>4, StatusValues DEF s, CanActivate
<1>9. /\ \A d \in Calls \ {c} : verdict'[d] = verdict[d] /\ subject'[d] = subject[d]
      /\ UNCHANGED <<begun, revoked, expired>>
      /\ s = "checking" => subject'[c].token = q.carries
      /\ subject' \in [Calls -> [token : Tokens, late : BOOLEAN] \cup {None}]
      /\ verdict' \in [Calls -> {"none", "asked", "passed", "unchecked", "stopped", "dropped"}]
  <2>1. CASE s = "checking"
    <3> DEFINE new == [token |-> q.carries, late |-> q.carries \in revoked]
    <3>1. /\ subject' = [subject EXCEPT ![c] = new]
          /\ verdict' = [verdict EXCEPT ![c] = "asked"]
          /\ UNCHANGED <<begun, revoked, expired>>
      BY <1>7, <2>1 DEF Register!Ask, Register!register
    <3>2. (q.carries \in revoked) \in BOOLEAN
      OBVIOUS
    <3>3. new \in [token : Tokens, late : BOOLEAN] /\ new.token = q.carries
      BY <1>8, <2>1, <3>2
    <3> HIDE DEF new
    <3> QED BY <1>3, <3>1, <3>3 DEF TypeOK
  <2>2. CASE s # "checking"
    BY <1>3, <1>7, <2>2 DEF tokens, TypeOK
  <2> QED BY <2>1, <2>2
<1>10. TypeOK'
  <2>1. stage' \in [Calls -> {"idle", "dropped"} \cup InProgress \cup Statuses]
    BY <1>2, <1>3, <1>4 DEF TypeOK, InProgress, Statuses
  <2> QED BY <1>1, <1>3, <1>9, <2>1 DEF TypeOK
<1>11. Placed'
  BY <1>1, <1>3, <1>4, <1>5, <1>6 DEF IndInv, Placed, InProgress
<1>12. Counts'
  <2>1. home[c] = None /\ age[c] = Old
    BY <1>1 DEF IndInv, Placed
  <2>2. HitsAreRecent'
    BY <1>1, <1>5, <1>6, <2>1, OldIsOld, NamesAssumption DEF IndInv, Counts, HitsAreRecent
  <2> QED BY <1>1, <1>3, <1>6, <2>1, <2>2, OldIsOld, CountsKept DEF IndInv
<1>13. Cleared'
  <2>1. ASSUME NEW d \in Calls \ {c} PROVE ClearedSoFar(d)'
    BY <1>1, <1>6, <1>9, <2>1, StaysCleared DEF IndInv, Cleared
  <2>2. ClearedSoFar(c)'
    <3>1. s \in InProgress => DocumentRuns(q)
      BY StatusValues DEF s, InProgress
    <3>2. s = "entering" => IsPublic(q.handler) \/ LetsPass(q)
      BY StatusValues DEF s, CanActivate
    <3>3. DocumentRuns(q)' = DocumentRuns(q)
      BY <1>1 DEF DocumentRuns
    <3> QED BY <1>1, <1>4, <1>5, <1>8, <1>9, <3>1, <3>2, <3>3
            DEF ClearedSoFar, Vetted, LetsPass, DocumentRuns
  <2> QED BY <2>1, <2>2 DEF Cleared
<1> QED BY <1>10, <1>11, <1>12, <1>13 DEF IndInv

LEMMA CheckedKeeps ==
  ASSUME IndInv, NEW c \in Calls, Checked(c)
  PROVE  IndInv'
<1>1. /\ stage[c] = "checking"
      /\ UNCHANGED <<settings, process, request, home, hits, age, block>>
  BY DEF Checked, Move, throttler
<1>2. TypeOK /\ ClearedSoFar(c)
  BY DEF IndInv, Cleared
<1>3. PICK s \in {"entering", "401"} :
        /\ stage' = [stage EXCEPT ![c] = s]
        /\ s = "entering" => Register!Pass(c) \/ Register!PassUnchecked(c)
        /\ s = "401" => Register!Stop(c)
  BY StatusValues DEF Checked, Move
<1>4. stage'[c] = s /\ \A d \in Calls \ {c} : stage'[d] = stage[d]
  BY <1>2, <1>3 DEF TypeOK
<1>5. PICK v \in {"passed", "unchecked", "stopped"} :
        /\ Register!Decide(c, v)
        /\ s = "entering" => v # "stopped"
        /\ v = "passed" => (subject[c].late => subject[c].token \in expired)
  BY <1>3 DEF Register!Pass, Register!PassUnchecked, Register!Stop
<1>6. /\ verdict' = [verdict EXCEPT ![c] = v]
      /\ UNCHANGED <<begun, revoked, expired, subject>>
  BY <1>5 DEF Register!Decide, Register!register
<1>7. verdict'[c] = v /\ \A d \in Calls \ {c} : verdict'[d] = verdict[d]
  BY <1>2, <1>6 DEF TypeOK
<1>8. TypeOK'
  <2>1. stage' \in [Calls -> {"idle", "dropped"} \cup InProgress \cup Statuses]
    BY <1>2, <1>3 DEF TypeOK, InProgress, Statuses
  <2>2. verdict' \in [Calls -> {"none", "asked", "passed", "unchecked", "stopped", "dropped"}]
    BY <1>2, <1>6 DEF TypeOK
  <2> QED BY <1>1, <1>2, <1>6, <2>1, <2>2 DEF TypeOK
<1>9. Placed'
  BY <1>1, <1>4 DEF IndInv, Placed, InProgress
<1>10. Counts'
  <2>1. HitsAreRecent'
    BY <1>1 DEF IndInv, Counts, HitsAreRecent
  <2> QED BY <1>1, <1>2, <2>1, CountsKept DEF IndInv
<1>11. Cleared'
  <2>1. ASSUME NEW d \in Calls \ {c} PROVE ClearedSoFar(d)'
    BY <1>1, <1>4, <1>6, <1>7, <2>1, StaysCleared DEF IndInv, Cleared
  <2>2. ClearedSoFar(c)'
    BY <1>1, <1>2, <1>4, <1>5, <1>6, <1>7 DEF ClearedSoFar, Vetted, InProgress, DocumentRuns
  <2> QED BY <2>1, <2>2 DEF Cleared
<1> QED BY <1>8, <1>9, <1>10, <1>11 DEF IndInv

\* A step that moves one call that nobody asks about, on from where it is.
LEMMA MoveKeeps ==
  ASSUME IndInv, NEW c \in Calls, NEW s \in {"handling"} \cup Statuses,
         stage[c] \in {"entering", "handling"}, Move(c, s), UNCHANGED tokens
  PROVE  /\ stage' \in [Calls -> {"idle", "dropped"} \cup InProgress \cup Statuses]
         /\ stage'[c] = s /\ \A d \in Calls \ {c} : stage'[d] = stage[d]
         /\ UNCHANGED <<begun, revoked, expired, subject, verdict>>
         /\ UNCHANGED <<settings, process, request, home>>
         /\ \A d \in Calls \ {c} : ClearedSoFar(d)'
<1>1. /\ stage' = [stage EXCEPT ![c] = s] /\ UNCHANGED <<settings, process, request, home>>
      /\ UNCHANGED <<begun, revoked, expired, subject, verdict>>
  BY DEF Move, tokens
<1>2. TypeOK
  BY DEF IndInv
<1>3. /\ stage' \in [Calls -> {"idle", "dropped"} \cup InProgress \cup Statuses]
      /\ stage'[c] = s /\ \A d \in Calls \ {c} : stage'[d] = stage[d]
  BY <1>1, <1>2 DEF TypeOK, InProgress
<1>4. \A d \in Calls \ {c} : ClearedSoFar(d)'
  BY <1>1, <1>3, StaysCleared DEF IndInv, Cleared
<1> QED BY <1>1, <1>3, <1>4

\* The reason of a refusal: as many calls as the limit, let in by the process.
LEMMA ExceededHasReason ==
  ASSUME IndInv, NEW c \in Calls, stage[c] = "entering", Exceeded(c)
  PROVE  LET p == home[c]
             h == request[c].handler
             a == request[c].client
         IN  /\ p \in Processes /\ h \in Handlers /\ a \in Clients
             /\ Key(request[c]) = <<h, a>>
             /\ block[p][<<h, a>>] = 0 => Cardinality(LetInAt(p, h, a, Window)) >= Limit(<<h, a>>)
             /\ Cardinality(LetInAt(p, h, a, Old)) >= Limit(<<h, a>>)
<1> DEFINE p == home[c]
           h == request[c].handler
           a == request[c].client
<1>1. /\ p \in Processes /\ process[p] = "up" /\ request[c] \in Request
      /\ TypeOK /\ Placed /\ HitsAreRecent
  BY DEF IndInv, Counts, Placed, InProgress
<1>2. h \in Handlers /\ a \in Clients /\ Key(request[c]) = <<h, a>>
  BY <1>1 DEF Request, Key
<1>3. block[p][<<h, a>>] > 0 \/ Cardinality(LetInAt(p, h, a, Window)) >= Limit(<<h, a>>)
  BY <1>1, <1>2, CountedIsLetIn DEF Exceeded
<1>4. block[p][<<h, a>>] \in 0 .. Window
  BY <1>1, <1>2 DEF TypeOK, Keys
<1>5. \E n \in Nat : n <= Old /\ Cardinality(LetInAt(p, h, a, n)) >= Limit(<<h, a>>)
  <2>1. CASE block[p][<<h, a>>] = 0
    BY <1>3, <2>1, OldIsOld
  <2>2. CASE block[p][<<h, a>>] # 0
    <3>1. block[p][<<h, a>>] \in 1 .. Window
      BY <1>4, <2>2
    <3> QED BY <1>1, <1>2, <3>1, OldIsOld DEF IndInv, Counts, BlocksHaveReason
  <2> QED BY <2>1, <2>2
<1>6. PICK n \in Nat : n <= Old /\ Cardinality(LetInAt(p, h, a, n)) >= Limit(<<h, a>>)
  BY <1>5
<1>7. LetInAt(p, h, a, n) \subseteq LetInAt(p, h, a, Old)
  BY <1>1, <1>6, OldIsOld DEF LetInAt, LetIn, TypeOK
<1>8. Cardinality(LetInAt(p, h, a, Old)) >= Limit(<<h, a>>)
  BY <1>2, <1>6, <1>7, LetInFinite, FS_Subset, LimitType
<1> QED BY <1>1, <1>2, <1>3, <1>8

LEMMA RefuseKeeps ==
  ASSUME IndInv, NEW c \in Calls, Refuse(c)
  PROVE  IndInv'
<1> DEFINE p == home[c]
           k == Key(request[c])
           b == IF block[p][k] > 0 THEN block[p][k] ELSE Window
<1>1. /\ stage[c] = "entering" /\ Exceeded(c) /\ Move(c, "429")
      /\ block' = [block EXCEPT ![p][k] = b] /\ UNCHANGED <<hits, age, tokens>>
  BY StatusValues DEF Refuse
<1>2. /\ stage' \in [Calls -> {"idle", "dropped"} \cup InProgress \cup Statuses]
      /\ stage'[c] = "429" /\ \A d \in Calls \ {c} : stage'[d] = stage[d]
      /\ UNCHANGED <<begun, revoked, expired, subject, verdict>>
      /\ UNCHANGED <<settings, process, request, home>>
      /\ \A d \in Calls \ {c} : ClearedSoFar(d)'
  BY <1>1, MoveKeeps DEF Statuses
<1>3. p \in Processes /\ k \in Keys /\ TypeOK
  <2>1. /\ p \in Processes /\ request[c].handler \in Handlers /\ request[c].client \in Clients
        /\ k = <<request[c].handler, request[c].client>>
    BY <1>1, ExceededHasReason
  <2> QED BY <2>1 DEF IndInv, Keys
<1>4. block[p][k] \in 0 .. Window /\ b \in 0 .. Window
  BY <1>3, OldIsOld DEF TypeOK
<1>5. /\ block' \in [Processes -> [Keys -> 0 .. Window]]
      /\ block'[p][k] = b
      /\ \A r \in Processes, l \in Keys : r # p \/ l # k => block'[r][l] = block[r][l]
  BY <1>1, <1>3, <1>4 DEF TypeOK
<1>6. TypeOK'
  BY <1>1, <1>2, <1>3, <1>5 DEF TypeOK
<1>7. Placed'
  BY <1>1, <1>2 DEF IndInv, Placed, InProgress, Statuses
<1>8. Counts'
  <2>1. HitsAreRecent'
    BY <1>1, <1>2 DEF IndInv, Counts, HitsAreRecent
  <2>2. ASSUME NEW r \in Processes, NEW h, NEW a, NEW n
        PROVE  LetInAt(r, h, a, n)' = LetInAt(r, h, a, n)
    BY <1>1, <1>2, NobodyLetIn
  <2>3. WithinLimit'
    BY <2>2 DEF IndInv, Counts, WithinLimit
  <2>4. BlocksHaveReason'
    <3> SUFFICES ASSUME NEW r \in Processes, NEW h \in Handlers, NEW a \in Clients,
                        NEW m \in 1 .. Window, block'[r][<<h, a>>] = m
                 PROVE  Cardinality(LetInAt(r, h, a, 2 * Window - m)') >= Limit(<<h, a>>)
      BY DEF BlocksHaveReason
    <3>1. CASE block[r][<<h, a>>] = m
      BY <2>2, <3>1 DEF IndInv, Counts, BlocksHaveReason
    <3>2. CASE block[r][<<h, a>>] # m
      <4>1. r = p /\ <<h, a>> = k /\ b = m
        BY <1>5, <3>2 DEF Keys
      <4>2. block[p][k] = 0 /\ m = Window
        <5>1. block[p][k] # m
          BY <3>2, <4>1
        <5> QED BY <1>4, <4>1, <5>1
      <4>3. h = request[c].handler /\ a = request[c].client
        BY <4>1 DEF Key
      <4>4. 2 * Window - m = Window
        BY <4>2, OldIsOld
      <4> QED BY <1>1, <2>2, <4>1, <4>2, <4>3, <4>4, ExceededHasReason
    <3> QED BY <3>1, <3>2
  <2> QED BY <2>1, <2>3, <2>4 DEF Counts
<1>9. Cleared'
  BY <1>2 DEF Cleared, ClearedSoFar, InProgress
<1> QED BY <1>6, <1>7, <1>8, <1>9 DEF IndInv

LEMMA AdmitKeeps ==
  ASSUME IndInv, NEW c \in Calls, Admit(c)
  PROVE  IndInv'
<1> DEFINE q == request[c]
           s == IF ~ HasAllPermissions(q) THEN "403"
                ELSE IF ~ Transforms(q) THEN "400" ELSE "handling"
<1>1. /\ stage[c] = "entering" /\ ~ Exceeded(c) /\ Move(c, s) /\ UNCHANGED <<block, tokens>>
      /\ hits' = IF settings.environment = "test" THEN hits ELSE hits \cup {c}
      /\ age' = [age EXCEPT ![c] = IF settings.environment = "test" THEN @ ELSE 0]
  BY StatusValues DEF Admit
<1>2. s \in {"handling"} \cup Statuses
  BY DEF Statuses
<1>3. s = "handling" => HasAllPermissions(q)
  OBVIOUS
<1> HIDE DEF s
<1>4. /\ stage' \in [Calls -> {"idle", "dropped"} \cup InProgress \cup Statuses]
      /\ stage'[c] = s /\ \A d \in Calls \ {c} : stage'[d] = stage[d]
      /\ UNCHANGED <<begun, revoked, expired, subject, verdict>>
      /\ UNCHANGED <<settings, process, request, home>>
      /\ \A d \in Calls \ {c} : ClearedSoFar(d)'
  BY <1>1, <1>2, MoveKeeps
<1>5. /\ home[c] \in Processes /\ process[home[c]] = "up" /\ q \in Request /\ age[c] = Old
      /\ TypeOK /\ Placed /\ HitsAreRecent
  BY <1>1 DEF IndInv, Counts, Placed, InProgress
<1>6. /\ age' \in [Calls -> 0 .. Old] /\ \A d \in Calls \ {c} : age'[d] = age[d]
      /\ age'[c] = IF settings.environment = "test" THEN age[c] ELSE 0
  BY <1>1, <1>5, OldIsOld DEF TypeOK
<1>7. TypeOK'
  BY <1>1, <1>4, <1>5, <1>6 DEF TypeOK
<1>8. Placed'
  BY <1>2, <1>4, <1>6, <1>5 DEF Placed, InProgress, Statuses
<1>9. HitsAreRecent'
  BY <1>1, <1>4, <1>5, <1>6, OldIsOld DEF HitsAreRecent
<1>10. WithinLimit'
  <2> SUFFICES ASSUME NEW p \in Processes, NEW h \in Handlers, NEW a \in Clients
               PROVE  Cardinality(LetInAt(p, h, a, Window)') <= Limit(<<h, a>>)
    BY DEF WithinLimit
  <2>1. Cardinality(LetInAt(p, h, a, Window)) <= Limit(<<h, a>>)
    BY DEF IndInv, Counts, WithinLimit
  <2>2. CASE p = home[c] /\ h = q.handler /\ a = q.client /\ settings.environment # "test"
    <3>1. Key(q) = <<h, a>>
      BY <2>2 DEF Key
    <3>2. Cardinality(LetInAt(p, h, a, Window)) < Limit(<<h, a>>)
      <4>1. ~ (Cardinality(Counted(p, <<h, a>>)) >= Limit(<<h, a>>))
        BY <1>1, <2>2, <3>1 DEF Exceeded
      <4>2. Counted(p, <<h, a>>) = LetInAt(p, h, a, Window)
        BY <1>5, <2>2, CountedIsLetIn
      <4> QED BY <4>1, <4>2, LetInFinite, LimitType
    <3>3. LetInAt(p, h, a, Window)' \subseteq LetInAt(p, h, a, Window) \cup {c}
      BY <1>4, <1>6 DEF LetInAt, LetIn
    <3>4. /\ IsFiniteSet(LetInAt(p, h, a, Window) \cup {c})
          /\ Cardinality(LetInAt(p, h, a, Window) \cup {c})
               <= Cardinality(LetInAt(p, h, a, Window)) + 1
      <4> DEFINE S == LetInAt(p, h, a, Window)
      <4>1. IsFiniteSet(S) /\ Cardinality(S) \in Nat
        BY LetInFinite
      <4> HIDE DEF S
      <4>2. /\ IsFiniteSet(S \cup {c})
            /\ Cardinality(S \cup {c}) = IF c \in S THEN Cardinality(S) ELSE Cardinality(S) + 1
        BY <4>1, FS_AddElement
      <4>3. IsFiniteSet(S \cup {c}) /\ Cardinality(S \cup {c}) <= Cardinality(S) + 1
        BY <4>1, <4>2
      <4> QED BY <4>3 DEF S
    <3>5. Cardinality(LetInAt(p, h, a, Window)')
            <= Cardinality(LetInAt(p, h, a, Window) \cup {c})
      BY <3>3, <3>4, FS_Subset
    <3>6. /\ Cardinality(LetInAt(p, h, a, Window)') \in Nat
          /\ Cardinality(LetInAt(p, h, a, Window)) \in Nat
          /\ Cardinality(LetInAt(p, h, a, Window) \cup {c}) \in Nat
      BY <3>3, <3>4, LetInFinite, FS_Subset, FS_CardinalityType
    <3> QED BY <3>2, <3>4, <3>5, <3>6, LimitType
  <2>3. CASE ~ (p = home[c] /\ h = q.handler /\ a = q.client /\ settings.environment # "test")
    <3>1. LetInAt(p, h, a, Window)' = LetInAt(p, h, a, Window)
      BY <1>4, <1>5, <1>6, <2>3 DEF LetInAt, LetIn
    <3> QED BY <2>1, <3>1
  <2> QED BY <2>2, <2>3
<1>11. BlocksHaveReason'
  <2> SUFFICES ASSUME NEW p \in Processes, NEW h \in Handlers, NEW a \in Clients,
                      NEW b \in 1 .. Window, block[p][<<h, a>>] = b
               PROVE  Cardinality(LetInAt(p, h, a, 2 * Window - b)') >= Limit(<<h, a>>)
    BY <1>1 DEF BlocksHaveReason
  <2> DEFINE n == 2 * Window - b
  <2>1. Cardinality(LetInAt(p, h, a, n)) >= Limit(<<h, a>>)
    BY DEF IndInv, Counts, BlocksHaveReason
  <2>2. n \in Nat /\ n <= Old
    BY OldIsOld
  <2> HIDE DEF n
  <2>3. LetInAt(p, h, a, n) \subseteq LetInAt(p, h, a, n)'
    BY <1>4, <1>5, <1>6, <2>2, OldIsOld DEF LetInAt, LetIn
  <2>4. IsFiniteSet(LetInAt(p, h, a, n)')
    <3>1. LetInAt(p, h, a, n)' \subseteq Calls
      BY DEF LetInAt, LetIn
    <3> QED BY <3>1, CallsAssumption, FS_Subset
  <2>5. Cardinality(LetInAt(p, h, a, n)) <= Cardinality(LetInAt(p, h, a, n)')
    BY <2>3, <2>4, FS_Subset
  <2>6. Cardinality(LetInAt(p, h, a, n)') \in Nat /\ Cardinality(LetInAt(p, h, a, n)) \in Nat
    BY <2>4, LetInFinite, FS_CardinalityType
  <2>7. Cardinality(LetInAt(p, h, a, n)') >= Limit(<<h, a>>)
    BY <2>1, <2>5, <2>6, LimitType
  <2> QED BY <2>7 DEF n
<1>12. Cleared'
  <2>1. ClearedSoFar(c)'
    BY <1>1, <1>2, <1>3, <1>4
       DEF IndInv, Cleared, ClearedSoFar, Vetted, InProgress, Statuses, DocumentRuns
  <2> QED BY <1>4, <2>1 DEF Cleared
<1> QED BY <1>7, <1>8, <1>9, <1>10, <1>11, <1>12 DEF IndInv, Counts

LEMMA FinishKeeps ==
  ASSUME IndInv, NEW c \in Calls, Finish(c)
  PROVE  IndInv'
<1>1. PICK s \in Statuses : stage[c] = "handling" /\ Move(c, s) /\ UNCHANGED <<hits, age, block, tokens>>
  BY StatusValues DEF Finish, Throws, FindAllThrows, FindOneThrows, CheckThrows, Statuses, throttler
<1>2. /\ stage' \in [Calls -> {"idle", "dropped"} \cup InProgress \cup Statuses]
      /\ stage'[c] = s /\ \A d \in Calls \ {c} : stage'[d] = stage[d]
      /\ UNCHANGED <<begun, revoked, expired, subject, verdict>>
      /\ UNCHANGED <<settings, process, request, home>>
      /\ \A d \in Calls \ {c} : ClearedSoFar(d)'
  BY <1>1, MoveKeeps
<1>3. TypeOK'
  BY <1>1, <1>2 DEF IndInv, TypeOK
<1>4. Placed'
  BY <1>1, <1>2 DEF IndInv, Placed, InProgress, Statuses
<1>5. Counts'
  <2>1. HitsAreRecent'
    BY <1>1, <1>2 DEF IndInv, Counts, HitsAreRecent
  <2> QED BY <1>1, <1>2, <2>1, CountsKept DEF IndInv
<1>6. Cleared'
  BY <1>2 DEF Cleared, ClearedSoFar, InProgress, Statuses
<1> QED BY <1>3, <1>4, <1>5, <1>6 DEF IndInv

LEMMA TickKeeps ==
  ASSUME IndInv, Tick
  PROVE  IndInv'
<1>1. /\ age' = [c \in Calls |-> Older(age[c])]
      /\ hits' = {c \in hits : Older(age[c]) < Window}
      /\ block' = [p \in Processes |-> [k \in Keys |-> Less(block[p][k])]]
      /\ UNCHANGED <<settings, process, stage, request, home>>
      /\ UNCHANGED <<begun, revoked, expired, subject, verdict>>
  BY DEF Tick, calls, tokens
<1>2. TypeOK
  BY DEF IndInv
<1>3. ASSUME NEW c \in Calls
      PROVE  /\ age[c] \in 0 .. Old /\ age'[c] \in 0 .. Old
             /\ age[c] = Old => age'[c] = Old
             /\ age[c] # Old => age'[c] = age[c] + 1
  <2>1. age'[c] = Older(age[c]) /\ age[c] \in 0 .. Old
    BY <1>1, <1>2 DEF TypeOK
  <2> QED BY <2>1, OldIsOld DEF Older
<1>4. ASSUME NEW p \in Processes, NEW k \in Keys
      PROVE  /\ block[p][k] \in 0 .. Window /\ block'[p][k] \in 0 .. Window
             /\ block'[p][k] # 0 => block[p][k] = block'[p][k] + 1
  <2>1. block'[p][k] = Less(block[p][k])
    BY <1>1
  <2>2. block[p][k] \in 0 .. Window
    BY <1>2 DEF TypeOK
  <2> QED BY <2>1, <2>2, OldIsOld DEF Less
<1>5. TypeOK'
  <2>1. age' \in [Calls -> 0 .. Old]
    BY <1>1, <1>3
  <2>2. block' \in [Processes -> [Keys -> 0 .. Window]]
    <3>1. \A p \in Processes, k \in Keys : Less(block[p][k]) \in 0 .. Window
      BY <1>1, <1>4
    <3> QED BY <1>1, <3>1
  <2>3. hits' \subseteq Calls
    BY <1>1, <1>2 DEF TypeOK
  <2> QED BY <1>1, <1>2, <2>1, <2>2, <2>3 DEF TypeOK
<1>6. Placed'
  BY <1>1, <1>3 DEF IndInv, Placed
<1>7. HitsAreRecent'
  <2> SUFFICES ASSUME NEW c \in Calls
               PROVE  c \in hits' <=> /\ home[c] \in Processes /\ process[home[c]] = "up"
                                      /\ age'[c] < Window
    BY <1>1 DEF HitsAreRecent
  <2>1. c \in hits' <=> c \in hits /\ age'[c] < Window
    BY <1>1
  <2>2. age'[c] < Window => age[c] < Window
    BY <1>3, OldIsOld
  <2> QED BY <2>1, <2>2 DEF IndInv, Counts, HitsAreRecent
<1>8. WithinLimit'
  <2> SUFFICES ASSUME NEW p \in Processes, NEW h \in Handlers, NEW a \in Clients
               PROVE  Cardinality(LetInAt(p, h, a, Window)') <= Limit(<<h, a>>)
    BY DEF WithinLimit
  <2>1. LetInAt(p, h, a, Window)' \subseteq LetInAt(p, h, a, Window)
    <3>1. \A c \in Calls : age'[c] < Window => age[c] < Window
      BY <1>3, OldIsOld
    <3> QED BY <1>1, <3>1 DEF LetInAt, LetIn
  <2>2. /\ Cardinality(LetInAt(p, h, a, Window)') <= Cardinality(LetInAt(p, h, a, Window))
        /\ Cardinality(LetInAt(p, h, a, Window)') \in Nat
        /\ Cardinality(LetInAt(p, h, a, Window)) \in Nat
    BY <2>1, LetInFinite, FS_Subset, FS_CardinalityType
  <2>3. Cardinality(LetInAt(p, h, a, Window)) <= Limit(<<h, a>>)
    BY DEF IndInv, Counts, WithinLimit
  <2> QED BY <2>2, <2>3, LimitType
<1>9. BlocksHaveReason'
  <2> SUFFICES ASSUME NEW p \in Processes, NEW h \in Handlers, NEW a \in Clients,
                      NEW b \in 1 .. Window, block'[p][<<h, a>>] = b
               PROVE  Cardinality(LetInAt(p, h, a, 2 * Window - b)') >= Limit(<<h, a>>)
    BY DEF BlocksHaveReason
  <2> DEFINE n == 2 * Window - b
             m == 2 * Window - (b + 1)
  <2>1. block[p][<<h, a>>] = b + 1 /\ b + 1 \in 1 .. Window
    BY <1>4, OldIsOld DEF Keys
  <2>2. Cardinality(LetInAt(p, h, a, m)) >= Limit(<<h, a>>)
    BY <2>1 DEF IndInv, Counts, BlocksHaveReason
  <2>3. m \in Nat /\ n = m + 1 /\ n <= Old
    BY <2>1, OldIsOld
  <2> HIDE DEF m, n
  <2>4. LetInAt(p, h, a, m) \subseteq LetInAt(p, h, a, n)'
    <3>1. \A c \in Calls : age[c] < m => age'[c] < n
      BY <1>3, <2>3, OldIsOld
    <3> QED BY <1>1, <3>1 DEF LetInAt, LetIn
  <2>5. LetInAt(p, h, a, n)' \subseteq Calls
    BY DEF LetInAt, LetIn
  <2>6. /\ Cardinality(LetInAt(p, h, a, m)) <= Cardinality(LetInAt(p, h, a, n)')
        /\ Cardinality(LetInAt(p, h, a, n)') \in Nat
        /\ Cardinality(LetInAt(p, h, a, m)) \in Nat
    BY <2>4, <2>5, CallsAssumption, FS_Subset, FS_CardinalityType
  <2>7. Cardinality(LetInAt(p, h, a, n)') >= Limit(<<h, a>>)
    BY <2>2, <2>6, LimitType
  <2> QED BY <2>7 DEF n
<1>10. Cleared'
  BY <1>1, StaysCleared DEF IndInv, Cleared
<1> QED BY <1>5, <1>6, <1>7, <1>8, <1>9, <1>10 DEF IndInv, Counts

LEMMA StartKeeps ==
  ASSUME IndInv, NEW p \in Processes, Start(p)
  PROVE  IndInv'
<1>1. /\ process[p] = "new" /\ process' = [process EXCEPT ![p] = "up"]
      /\ UNCHANGED <<settings, stage, request, home, hits, age, block>>
      /\ UNCHANGED <<begun, revoked, expired, subject, verdict>>
  BY DEF Start, calls, throttler, tokens
<1>2. TypeOK
  BY DEF IndInv
<1>3. /\ process' \in [Processes -> {"new", "up", "ended"}] /\ process'[p] = "up"
      /\ \A r \in Processes \ {p} : process'[r] = process[r]
  BY <1>1, <1>2 DEF TypeOK
<1>4. TypeOK'
  BY <1>1, <1>2, <1>3 DEF TypeOK
<1>5. Placed'
  BY <1>1, <1>3 DEF IndInv, Placed, InProgress
<1>6. Counts'
  <2>1. HitsAreRecent'
    <3>1. ASSUME NEW c \in Calls, home[c] = p PROVE age[c] = Old
      BY <1>1, <3>1, NamesAssumption DEF IndInv, Placed
    <3> QED BY <1>1, <1>3, <3>1, OldIsOld DEF IndInv, Counts, HitsAreRecent
  <2> QED BY <1>1, <1>2, <2>1, CountsKept DEF IndInv
<1>7. Cleared'
  BY <1>1, StaysCleared DEF IndInv, Cleared
<1> QED BY <1>4, <1>5, <1>6, <1>7 DEF IndInv

LEMMA StopKeeps ==
  ASSUME IndInv, NEW p \in Processes, Stop(p)
  PROVE  IndInv'
<1>1. /\ process[p] = "up" /\ process' = [process EXCEPT ![p] = "ended"]
      /\ stage' = [c \in Calls |-> IF home[c] = p /\ stage[c] \in InProgress
                                   THEN "dropped" ELSE stage[c]]
      /\ hits' = {c \in hits : home[c] # p}
      /\ block' = [block EXCEPT ![p] = [k \in Keys |-> 0]]
      /\ UNCHANGED <<settings, request, home, age>>
  BY DEF Stop
<1> DEFINE gone == {c \in Calls : home[c] = p /\ stage[c] = "checking"}
<1>2. /\ verdict' = [c \in Calls |-> IF c \in gone THEN "dropped" ELSE verdict[c]]
      /\ UNCHANGED <<begun, revoked, expired, subject>>
  BY DEF Stop, Register!Drop, Register!register
<1>3. TypeOK
  BY DEF IndInv
<1>4. /\ process' \in [Processes -> {"new", "up", "ended"}] /\ process'[p] = "ended"
      /\ \A r \in Processes \ {p} : process'[r] = process[r]
  BY <1>1, <1>3 DEF TypeOK
<1>5. \A r \in Processes, k \in Keys : block'[r][k] = IF r = p THEN 0 ELSE block[r][k]
  BY <1>1, <1>3 DEF TypeOK
<1>6. TypeOK'
  <2>1. stage' \in [Calls -> {"idle", "dropped"} \cup InProgress \cup Statuses]
    BY <1>1, <1>3 DEF TypeOK
  <2>2. verdict' \in [Calls -> {"none", "asked", "passed", "unchecked", "stopped", "dropped"}]
    BY <1>2, <1>3 DEF TypeOK
  <2>3. block' \in [Processes -> [Keys -> 0 .. Window]]
    <3>1. [k \in Keys |-> 0] \in [Keys -> 0 .. Window]
      BY OldIsOld
    <3> QED BY <1>1, <1>3, <3>1 DEF TypeOK
  <2> QED BY <1>1, <1>2, <1>3, <1>4, <2>1, <2>2, <2>3 DEF TypeOK
<1>7. Placed'
  <2>1. ASSUME NEW c \in Calls
        PROVE  /\ stage'[c] = "idle" => stage[c] = "idle"
               /\ stage'[c] \in InProgress => stage'[c] = stage[c] /\ home[c] # p
               /\ stage'[c] # "idle" => stage[c] # "idle"
    BY <1>1 DEF InProgress
  <2> QED BY <1>1, <1>4, <2>1 DEF IndInv, Placed, InProgress
<1>8. Counts'
  <2>1. HitsAreRecent'
    BY <1>1, <1>4 DEF IndInv, Counts, HitsAreRecent
  <2> QED BY <1>1, <1>3, <1>5, <2>1, CountsKept DEF IndInv
<1>9. Cleared'
  <2> SUFFICES ASSUME NEW d \in Calls PROVE ClearedSoFar(d)'
    BY DEF Cleared
  <2>1. CASE d \in gone
    <3>1. stage'[d] = "dropped"
      BY <1>1, <2>1 DEF InProgress
    <3> QED BY <3>1 DEF ClearedSoFar, InProgress
  <2>2. CASE d \notin gone
    <3>1. verdict'[d] = verdict[d]
      BY <1>2, <2>2
    <3>2. stage'[d] = stage[d] \/ stage'[d] \notin InProgress
      BY <1>1 DEF InProgress
    <3> QED BY <1>1, <1>2, <3>1, <3>2, StaysCleared DEF IndInv, Cleared
  <2> QED BY <2>1, <2>2
<1> QED BY <1>6, <1>7, <1>8, <1>9 DEF IndInv

LEMMA RevocationKeeps ==
  ASSUME IndInv, NEW t \in Tokens, Revocation(t)
  PROVE  IndInv'
<1>1. /\ UNCHANGED <<settings, process, stage, request, home, hits, age, block>>
      /\ UNCHANGED <<subject, verdict>>
  BY DEF Revocation, calls, throttler, Register!Begin, Register!Acknowledge, Register!Expire,
     Register!checks
<1>2. /\ begun' \subseteq begun \cup {t} /\ revoked' \subseteq revoked \cup {t}
      /\ expired \subseteq expired' /\ expired' \subseteq expired \cup {t}
  BY DEF Revocation, Register!Begin, Register!Acknowledge, Register!Expire
<1>3. TypeOK'
  BY <1>1, <1>2 DEF IndInv, TypeOK
<1>4. Placed'
  BY <1>1 DEF IndInv, Placed
<1>5. Counts'
  <2>1. HitsAreRecent'
    BY <1>1 DEF IndInv, Counts, HitsAreRecent
  <2> QED BY <1>1, <2>1, CountsKept DEF IndInv
<1>6. Cleared'
  BY <1>1, <1>2, StaysCleared DEF IndInv, Cleared
<1> QED BY <1>3, <1>4, <1>5, <1>6 DEF IndInv

\* A step that changes nothing keeps everything.
LEMMA StutterKeeps ==
  ASSUME IndInv, UNCHANGED vars
  PROVE  IndInv'
<1>1. /\ UNCHANGED <<settings, process, stage, request, home, hits, age, block>>
      /\ UNCHANGED <<begun, revoked, expired, subject, verdict>>
  BY DEF vars, calls, throttler, tokens
<1>2. TypeOK' /\ Placed'
  BY <1>1 DEF IndInv, TypeOK, Placed
<1>3. Counts'
  <2>1. HitsAreRecent'
    BY <1>1 DEF IndInv, Counts, HitsAreRecent
  <2> QED BY <1>1, <2>1, CountsKept DEF IndInv
<1>4. Cleared'
  BY <1>1, StaysCleared DEF IndInv, Cleared
<1> QED BY <1>2, <1>3, <1>4 DEF IndInv

LEMMA NextKeeps == IndInv /\ [Next]_vars => IndInv'
<1> SUFFICES ASSUME IndInv, [Next]_vars PROVE IndInv'
  OBVIOUS
<1>1. ASSUME NEW c \in Calls, NEW q \in Requests[c], NEW p \in Processes, Arrive(c, q, p)
      PROVE  IndInv'
  BY <1>1, ArriveKeeps
<1>2. ASSUME NEW c \in Calls, Checked(c) PROVE IndInv'
  BY <1>2, CheckedKeeps
<1>3. ASSUME NEW c \in Calls, Refuse(c) PROVE IndInv'
  BY <1>3, RefuseKeeps
<1>4. ASSUME NEW c \in Calls, Admit(c) PROVE IndInv'
  BY <1>4, AdmitKeeps
<1>5. ASSUME NEW c \in Calls, Finish(c) PROVE IndInv'
  BY <1>5, FinishKeeps
<1>6. CASE Tick
  BY <1>6, TickKeeps
<1>7. ASSUME NEW p \in Processes, Start(p) PROVE IndInv'
  BY <1>7, StartKeeps
<1>8. ASSUME NEW p \in Processes, Stop(p) PROVE IndInv'
  BY <1>8, StopKeeps
<1>9. ASSUME NEW t \in Tokens, Revocation(t) PROVE IndInv'
  BY <1>9, RevocationKeeps
<1>10. CASE UNCHANGED vars
  BY <1>10, StutterKeeps
<1> QED BY <1>1, <1>2, <1>3, <1>4, <1>5, <1>6, <1>7, <1>8, <1>9, <1>10 DEF Next

-----------------------------------------------------------------------------
(* The theorems. *)

\* The invariant holds of every state of the pipeline.
THEOREM Invariance == Spec => []IndInv
BY InitInv, NextKeeps, PTL DEF Spec

\* Every variable of the pipeline keeps its type.
THEOREM Typing == Spec => []TypeOK
<1>1. IndInv => TypeOK
  BY DEF IndInv
<1> QED BY <1>1, Invariance, PTL

\* However many processes and clients there are, and whatever restarts: within
\* a window a client gets at most the limit from each process its calls came to.
THEOREM LimitsHoldPerProcess == Spec => []FleetLimit
<1>1. IndInv => FleetLimit
  <2> SUFFICES ASSUME IndInv, NEW h \in Handlers, NEW a \in Clients
               PROVE  LET recent == LetIn(h, a, Window)
                      IN  Cardinality(recent)
                            <= Limit(<<h, a>>) * Cardinality({home[c] : c \in recent})
    BY DEF FleetLimit
  <2> DEFINE recent == LetIn(h, a, Window)
  <2>1. recent \subseteq Calls /\ IsFiniteSet(recent)
    <3>1. recent \subseteq Calls
      BY DEF LetIn
    <3> QED BY <3>1, CallsAssumption, FS_Subset
  <2>2. ASSUME NEW p \in {home[c] : c \in recent}
        PROVE  Cardinality({c \in recent : home[c] = p}) <= Limit(<<h, a>>)
    <3>1. p \in Processes
      BY OldIsOld DEF IndInv, Placed, TypeOK, LetIn
    <3>2. {c \in recent : home[c] = p} = LetInAt(p, h, a, Window)
      BY DEF LetInAt
    <3> QED BY <3>1, <3>2 DEF IndInv, Counts, WithinLimit
  <2>3. Limit(<<h, a>>) \in Nat
    BY LimitType
  <2> HIDE DEF recent
  <2>4. Cardinality(recent) <= Limit(<<h, a>>) * Cardinality({home[c] : c \in recent})
    BY <2>1, <2>2, <2>3, ClassesBound
  <2> QED BY <2>4 DEF recent
<1> QED BY <1>1, Invariance, PTL

\* Whoever runs a handler passed the whole chain, in whatever order tokens are
\* revoked, checks answer and processes end.
THEOREM HandlersAreGuarded == Spec => []HandledWasAllowed
<1>1. IndInv => HandledWasAllowed
  <2> SUFFICES ASSUME IndInv PROVE HandledWasAllowed
    OBVIOUS
  <2>1. ASSUME NEW c \in Calls, stage[c] = "handling"
        PROVE  /\ DocumentRuns(request[c]) /\ HasAllPermissions(request[c])
               /\ settings.federation /\ ~ IsPublic(request[c].handler) => Vetted(c)
               /\ request[c] \in Request
    BY <2>1 DEF IndInv, Placed, Cleared, ClearedSoFar, InProgress
  <2>2. ASSUME NEW q \in Request, DocumentRuns(q), settings.environment = "production"
        PROVE  q.depth <= MaxDepth /\ q.complexity <= MaxComplexity
    BY <2>2 DEF DocumentRuns
  <2>3. ASSUME NEW q \in Request, HasAllPermissions(q), q.handler = "getAuditLogs"
        PROVE  q.carries \in Tokens \cup {"plain"} /\ "audit:read" \in q.grants
    BY <2>3 DEF HasAllPermissions, RequiredPermissions
  <2>4. ASSUME NEW c \in Calls, Vetted(c)
        PROVE  /\ request[c].carries \in Tokens \cup {"plain"}
               /\ request[c].carries \in Tokens =>
                    \/ verdict[c] = "unchecked"
                    \/ verdict[c] = "passed"
                         /\ (subject[c].late => request[c].carries \in expired)
    BY <2>4, NamesAssumption DEF Vetted, NoToken
  <2> QED BY <2>1, <2>2, <2>3, <2>4 DEF HandledWasAllowed
<1> QED BY <1>1, Invariance, PTL

\* Only the throttler answers 429, and never without the calls that reached the
\* limit: a block does not feed on refused calls or on other callers'.
THEOREM RefusalsHaveReason == Spec => RefusedHadReason
<1> DEFINE Reason(c) ==
             LET h == request[c].handler
                 a == request[c].client
             IN  Cardinality({d \in LetIn(h, a, Old) : home[d] = home[c]}) >= Limit(<<h, a>>)
           Refusal == \A c \in Calls : stage'[c] = "429" /\ stage[c] # "429" => Reason(c)
<1>1. IndInv /\ [Next]_vars => [Refusal]_vars
  <2> SUFFICES ASSUME IndInv, Next, NEW c \in Calls, stage'[c] = "429", stage[c] # "429"
               PROVE  Reason(c)
    OBVIOUS
  <2>1. stage \in [Calls -> {"idle", "dropped"} \cup InProgress \cup Statuses]
    BY DEF IndInv, TypeOK
  <2>2. ASSUME NEW d \in Calls, NEW s, s # "429", stage' = [stage EXCEPT ![d] = s] PROVE FALSE
    BY <2>1, <2>2
  <2>3. ASSUME NEW d \in Calls, NEW q \in Requests[d], NEW p \in Processes, Arrive(d, q, p)
        PROVE  FALSE
    <3> DEFINE s == IF DocumentRuns(q) THEN CanActivate(q) ELSE Status("GraphQLError")
    <3>1. stage' = [stage EXCEPT ![d] = s]
      BY <2>3 DEF Arrive
    <3>2. s # "429"
      BY StatusValues DEF CanActivate
    <3> QED BY <2>2, <3>1, <3>2
  <2>4. ASSUME NEW d \in Calls, Checked(d) PROVE FALSE
    <3>1. \E s \in {"entering", "401"} : stage' = [stage EXCEPT ![d] = s]
      BY <2>4, StatusValues DEF Checked, Move
    <3> QED BY <2>2, <3>1
  <2>5. ASSUME NEW d \in Calls, Refuse(d) PROVE Reason(c)
    <3>1. stage' = [stage EXCEPT ![d] = "429"] /\ stage[d] = "entering" /\ Exceeded(d)
      BY <2>5, StatusValues DEF Refuse, Move
    <3>2. d = c
      BY <2>1, <3>1
    <3>3. LetInAt(home[c], request[c].handler, request[c].client, Old)
            = {e \in LetIn(request[c].handler, request[c].client, Old) : home[e] = home[c]}
      BY DEF LetInAt
    <3> QED BY <3>1, <3>2, <3>3, ExceededHasReason
  <2>6. ASSUME NEW d \in Calls, Admit(d) PROVE FALSE
    <3>1. \E s \in {"403", "400", "handling"} : stage' = [stage EXCEPT ![d] = s]
      BY <2>6, StatusValues DEF Admit, Move
    <3> QED BY <2>2, <3>1
  <2>7. ASSUME NEW d \in Calls, Finish(d) PROVE FALSE
    <3>1. \E s \in Statuses \ {"429"} : stage' = [stage EXCEPT ![d] = s]
      BY <2>7, StatusValues
         DEF Finish, Move, Throws, FindAllThrows, FindOneThrows, CheckThrows, Statuses
    <3> QED BY <2>2, <3>1
  <2>8. CASE Tick \/ \E p \in Processes : Start(p)
    BY <2>8 DEF Tick, Start, calls
  <2>9. ASSUME NEW p \in Processes, Stop(p) PROVE FALSE
    BY <2>9 DEF Stop
  <2>10. ASSUME NEW t \in Tokens, Revocation(t) PROVE FALSE
    BY <2>10 DEF Revocation, calls
  <2> QED BY <2>3, <2>4, <2>5, <2>6, <2>7, <2>8, <2>9, <2>10 DEF Next
<1> QED BY <1>1, Invariance, PTL DEF Spec, RefusedHadReason

-----------------------------------------------------------------------------
(* The pipeline and the register of revocations. *)

\* What the register says of tokens and checks, whoever uses it: an acknowledged
\* revoke was begun, and a late check never passes while its token lives.
RevocationHolds ==
  /\ revoked \subseteq begun
  /\ \A c \in Calls :
       /\ verdict[c] # "none" /\ subject[c].late => subject[c].token \in revoked
       /\ verdict[c] = "passed" /\ subject[c].late => subject[c].token \in expired
       /\ verdict[c] = "stopped" => subject[c].token \in begun

\* What the register keeps of its checks.
RegisterInv ==
  /\ subject \in [Calls -> [token : Tokens, late : BOOLEAN] \cup {None}]
  /\ DOMAIN verdict = Calls
  /\ RevocationHolds

\* A step of the register keeps it.
LEMMA RegisterStep ==
  ASSUME RegisterInv, [Register!Next]_(Register!vars)
  PROVE  RegisterInv'
<1> USE DEF RegisterInv, RevocationHolds, Register!register, Register!checks
<1>1. CASE UNCHANGED Register!vars
  BY <1>1 DEF Register!vars
<1>2. ASSUME NEW t \in Tokens, Register!Begin(t) \/ Register!Acknowledge(t)
      PROVE  RegisterInv'
  BY <1>2 DEF Register!Begin, Register!Acknowledge
<1>3. ASSUME NEW t \in Tokens, NEW c \in Calls, Register!Ask(c, t)
      PROVE  RegisterInv'
  <2> DEFINE new == [token |-> t, late |-> t \in revoked]
  <2>1. /\ subject' = [subject EXCEPT ![c] = new]
        /\ verdict' = [verdict EXCEPT ![c] = "asked"]
        /\ UNCHANGED <<begun, revoked, expired>>
    BY <1>3 DEF Register!Ask
  <2>2. (t \in revoked) \in BOOLEAN
    OBVIOUS
  <2>3. /\ new \in [token : Tokens, late : BOOLEAN] /\ new.token = t
        /\ new.late => t \in revoked
    BY <2>2
  <2> HIDE DEF new
  <2> QED BY <2>1, <2>3
<1>4. ASSUME NEW S \in SUBSET Tokens, Register!Expire(S)
      PROVE  RegisterInv'
  BY <1>4 DEF Register!Expire
<1>5. ASSUME NEW c \in Calls,
             Register!Pass(c) \/ Register!PassUnchecked(c) \/ Register!Stop(c)
      PROVE  RegisterInv'
  BY <1>5 DEF Register!Pass, Register!PassUnchecked, Register!Stop, Register!Decide
<1>6. ASSUME NEW S \in SUBSET Calls, Register!Drop(S)
      PROVE  RegisterInv'
  BY <1>6 DEF Register!Drop
<1> QED BY <1>1, <1>2, <1>3, <1>4, <1>5, <1>6 DEF Register!Next

\* What every implementation of the register may be relied on for, whatever
\* keeps the tokens and whoever asks (TokenRevocationService).
THEOREM RegisterPromises == Register!Spec => []RevocationHolds
<1>1. Register!Init => RegisterInv
  BY DEF Register!Init, RegisterInv, RevocationHolds
<1>2. RegisterInv => RevocationHolds
  BY DEF RegisterInv
<1> QED BY <1>1, <1>2, RegisterStep, PTL DEF Register!Spec

\* A step of the pipeline is one of the register, or leaves it alone.
LEMMA PipelineStep == IndInv /\ [Next]_vars => [Register!Next]_(Register!vars)
<1> SUFFICES ASSUME IndInv, Next PROVE [Register!Next]_(Register!vars)
  BY DEF vars, tokens, Register!vars, Register!register, Register!checks
<1>1. UNCHANGED tokens => UNCHANGED Register!vars
  BY DEF tokens, Register!vars, Register!register, Register!checks
<1>2. ASSUME NEW c \in Calls, NEW q \in Requests[c], NEW p \in Processes, Arrive(c, q, p)
      PROVE  [Register!Next]_(Register!vars)
  <2>1. CASE stage'[c] = "checking"
    <3>1. Register!Ask(c, q.carries)
      BY <1>2, <2>1 DEF Arrive
    <3>2. q.carries \in Tokens
      <4>1. stage'[c] = IF DocumentRuns(q) THEN CanActivate(q) ELSE Status("GraphQLError")
        BY <1>2 DEF Arrive, IndInv, TypeOK
      <4> QED BY <2>1, <4>1, StatusValues DEF CanActivate
    <3> QED BY <3>1, <3>2 DEF Register!Next
  <2>2. CASE stage'[c] # "checking"
    BY <1>1, <1>2, <2>2 DEF Arrive
  <2> QED BY <2>1, <2>2
<1>3. ASSUME NEW c \in Calls, Checked(c)
      PROVE  [Register!Next]_(Register!vars)
  BY <1>3 DEF Checked, Register!Next
<1>4. ASSUME NEW c \in Calls, Refuse(c) \/ Admit(c) \/ Finish(c)
      PROVE  [Register!Next]_(Register!vars)
  BY <1>1, <1>4 DEF Refuse, Admit, Finish, tokens
<1>5. CASE Tick \/ \E p \in Processes : Start(p)
  BY <1>1, <1>5 DEF Tick, Start, tokens
<1>6. ASSUME NEW p \in Processes, Stop(p)
      PROVE  [Register!Next]_(Register!vars)
  <2>1. PICK S \in SUBSET Calls : Register!Drop(S)
    BY <1>6 DEF Stop
  <2> QED BY <2>1 DEF Register!Next
<1>7. ASSUME NEW t \in Tokens, Revocation(t)
      PROVE  [Register!Next]_(Register!vars)
  <2>1. {t} \in SUBSET Tokens
    OBVIOUS
  <2> QED BY <1>7, <2>1 DEF Revocation, Register!Next
<1> QED BY <1>2, <1>3, <1>4, <1>5, <1>6, <1>7 DEF Next

\* The guards of all calls together use the register as it is meant to be used:
\* the pipeline, restarts and dropped calls included, behaves as the register
\* that TokenRevocation implements.
THEOREM UsesRegister == Spec => Register!Spec
<1>1. Init => Register!Init
  BY DEF Init
<1> QED BY <1>1, PipelineStep, Invariance, PTL DEF Spec, Register!Spec

\* Hence no late check passes in the pipeline while its token lives, and nobody
\* is stopped whose token nobody set out to revoke.
THEOREM RevocationHoldsInPipeline == Spec => []RevocationHolds
BY UsesRegister, RegisterPromises, PTL
=============================================================================
