----------------------- MODULE PersonPaginationProofs -----------------------
(***************************************************************************)
(* Proofs about PersonPagination, for any table, any number of walks and   *)
(* of inserts under way, and any page sizes.                               *)
(*                                                                         *)
(* The listing is a total order, so a cursor splits it in two: what a walk *)
(* has returned is above the cursor, what it returns next below.  IndInv   *)
(* adds that nothing that was there at the start is lost in between: at    *)
(* every moment such a row was returned, or is below everything returned   *)
(* so far while more is promised.                                          *)
(***************************************************************************)
EXTENDS PersonPagination, FiniteSetTheorems, WellFoundedInduction, TLAPS

\* The walk w and the listing.
WalkInv(w) ==
  /\ phase[w] \in {"idle", "finding", "failed"} => page[w] = {}
  /\ phase[w] = "idle" => cursor[w] = None
  /\ \A q \in seen[w] : cursor[w] # None /\ (q = cursor[w] \/ Newer(q, cursor[w]))
  /\ \A p \in page[w] : cursor[w] # None => Newer(cursor[w], p)
  /\ phase[w] \in {"finding", "counting", "failed"} /\ cursor[w] # None =>
       /\ \A s \in start[w] : s \in seen[w] \/ Newer(cursor[w], s)
       /\ \E x \in rows : Newer(cursor[w], x)
  /\ phase[w] \in {"counting", "answered"} =>
       /\ \A s \in start[w] : \/ s \in seen[w] \cup page[w]
                              \/ more[w] /\ \A p \in page[w] : Newer(p, s)
       /\ more[w] => page[w] # {} /\ \E x \in rows : \A p \in page[w] : Newer(p, x)
       /\ cursor[w] # None => page[w] # {}
  /\ phase[w] = "answered" =>
       total[w] >= Cardinality(seen[w] \cup page[w]) + (IF more[w] THEN 1 ELSE 0)

IndInv == /\ TypeOK /\ IsFiniteSet(rows)
          /\ \A w \in Walkers : WalkInv(w)

-----------------------------------------------------------------------------
\* orderBy createdAt desc, id desc is a strict total order on rows.
LEMMA NewerIsTotalOrder ==
  /\ \A a \in Row : ~ Newer(a, a)
  /\ \A a, b, c \in Row : Newer(a, b) /\ Newer(b, c) => Newer(a, c)
  /\ \A a, b \in Row : a = b \/ Newer(a, b) \/ Newer(b, a)
<1>1. \A a \in Row : a.id \in Nat /\ a.createdAt \in Nat
  BY IdsAssumption DEF Row
<1>2. \A a, b \in Row : a.id = b.id /\ a.createdAt = b.createdAt => a = b
  BY DEF Row
<1>3. \A a \in Row : ~ Newer(a, a)
  BY <1>1 DEF Newer
<1>4. \A a, b, c \in Row : Newer(a, b) /\ Newer(b, c) => Newer(a, c)
  BY <1>1 DEF Newer
<1>5. \A a, b \in Row : a = b \/ Newer(a, b) \/ Newer(b, a)
  BY <1>1, <1>2 DEF Newer
<1> QED BY <1>3, <1>4, <1>5

\* A non-empty set of numbers has a least member.
LEMMA LeastExists ==
  ASSUME NEW T, T \subseteq Nat, T # {}
  PROVE  \E x \in T : \A y \in T : x <= y
<1> DEFINE LT == OpToRel(<, Nat)
<1>1. \A x, y \in Nat : <<y, x>> \in LT <=> y < x
  BY DEF OpToRel
<1>2. IsWellFoundedOn(LT, Nat)
  BY NatLessThanWellFounded
<1> HIDE DEF LT
<1>3. PICK x \in T : \A y \in T : ~ (<<y, x>> \in LT)
  BY <1>2, WFMin
<1>4. \A y \in T : ~ (y < x)
  BY <1>1, <1>3
<1>5. \A y \in T : x \in Nat /\ y \in Nat
  OBVIOUS
<1>6. \A y \in T : x <= y
  BY <1>4, <1>5
<1> QED BY <1>6

\* A non-empty page has a last item.
LEMMA LastExists ==
  ASSUME NEW S, S \subseteq Row, S # {}
  PROVE  Last(S) \in S /\ \A s \in S \ {Last(S)} : Newer(s, Last(S))
<1> DEFINE Times == {r.createdAt : r \in S}
<1>1. Times \subseteq Nat /\ Times # {}
  BY DEF Row
<1>2. PICK t \in Times : \A u \in Times : t <= u
  BY <1>1, LeastExists
<1> DEFINE Oldest == {r \in S : r.createdAt = t}
           OldestIds == {r.id : r \in Oldest}
<1>3. OldestIds \subseteq Nat /\ OldestIds # {}
  BY <1>2, IdsAssumption DEF Row
<1>4. PICK i \in OldestIds : \A k \in OldestIds : i <= k
  BY <1>3, LeastExists
<1>5. PICK r \in S : r.createdAt = t /\ r.id = i
  BY <1>4
<1>6. \A s \in S \ {r} : Newer(s, r)
  <2> SUFFICES ASSUME NEW s \in S, s # r PROVE Newer(s, r)
    OBVIOUS
  <2>1. s \in Row /\ r \in Row /\ t <= s.createdAt
    BY <1>2
  <2>2. s.createdAt = t => i <= s.id
    BY <1>4
  <2>3. r.id = i /\ r.createdAt = t /\ s.id \in Nat /\ s.createdAt \in Nat /\ i \in Nat /\ t \in Nat
    BY <1>5, <2>1, IdsAssumption DEF Row
  <2>4. ~ Newer(r, s)
    BY <2>1, <2>2, <2>3 DEF Newer
  <2> QED BY <2>1, <2>4, NewerIsTotalOrder
<1> QED BY <1>6 DEF Last

\* What findMany leaves of the rows behind a cursor: the items of the page and
\* hasMore, whatever is behind it.
LEMMA TopOfListing ==
  ASSUME NEW S, S \subseteq Row, IsFiniteSet(S),
         NEW top, NEW first \in Nat \ {0}, IsTop(top, first + 1, S)
  PROVE  /\ Items(top, first) \subseteq S
         /\ \A s \in S : \/ s \in Items(top, first)
                         \/ HasMore(top, first) /\ \A p \in Items(top, first) : Newer(p, s)
         /\ HasMore(top, first) =>
              /\ Items(top, first) # {}
              /\ \E x \in S : \A p \in Items(top, first) : Newer(p, x)
         /\ S # {} => Items(top, first) # {}
<1> DEFINE items == Items(top, first)
<1>1. top \subseteq S /\ IsFiniteSet(top) /\ Cardinality(top) \in Nat /\ Cardinality(S) \in Nat
  BY FS_Subset, FS_CardinalityType DEF IsTop
<1>2. CASE ~ HasMore(top, first)
  <2>1. top = S
    BY <1>1, <1>2 DEF HasMore, IsTop
  <2> QED BY <1>2, <2>1 DEF Items
<1>3. CASE HasMore(top, first)
  <2>1. items = top \ {Last(top)} /\ top # {}
    BY <1>1, <1>3, FS_EmptySet DEF HasMore, Items
  <2>2. Last(top) \in top /\ \A p \in items : Newer(p, Last(top))
    BY <1>1, <2>1, LastExists
  <2>3. items # {}
    <3>1. Cardinality(items) = Cardinality(top) - 1
      BY <1>1, <2>1, <2>2, FS_RemoveElement
    <3>2. Cardinality(items) > 0
      BY <1>1, <1>3, <3>1 DEF HasMore
    <3> QED BY <3>2, FS_EmptySet
  <2>4. \A s \in S : s \in items \/ \A p \in items : Newer(p, s)
    BY <2>1, <2>2 DEF IsTop
  <2>5. Last(top) \in S
    BY <1>1, <2>2
  <2> QED BY <1>1, <1>3, <2>1, <2>2, <2>3, <2>4, <2>5
<1> QED BY <1>2, <1>3

\* Before any walk the invariant holds.
LEMMA InitInv == Init => IndInv
<1> SUFFICES ASSUME Init PROVE IndInv
  OBVIOUS
<1>1. TypeOK
  BY OldRowsAssumption, BoundsAssumption DEF Init, TypeOK, Phases, Row
<1>2. IsFiniteSet(rows)
  BY OldRowsAssumption DEF Init
<1>3. \A w \in Walkers : WalkInv(w)
  BY DEF Init, WalkInv
<1> QED BY <1>1, <1>2, <1>3 DEF IndInv

\* Inserts and the clock leave the walks alone and only add rows.
LEMMA TableStep ==
  ASSUME IndInv,
         \/ \E i \in Inserters : Stamp(i) \/ \E id \in Ids : Commit(i, id)
         \/ Tick
  PROVE  IndInv'
<1> USE DEF IndInv, walk
<1>1. UNCHANGED walk /\ rows \subseteq rows'
  BY DEF Stamp, Commit, Tick
<1>2. rows' \subseteq Row /\ IsFiniteSet(rows')
  <2>1. CASE \E i \in Inserters, id \in Ids : Commit(i, id)
    <3>1. PICK i \in Inserters, id \in Ids : Commit(i, id)
      BY <2>1
    <3>2. stamped[i] \in Nat
      BY <3>1, BoundsAssumption DEF Commit, TypeOK
    <3>3. rows' = rows \cup {[id |-> id, createdAt |-> stamped[i]]}
      BY <3>1 DEF Commit
    <3>4. [id |-> id, createdAt |-> stamped[i]] \in Row
      BY <3>2 DEF Row
    <3>5. rows \subseteq Row
      BY DEF TypeOK
    <3>6. IsFiniteSet(rows')
      BY <3>3, FS_AddElement
    <3> QED BY <3>3, <3>4, <3>5, <3>6
  <2>2. CASE Tick \/ \E i \in Inserters : Stamp(i)
    BY <2>2 DEF Stamp, Tick, TypeOK
  <2> QED BY <2>1, <2>2
<1>3. clock' \in 0 .. MaxClock /\ stamped' \in [Inserters -> (0 .. MaxClock) \cup {None}]
  BY BoundsAssumption DEF Stamp, Commit, Tick, TypeOK
<1>4. TypeOK'
  BY <1>1, <1>2, <1>3 DEF TypeOK
<1>5. ASSUME NEW w \in Walkers PROVE WalkInv(w)'
  <2>1. WalkInv(w)
    OBVIOUS
  <2> QED BY <1>1, <2>1 DEF WalkInv
<1> QED BY <1>2, <1>4, <1>5

\* A walk that a step of another walk does not touch.
LEMMA OtherWalks ==
  ASSUME NEW v \in Walkers, WalkInv(v), UNCHANGED rows,
         phase'[v] = phase[v], cursor'[v] = cursor[v], page'[v] = page[v],
         more'[v] = more[v], total'[v] = total[v], seen'[v] = seen[v], start'[v] = start[v]
  PROVE  WalkInv(v)'
BY DEF WalkInv

\* The first request of a walk, and one that is made again.
LEMMA AskStep ==
  ASSUME IndInv, NEW w \in Walkers, NEW first \in 1 .. MaxFirst,
         Ask(w, first) \/ Repeat(w, first)
  PROVE  IndInv'
<1> USE DEF IndInv, table, Ask, Repeat
<1>1. TypeOK'
  BY BoundsAssumption DEF TypeOK, Phases
<1>2. phase'[w] = "finding" /\ \A v \in Walkers \ {w} : phase'[v] = phase[v]
  BY DEF TypeOK
<1>3. WalkInv(w)'
  BY <1>2 DEF WalkInv
<1>4. \A v \in Walkers \ {w} : WalkInv(v)'
  BY <1>2, OtherWalks
<1> QED BY <1>1, <1>3, <1>4

\* findMany: the page is the top of what lies behind the cursor.
LEMMA FindManyStep ==
  ASSUME IndInv, NEW w \in Walkers, FindMany(w)
  PROVE  IndInv'
<1> USE DEF IndInv, table
<1> DEFINE S == After(cursor[w])
           first == want[w]
<1>1. PICK top \in SUBSET S :
        /\ IsTop(top, first + 1, S)
        /\ more' = [more EXCEPT ![w] = HasMore(top, first)]
        /\ page' = [page EXCEPT ![w] = Items(top, first)]
  BY DEF FindMany
<1>2. /\ phase[w] = "finding" /\ phase' = [phase EXCEPT ![w] = "counting"]
      /\ start' = IF cursor[w] = None THEN [start EXCEPT ![w] = rows] ELSE start
      /\ UNCHANGED <<rows, clock, stamped, want, cursor, total, seen>>
  BY DEF FindMany
<1> DEFINE items == Items(top, first)
<1>3. S \subseteq rows /\ S \subseteq Row /\ IsFiniteSet(S)
  BY FS_Subset DEF After, TypeOK
<1>4. first \in Nat \ {0}
  BY BoundsAssumption DEF TypeOK
<1>5. /\ items \subseteq S
      /\ \A s \in S : \/ s \in items
                      \/ HasMore(top, first) /\ \A p \in items : Newer(p, s)
      /\ HasMore(top, first) =>
           items # {} /\ \E x \in S : \A p \in items : Newer(p, x)
      /\ S # {} => items # {}
  BY <1>1, <1>3, <1>4, TopOfListing
<1>6. more'[w] = HasMore(top, first) /\ page'[w] = items /\ phase'[w] = "counting"
  BY <1>1, <1>2 DEF TypeOK
<1> HIDE DEF items
<1>7. \A x \in S : cursor[w] # None => Newer(cursor[w], x)
  BY DEF After, Newer
<1>8. \A x \in rows : cursor[w] = None \/ Newer(cursor[w], x) => x \in S
  BY DEF After, Newer
<1>9. TypeOK'
  <2>1. page' \in [Walkers -> SUBSET rows] /\ more' \in [Walkers -> BOOLEAN]
    <3>1. Items(top, first) \in SUBSET rows /\ HasMore(top, first) \in BOOLEAN
      BY <1>3, <1>5 DEF items, HasMore
    <3> QED BY <1>1, <3>1 DEF TypeOK
  <2>2. start' \in [Walkers -> SUBSET rows] /\ phase' \in [Walkers -> Phases]
    BY <1>2 DEF TypeOK, Phases
  <2> QED BY <1>2, <2>1, <2>2 DEF TypeOK
<1>10. WalkInv(w)'
  <2>1. WalkInv(w)
    OBVIOUS
  <2>2. \A q \in seen[w] : cursor[w] # None /\ (q = cursor[w] \/ Newer(q, cursor[w]))
    BY <2>1 DEF WalkInv
  <2>3. \A s \in start'[w] : \/ s \in seen[w] \cup items
                             \/ HasMore(top, first) /\ \A p \in items : Newer(p, s)
    <3>1. CASE cursor[w] = None
      <4>1. start'[w] = rows
        BY <1>2, <3>1 DEF TypeOK
      <4> QED BY <3>1, <4>1, <1>5, <1>8
    <3>2. CASE cursor[w] # None
      <4>1. start'[w] = start[w] /\ start[w] \subseteq rows
        BY <1>2, <3>2 DEF TypeOK
      <4>2. \A s \in start[w] : s \in seen[w] \/ Newer(cursor[w], s)
        BY <1>2, <2>1, <3>2 DEF WalkInv
      <4> QED BY <4>1, <4>2, <1>5, <1>8
    <3> QED BY <3>1, <3>2
  <2>4. \A p \in items : cursor[w] # None => Newer(cursor[w], p)
    BY <1>5, <1>7
  <2>5. HasMore(top, first) => items # {} /\ \E x \in rows : \A p \in items : Newer(p, x)
    BY <1>3, <1>5
  <2>6. cursor[w] # None => items # {}
    <3> SUFFICES ASSUME cursor[w] # None PROVE items # {}
      OBVIOUS
    <3>1. \E x \in rows : Newer(cursor[w], x)
      BY <1>2, <2>1 DEF WalkInv
    <3> QED BY <3>1, <1>5, <1>8
  <2>7. cursor[w] # None =>
          /\ \A s \in start'[w] : s \in seen[w] \/ Newer(cursor[w], s)
          /\ \E x \in rows : Newer(cursor[w], x)
    BY <1>2, <2>1 DEF WalkInv, TypeOK
  <2> HIDE DEF first
  <2> QED BY <1>2, <1>6, <2>2, <2>3, <2>4, <2>5, <2>6, <2>7 DEF WalkInv
<1>11. \A v \in Walkers \ {w} : WalkInv(v)'
  <2> TAKE v \in Walkers \ {w}
  <2>1. /\ phase'[v] = phase[v] /\ page'[v] = page[v] /\ more'[v] = more[v]
        /\ start'[v] = start[v]
    BY <1>1, <1>2 DEF TypeOK
  <2> QED BY <1>2, <2>1, OtherWalks
<1> QED BY <1>2, <1>9, <1>10, <1>11

\* The count query comes after the page: rows only came since.
LEMMA CountStep ==
  ASSUME IndInv, NEW w \in Walkers, Count(w)
  PROVE  IndInv'
<1> USE DEF IndInv, table
<1>1. /\ phase[w] = "counting" /\ phase' = [phase EXCEPT ![w] = "answered"]
      /\ total' = [total EXCEPT ![w] = Cardinality(rows)]
      /\ UNCHANGED <<rows, clock, stamped, want, cursor, page, more, seen, start>>
  BY DEF Count
<1>2. Cardinality(rows) \in Nat
  BY FS_CardinalityType
<1>3. TypeOK'
  BY <1>1, <1>2 DEF TypeOK, Phases
<1>4. phase'[w] = "answered" /\ total'[w] = Cardinality(rows)
  BY <1>1 DEF TypeOK
<1> DEFINE got == seen[w] \cup page[w]
<1>5. got \subseteq rows /\ IsFiniteSet(got) /\ Cardinality(got) \in Nat
      /\ Cardinality(rows) >= Cardinality(got)
  BY <1>2, FS_Subset, FS_CardinalityType DEF TypeOK
<1>6. more[w] => Cardinality(rows) >= Cardinality(got) + 1
  <2> SUFFICES ASSUME more[w] PROVE Cardinality(rows) >= Cardinality(got) + 1
    OBVIOUS
  <2>1. PICK x \in rows : \A p \in page[w] : Newer(p, x)
    BY <1>1 DEF WalkInv
  <2>2. PICK p \in page[w] : Newer(p, x)
    BY <1>1, <2>1 DEF WalkInv
  <2>3. page[w] \subseteq Row /\ seen[w] \subseteq Row /\ x \in Row
    BY DEF TypeOK
  <2>4. x \notin page[w]
    BY <2>1, <2>3, NewerIsTotalOrder
  <2>5. x \notin seen[w]
    <3> SUFFICES ASSUME x \in seen[w] PROVE FALSE
      OBVIOUS
    <3>1. cursor[w] \in Row /\ (x = cursor[w] \/ Newer(x, cursor[w])) /\ Newer(cursor[w], p)
      BY DEF WalkInv, TypeOK
    <3> QED BY <2>2, <2>3, <3>1, NewerIsTotalOrder
  <2>6. Cardinality(got \cup {x}) = Cardinality(got) + 1
    BY <1>5, <2>4, <2>5, FS_AddElement
  <2>7. got \cup {x} \subseteq rows
    BY <1>5
  <2>8. Cardinality(got \cup {x}) <= Cardinality(rows)
    BY <2>7, FS_Subset
  <2> QED BY <1>2, <1>5, <2>6, <2>8
<1>7. WalkInv(w)'
  <2>1. WalkInv(w)
    OBVIOUS
  <2>2. more[w] \in BOOLEAN
    BY DEF TypeOK
  <2>3. total'[w] >= Cardinality(got) + (IF more[w] THEN 1 ELSE 0)
    BY <1>2, <1>4, <1>5, <1>6
  <2> QED BY <1>1, <1>4, <2>1, <2>3 DEF WalkInv
<1>8. \A v \in Walkers \ {w} : WalkInv(v)'
  <2> TAKE v \in Walkers \ {w}
  <2>1. phase'[v] = phase[v] /\ total'[v] = total[v]
    BY <1>1 DEF TypeOK
  <2> QED BY <1>1, <2>1, OtherWalks
<1> QED BY <1>1, <1>3, <1>7, <1>8

\* A request that fails leaves the walk where its last page left it.
LEMMA QueryFailsStep ==
  ASSUME IndInv, NEW w \in Walkers, QueryFails(w)
  PROVE  IndInv'
<1> USE DEF IndInv, table, QueryFails
<1>1. TypeOK'
  BY DEF TypeOK, Phases
<1>2. /\ phase'[w] = "failed" /\ page'[w] = {}
      /\ \A v \in Walkers \ {w} : phase'[v] = phase[v] /\ page'[v] = page[v]
  BY DEF TypeOK
<1>3. WalkInv(w)'
  BY <1>2 DEF WalkInv
<1>4. \A v \in Walkers \ {w} : WalkInv(v)'
  BY <1>2, OtherWalks
<1> QED BY <1>1, <1>3, <1>4

\* Following endCursor: the cursor moves to the last item, and everything the
\* walk has returned is above it.
LEMMA FollowStep ==
  ASSUME IndInv, NEW w \in Walkers, NEW first \in 1 .. MaxFirst,
         Follow(w, first)
  PROVE  IndInv'
<1> USE DEF IndInv, table
<1> DEFINE last == Last(page[w])
<1>1. /\ phase[w] = "answered" /\ more[w] /\ phase' = [phase EXCEPT ![w] = "finding"]
      /\ want' = [want EXCEPT ![w] = first]
      /\ cursor' = [cursor EXCEPT ![w] = DecodeCursor(EncodeCursor(page[w]))]
      /\ seen' = [seen EXCEPT ![w] = seen[w] \cup page[w]]
      /\ page' = [page EXCEPT ![w] = {}]
      /\ UNCHANGED <<rows, clock, stamped, more, total, start>>
  BY DEF Follow
<1>2. /\ page[w] # {} /\ page[w] \subseteq Row /\ seen[w] \subseteq Row
      /\ page[w] \subseteq rows /\ seen[w] \subseteq rows /\ start[w] \subseteq Row
  BY <1>1 DEF WalkInv, TypeOK
<1>3. last \in page[w] /\ \A p \in page[w] \ {last} : Newer(p, last)
  BY <1>2, LastExists
<1>4. DecodeCursor(EncodeCursor(page[w])) = last /\ last \in Row /\ last # None
  <2>1. last \in Row
    BY <1>2, <1>3
  <2>2. last = [createdAt |-> last.createdAt, id |-> last.id]
    BY <2>1 DEF Row
  <2> QED BY <2>1, <2>2, NoneAssumption DEF DecodeCursor, EncodeCursor
<1>5. TypeOK'
  <2>1. want' \in [Walkers -> 1 .. MaxFirst]
    BY <1>1, BoundsAssumption DEF TypeOK
  <2>2. cursor' \in [Walkers -> Row \cup {None}] /\ phase' \in [Walkers -> Phases]
    BY <1>1, <1>4 DEF TypeOK, Phases
  <2>3. seen' \in [Walkers -> SUBSET rows] /\ page' \in [Walkers -> SUBSET rows]
    BY <1>1, <1>2 DEF TypeOK
  <2> QED BY <1>1, <2>1, <2>2, <2>3 DEF TypeOK
<1>6. /\ phase'[w] = "finding" /\ cursor'[w] = last /\ page'[w] = {}
      /\ seen'[w] = seen[w] \cup page[w]
  BY <1>1, <1>4 DEF TypeOK
<1> HIDE DEF last
<1>7. WalkInv(w)'
  <2>1. \A q \in seen[w] \cup page[w] : q = last \/ Newer(q, last)
    <3>1. ASSUME NEW q \in seen[w] PROVE Newer(q, last)
      <4>1. cursor[w] \in Row /\ (q = cursor[w] \/ Newer(q, cursor[w])) /\ Newer(cursor[w], last)
        BY <1>3 DEF WalkInv, TypeOK
      <4> QED BY <1>2, <1>4, <4>1, NewerIsTotalOrder
    <3> QED BY <1>3, <3>1
  <2>2. \A s \in start[w] : s \in seen[w] \cup page[w] \/ Newer(last, s)
    BY <1>1, <1>3 DEF WalkInv
  <2>3. \E x \in rows : Newer(last, x)
    BY <1>1, <1>3 DEF WalkInv
  <2> QED BY <1>1, <1>4, <1>6, <2>1, <2>2, <2>3 DEF WalkInv
<1>8. \A v \in Walkers \ {w} : WalkInv(v)'
  <2> TAKE v \in Walkers \ {w}
  <2>1. /\ phase'[v] = phase[v] /\ cursor'[v] = cursor[v]
        /\ page'[v] = page[v] /\ seen'[v] = seen[v]
    BY <1>1 DEF TypeOK
  <2> QED BY <1>1, <2>1, OtherWalks
<1> QED BY <1>1, <1>5, <1>7, <1>8

\* Every step of the specification keeps the invariant.
THEOREM NextInv == IndInv /\ [Next]_vars => IndInv'
<1> SUFFICES ASSUME IndInv, [Next]_vars PROVE IndInv'
  OBVIOUS
<1>1. CASE UNCHANGED vars
  <2>1. \A w \in Walkers : WalkInv(w)'
    BY <1>1, OtherWalks DEF vars, table, walk, IndInv
  <2>2. TypeOK' /\ IsFiniteSet(rows')
    BY <1>1 DEF vars, table, walk, IndInv, TypeOK
  <2> QED BY <2>1, <2>2 DEF IndInv
<1> QED BY <1>1, TableStep, AskStep, FindManyStep, CountStep, QueryFailsStep, FollowStep DEF Next

\* The inductive invariant holds throughout.
THEOREM Invariance == Spec => []IndInv
BY InitInv, NextInv, PTL DEF Spec

-----------------------------------------------------------------------------
(* The results. *)

\* Every variable keeps its type; what a walk was given are rows of the table.
THEOREM Typing == Spec => []TypeOK
<1>1. IndInv => TypeOK
  BY DEF IndInv
<1> QED BY <1>1, Invariance, PTL

\* No row is returned twice and pages go down the listing (findMany's where
\* clause and order, with the cursor of the last item).
THEOREM WalksDescend == Spec => []PagesDescend
<1>1. IndInv => PagesDescend
  <2> SUFFICES ASSUME IndInv, NEW w \in Walkers, NEW p \in page[w], NEW q \in seen[w]
               PROVE  Newer(q, p)
    BY DEF PagesDescend
  <2>1. /\ p \in Row /\ q \in Row /\ cursor[w] \in Row
        /\ q = cursor[w] \/ Newer(q, cursor[w])
        /\ Newer(cursor[w], p)
    BY DEF IndInv, TypeOK, WalkInv
  <2> QED BY <2>1, NewerIsTotalOrder
<1> QED BY <1>1, Invariance, PTL

\* A walk that ended returned every row committed when it began.
THEOREM WalksAreComplete == Spec => []WalkMissesNothing
<1>1. IndInv => WalkMissesNothing
  BY DEF IndInv, WalkInv, WalkMissesNothing
<1> QED BY <1>1, Invariance, PTL

\* The total is never below what was returned and promised.
THEOREM TotalsCover == Spec => []TotalCoversWalk
<1>1. IndInv => TotalCoversWalk
  BY DEF IndInv, WalkInv, TotalCoversWalk
<1> QED BY <1>1, Invariance, PTL

\* hasMore never leads to an empty page.
THEOREM MoreIsTrue == Spec => []MoreMeansMore
<1>1. IndInv => MoreMeansMore
  BY DEF IndInv, WalkInv, MoreMeansMore
<1> QED BY <1>1, Invariance, PTL

-----------------------------------------------------------------------------
(* Why a walk ends: what it still has ahead of it, the rows behind its     *)
(* cursor, is finite, and every page it follows leaves less of it.         *)

Ahead(w) == Cardinality(After(cursor[w]))

\* Following endCursor leaves fewer rows ahead; only a row that commits
\* meanwhile adds to them, itself.
Advances ==
  \A w \in Walkers :
    /\ phase[w] = "answered" /\ phase'[w] = "finding" => Ahead(w)' < Ahead(w)
    /\ Ahead(w)' <= Ahead(w) + (IF rows' = rows THEN 0 ELSE 1)

LEMMA AheadIsFinite ==
  ASSUME IndInv, NEW w \in Walkers
  PROVE  /\ IsFiniteSet(After(cursor[w])) /\ Ahead(w) \in Nat
         /\ After(cursor[w]) \subseteq rows
<1>1. After(cursor[w]) \subseteq rows
  BY DEF After
<1> QED BY <1>1, FS_Subset, FS_CardinalityType DEF IndInv, Ahead

\* The last item of a page was ahead of the walk, and is no longer.
LEMMA FollowAdvances ==
  ASSUME IndInv, NEW w \in Walkers, NEW first \in 1 .. MaxFirst, Follow(w, first)
  PROVE  Ahead(w)' < Ahead(w)
<1> USE DEF IndInv, table
<1> DEFINE last == Last(page[w])
           before == After(cursor[w])
           after == After(last)
<1>1. /\ more[w] /\ phase[w] = "answered" /\ rows' = rows
      /\ cursor' = [cursor EXCEPT ![w] = DecodeCursor(EncodeCursor(page[w]))]
  BY DEF Follow
<1>2. page[w] # {} /\ page[w] \subseteq Row /\ page[w] \subseteq rows /\ rows \subseteq Row
  BY <1>1 DEF WalkInv, TypeOK
<1>3. last \in page[w]
  BY <1>2, LastExists
<1>4. last \in rows /\ last \in Row /\ last # None
  BY <1>2, <1>3, NoneAssumption
<1>5. cursor'[w] = last
  <2>1. last = [createdAt |-> last.createdAt, id |-> last.id]
    BY <1>4 DEF Row
  <2> QED BY <1>1, <2>1 DEF TypeOK, DecodeCursor, EncodeCursor
<1>6. cursor[w] # None => cursor[w] \in Row /\ Newer(cursor[w], last)
  BY <1>3 DEF WalkInv, TypeOK
<1> HIDE DEF last
<1>7. \A c, r \in Row : Newer(c, r) <=> \/ r.createdAt < c.createdAt
                                        \/ r.createdAt = c.createdAt /\ r.id < c.id
  BY IdsAssumption DEF Newer, Row
<1>8. \A c \in Row : After(c) = {r \in rows : Newer(c, r)}
  BY <1>2, <1>7, NoneAssumption DEF After
<1>9. last \in before
  BY <1>4, <1>6, <1>8 DEF After
<1>10. after \subseteq before \ {last}
  <2> SUFFICES ASSUME NEW r \in after PROVE r \in before /\ r # last
    OBVIOUS
  <2>1. r \in rows /\ r \in Row /\ Newer(last, r)
    BY <1>2, <1>4, <1>8
  <2>2. r # last
    BY <1>4, <2>1, NewerIsTotalOrder
  <2>3. CASE cursor[w] = None
    BY <2>1, <2>2, <2>3 DEF After
  <2>4. CASE cursor[w] # None
    <3>1. cursor[w] \in Row /\ Newer(cursor[w], r)
      BY <1>4, <1>6, <2>1, <2>4, NewerIsTotalOrder
    <3> QED BY <1>8, <2>1, <2>2, <3>1
  <2> QED BY <2>3, <2>4
<1>11. IsFiniteSet(before) /\ Ahead(w) = Cardinality(before) /\ Cardinality(before) \in Nat
  BY AheadIsFinite DEF Ahead
<1>12. Ahead(w)' = Cardinality(after)
  BY <1>1, <1>5 DEF Ahead, After
<1> HIDE DEF before, after
<1>13. /\ IsFiniteSet(before \ {last})
       /\ Cardinality(before \ {last}) = Cardinality(before) - 1
  BY <1>9, <1>11, FS_RemoveElement
<1>14. Cardinality(after) \in Nat /\ Cardinality(after) <= Cardinality(before \ {last})
  BY <1>10, <1>13, FS_Subset, FS_CardinalityType
<1> QED BY <1>11, <1>12, <1>13, <1>14

\* A commit puts at most its own row ahead of a walk.
LEMMA CommitAhead ==
  ASSUME IndInv, NEW w \in Walkers, NEW x, rows' = rows \cup {x}, UNCHANGED cursor
  PROVE  Ahead(w)' <= Ahead(w) + (IF rows' = rows THEN 0 ELSE 1)
<1> DEFINE before == After(cursor[w])
           after == After(cursor[w])'
<1>1. IsFiniteSet(before) /\ Ahead(w) = Cardinality(before) /\ Ahead(w) \in Nat
  BY AheadIsFinite DEF Ahead
<1>2. Ahead(w)' = Cardinality(after)
  BY DEF Ahead
<1>3. CASE rows' = rows
  <2>1. after = before
    BY <1>3 DEF After
  <2> QED BY <1>1, <1>2, <1>3, <2>1
<1>4. CASE rows' # rows
  <2>1. after \subseteq before \cup {x}
    BY DEF After
  <2> HIDE DEF before, after
  <2>2. /\ IsFiniteSet(before \cup {x})
        /\ Cardinality(before \cup {x}) \in {Cardinality(before), Cardinality(before) + 1}
    BY <1>1, FS_AddElement
  <2>3. Cardinality(after) \in Nat /\ Cardinality(after) <= Cardinality(before \cup {x})
    BY <2>1, <2>2, FS_Subset, FS_CardinalityType
  <2> QED BY <1>1, <1>2, <1>4, <2>2, <2>3
<1> QED BY <1>3, <1>4

\* A step that moves no cursor and commits no row.
LEMMA SameAhead ==
  ASSUME IndInv, NEW w \in Walkers, rows' = rows, cursor'[w] = cursor[w]
  PROVE  Ahead(w)' <= Ahead(w) + (IF rows' = rows THEN 0 ELSE 1)
<1>1. Ahead(w)' = Ahead(w)
  BY DEF Ahead, After
<1> QED BY <1>1, AheadIsFinite

LEMMA NextAdvances == IndInv /\ [Next]_vars => Advances
<1> SUFFICES ASSUME IndInv, [Next]_vars PROVE Advances
  OBVIOUS
<1> USE DEF table
<1>1. TypeOK
  BY DEF IndInv
<1>2. ASSUME NEW w \in Walkers, NEW first \in 1 .. MaxFirst, Follow(w, first)
      PROVE  Advances
  <2>1. /\ rows' = rows /\ Ahead(w)' < Ahead(w)
        /\ \A v \in Walkers \ {w} : cursor'[v] = cursor[v] /\ phase'[v] = phase[v]
    BY <1>1, <1>2, FollowAdvances DEF Follow, TypeOK
  <2>2. Ahead(w) \in Nat /\ Ahead(w)' <= Ahead(w) + 0
    <3>1. /\ phase[w] = "answered" /\ rows' = rows
      BY <1>2 DEF Follow
    <3>2. Ahead(w)' \in Nat
      <4>1. IndInv'
        BY <1>2, FollowStep
      <4>2. After(cursor[w])' \subseteq rows'
        BY DEF After
      <4> QED BY <4>1, <4>2, FS_Subset, FS_CardinalityType DEF IndInv, Ahead
    <3> QED BY <2>1, <3>2, AheadIsFinite
  <2>3. \A v \in Walkers \ {w} : Ahead(v)' <= Ahead(v) + (IF rows' = rows THEN 0 ELSE 1)
    BY <2>1, SameAhead
  <2> QED BY <2>1, <2>2, <2>3 DEF Advances
<1>3. ASSUME NEW i \in Inserters, NEW id \in Ids, Commit(i, id)
      PROVE  Advances
  <2>1. /\ rows' = rows \cup {[id |-> id, createdAt |-> stamped[i]]}
        /\ UNCHANGED <<cursor, phase>>
    BY <1>3 DEF Commit, walk
  <2>2. \A v \in Walkers : Ahead(v)' <= Ahead(v) + (IF rows' = rows THEN 0 ELSE 1)
    BY <2>1, CommitAhead
  <2> QED BY <2>1, <2>2 DEF Advances
<1>4. ASSUME \/ \E i \in Inserters : Stamp(i)
             \/ Tick
             \/ \E w \in Walkers : \/ \E first \in 1 .. MaxFirst : Ask(w, first) \/ Repeat(w, first)
                                   \/ FindMany(w) \/ Count(w) \/ QueryFails(w)
             \/ UNCHANGED vars
      PROVE  Advances
  <2>1. UNCHANGED <<rows, cursor>>
    BY <1>4 DEF Stamp, Tick, Ask, Repeat, FindMany, Count, QueryFails, vars, walk
  <2>2. \A v \in Walkers : ~ (phase[v] = "answered" /\ phase'[v] = "finding")
    BY <1>1, <1>4 DEF Stamp, Tick, Ask, Repeat, FindMany, Count, QueryFails, vars, walk, TypeOK
  <2>3. \A v \in Walkers : Ahead(v)' <= Ahead(v) + (IF rows' = rows THEN 0 ELSE 1)
    BY <2>1, SameAhead
  <2> QED BY <2>2, <2>3 DEF Advances
<1> QED BY <1>2, <1>3, <1>4 DEF Next

\* A page followed is progress (decodeCursor's "id < ..." half of the where
\* clause included): a walk outlasts no more pages than rows were ahead of it
\* when it began and committed ahead of it since.
THEOREM WalksAdvance == Spec => [][Advances]_vars
BY NextAdvances, Invariance, PTL DEF Spec
=============================================================================
