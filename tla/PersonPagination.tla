-------------------------- MODULE PersonPagination --------------------------
(***************************************************************************)
(* The getAll query: callers walk through the Person table page by page,   *)
(* following endCursor while hasMore says so, and other callers' inserts   *)
(* commit in between.  A page and its total come from two separate         *)
(* queries.  createdAt is stamped before the insert reaches the database,  *)
(* so rows may commit out of the order they are listed in, and several     *)
(* rows may carry the same createdAt (those that existed when the column   *)
(* was added all do).  A request whose queries fail may be made again.     *)
(***************************************************************************)
EXTENDS Naturals, FiniteSets

CONSTANTS Walkers,    \* callers of getAll, one walk each
          Inserters,  \* inserts that may be under way
          Ids,        \* ids of persons, drawn from the sequence or given by the seed
          OldRows,    \* rows that are there from the start
          MaxFirst,   \* largest page a caller may ask for (100 in the code)
          MaxClock,   \* time stops here (a bound)
          None

Row == [id : Ids, createdAt : Nat]

ASSUME IdsAssumption == Ids \subseteq Nat
ASSUME BoundsAssumption ==
  MaxFirst \in Nat \ {0} /\ MaxClock \in Nat
ASSUME OldRowsAssumption ==
  /\ OldRows \subseteq Row /\ IsFiniteSet(OldRows)
  /\ \A r, s \in OldRows : r.id = s.id => r = s
ASSUME NoneAssumption == None \notin Row /\ None \notin Nat

VARIABLES rows,     \* the committed rows of the table
          clock,    \* milliseconds
          stamped,  \* insert under way -> its createdAt
          phase,    \* walk -> what it waits for
          want,     \* walk -> size of the page asked for
          cursor,   \* walk -> decoded cursor of the request, None for the first page
          page,     \* walk -> items of the page last read
          more,     \* walk -> hasMore of that page
          total,    \* walk -> total of the last answer
          seen,     \* walk -> items of its earlier pages
          start     \* walk -> the rows committed when its first page was read

table == <<rows, clock, stamped>>
walk == <<phase, want, cursor, page, more, total, seen, start>>
vars == <<table, walk>>

Phases == {"idle", "finding", "counting", "answered", "failed"}

Init ==
  /\ rows = OldRows /\ clock = 0
  /\ stamped = [i \in Inserters |-> None]
  /\ phase = [w \in Walkers |-> "idle"]
  /\ want = [w \in Walkers |-> 1]
  /\ cursor = [w \in Walkers |-> None]
  /\ page = [w \in Walkers |-> {}] /\ more = [w \in Walkers |-> FALSE]
  /\ total = [w \in Walkers |-> 0]
  /\ seen = [w \in Walkers |-> {}] /\ start = [w \in Walkers |-> {}]

-----------------------------------------------------------------------------
\* orderBy createdAt desc, id desc: a is listed before b.
Newer(a, b) == \/ a.createdAt > b.createdAt
               \/ a.createdAt = b.createdAt /\ a.id > b.id

\* Mutant: the cursor is compared by its time alone.
AfterTimeOnly(c) == IF c = None THEN rows ELSE {r \in rows : r.createdAt < c.createdAt}

\* Mutant: the cursor's own row is behind the cursor.
FromCursorOn(c) == IF c = None THEN rows
                   ELSE {r \in rows : \/ r.createdAt < c.createdAt
                                      \/ r.createdAt = c.createdAt /\ r.id <= c.id}

\* The rows behind a cursor: the where clause of findMany.
After(c) == IF c = None THEN rows
            ELSE {r \in rows : \/ r.createdAt < c.createdAt
                               \/ r.createdAt = c.createdAt /\ r.id < c.id}

\* top is what "take n" leaves of the rows in S, in the order of the listing.
IsTop(top, n, S) ==
  /\ top \subseteq S
  /\ \/ top = S /\ Cardinality(S) <= n
     \/ Cardinality(top) = n
  /\ \A t \in top, s \in S \ top : Newer(t, s)

\* The last item of a non-empty page.
Last(S) == CHOOSE r \in S : \A s \in S \ {r} : Newer(s, r)

\* Mutant: the page that is exactly full claims there is more.
HasMoreWhenFull(top, first) == Cardinality(top) >= first

HasMore(top, first) == Cardinality(top) > first

\* The extra row only says that there is more: it is popped.
Items(top, first) == IF HasMore(top, first) THEN top \ {Last(top)} ELSE top

\* Mutant: endCursor is taken from the first item of the page.
EncodeFirstItem(items) ==
  LET r == CHOOSE x \in items : \A s \in items \ {x} : Newer(x, s)
  IN [iso |-> r.createdAt, id |-> r.id]

\* endCursor: base64 of the ISO time and the id of the last item.  ISO times
\* have milliseconds, and so has the column (TIMESTAMP(3)).
EncodeCursor(items) == [iso |-> Last(items).createdAt, id |-> Last(items).id]

\* Mutant: the id of a decoded cursor is still the text it was parsed from.
DecodeTextId(after) == [createdAt |-> after.iso, id |-> None]

DecodeCursor(after) == [createdAt |-> after.iso, id |-> after.id]

-----------------------------------------------------------------------------
\* An insert gets its createdAt from the client of the database ...
Stamp(i) ==
  /\ stamped[i] = None
  /\ stamped' = [stamped EXCEPT ![i] = clock]
  /\ UNCHANGED <<rows, clock, walk>>

\* ... and commits later, under an id nobody has.
Commit(i, id) ==
  /\ stamped[i] # None /\ \A r \in rows : r.id # id
  /\ rows' = rows \cup {[id |-> id, createdAt |-> stamped[i]]}
  /\ stamped' = [stamped EXCEPT ![i] = None]
  /\ UNCHANGED <<clock, walk>>

Tick ==
  /\ clock < MaxClock /\ clock' = clock + 1
  /\ UNCHANGED <<rows, stamped, walk>>

\* A caller asks for the first page: no "after" argument.  A "first" out of
\* range and a cursor that does not decode are rejected before any query: such
\* a request changes nothing, the walk may go on with a better one.
Ask(w, first) ==
  /\ phase[w] = "idle"
  /\ phase' = [phase EXCEPT ![w] = "finding"]
  /\ want' = [want EXCEPT ![w] = first]
  /\ UNCHANGED <<table, cursor, page, more, total, seen, start>>

\* The findMany query: one row more than asked for tells whether there is more.
FindMany(w) ==
  /\ phase[w] = "finding"
  /\ \E top \in SUBSET After(cursor[w]) :
       /\ IsTop(top, want[w] + 1, After(cursor[w]))
       /\ more' = [more EXCEPT ![w] = HasMore(top, want[w])]
       /\ page' = [page EXCEPT ![w] = Items(top, want[w])]
  /\ start' = IF cursor[w] = None THEN [start EXCEPT ![w] = rows] ELSE start
  /\ phase' = [phase EXCEPT ![w] = "counting"]
  /\ UNCHANGED <<table, want, cursor, total, seen>>

\* Mutant: the total is counted once per walk, with its first page.
CountCached(w) ==
  /\ phase[w] = "counting"
  /\ total' = [total EXCEPT ![w] = Cardinality(start[w])]
  /\ phase' = [phase EXCEPT ![w] = "answered"]
  /\ UNCHANGED <<table, want, cursor, page, more, seen, start>>

\* The count query, awaited after the page: the answer is complete.
Count(w) ==
  /\ phase[w] = "counting"
  /\ total' = [total EXCEPT ![w] = Cardinality(rows)]
  /\ phase' = [phase EXCEPT ![w] = "answered"]
  /\ UNCHANGED <<table, want, cursor, page, more, seen, start>>

\* The database rejects a query, or cannot be reached: the caller gets an error,
\* and nothing of the page that may have been read already.
QueryFails(w) ==
  /\ phase[w] \in {"finding", "counting"}
  /\ phase' = [phase EXCEPT ![w] = "failed"]
  /\ page' = [page EXCEPT ![w] = {}]
  /\ UNCHANGED <<table, want, cursor, more, total, seen, start>>

\* The caller asks again, with the cursor it has.
Repeat(w, first) ==
  /\ phase[w] = "failed"
  /\ phase' = [phase EXCEPT ![w] = "finding"]
  /\ want' = [want EXCEPT ![w] = first]
  /\ UNCHANGED <<table, cursor, page, more, total, seen, start>>

\* The caller asks for the page after endCursor.
Follow(w, first) ==
  /\ phase[w] = "answered" /\ more[w]
  /\ phase' = [phase EXCEPT ![w] = "finding"]
  /\ want' = [want EXCEPT ![w] = first]
  /\ cursor' = [cursor EXCEPT ![w] = DecodeCursor(EncodeCursor(page[w]))]
  /\ seen' = [seen EXCEPT ![w] = @ \cup page[w]]
  /\ page' = [page EXCEPT ![w] = {}]
  /\ UNCHANGED <<table, more, total, start>>

Next ==
  \/ \E i \in Inserters : Stamp(i) \/ \E id \in Ids : Commit(i, id)
  \/ Tick
  \/ \E w \in Walkers :
       \/ \E first \in 1 .. MaxFirst : Ask(w, first) \/ Follow(w, first) \/ Repeat(w, first)
       \/ FindMany(w) \/ Count(w) \/ QueryFails(w)

Spec == Init /\ [][Next]_vars

-----------------------------------------------------------------------------
\* The database does not fail for ever, and the caller follows the cursor as long
\* as there is more, asking again where a request failed.
Fairness ==
  \A w \in Walkers :
    /\ SF_vars(FindMany(w)) /\ SF_vars(Count(w))
    /\ WF_vars(\E first \in 1 .. MaxFirst : Follow(w, first) \/ Repeat(w, first))

FairSpec == Spec /\ Fairness

-----------------------------------------------------------------------------
TypeOK ==
  /\ rows \subseteq Row /\ clock \in 0 .. MaxClock
  /\ stamped \in [Inserters -> (0 .. MaxClock) \cup {None}]
  /\ phase \in [Walkers -> Phases]
  /\ want \in [Walkers -> 1 .. MaxFirst]
  /\ cursor \in [Walkers -> Row \cup {None}]
  /\ page \in [Walkers -> SUBSET rows] /\ seen \in [Walkers -> SUBSET rows]
  /\ start \in [Walkers -> SUBSET rows]
  /\ more \in [Walkers -> BOOLEAN] /\ total \in [Walkers -> Nat]

\* No row is returned twice in a walk, and the walk only ever goes down the
\* listing, whatever commits between its pages and however times tie.
PagesDescend ==
  \A w \in Walkers : \A p \in page[w], q \in seen[w] : Newer(q, p)

\* A walk that was told there is no more has returned every row that was
\* committed when it began: concurrent inserts push none out of its way.
WalkMissesNothing ==
  \A w \in Walkers : phase[w] = "answered" /\ ~ more[w] =>
    start[w] \subseteq seen[w] \cup page[w]

\* The total, counted after the page was read, is never below what the walk
\* has returned so far plus the row hasMore promises.
TotalCoversWalk ==
  \A w \in Walkers : phase[w] = "answered" =>
    total[w] >= Cardinality(seen[w] \cup page[w]) + (IF more[w] THEN 1 ELSE 0)

\* hasMore keeps its promise: the page after endCursor is never empty.
MoreMeansMore ==
  \A w \in Walkers :
    phase[w] \in {"counting", "answered"} /\ cursor[w] # None => page[w] # {}

\* A caller who follows endCursor while hasMore holds, and repeats what failed,
\* comes to the end.
WalkEnds ==
  \A w \in Walkers : phase[w] # "idle" ~> phase[w] = "answered" /\ ~ more[w]
=============================================================================
