------------------------- MODULE MCPersonPagination -------------------------
(* Instances of PersonPagination small enough for TLC. *)
EXTENDS PersonPagination

CONSTANTS w1, n1, n2

MCWalkers == {w1}
MCInserters == {n1, n2}
MCIds == 1 .. 5

\* Rows 2 and 4 predate the column createdAt: one default value for both.
MCOldRows == {[id |-> 2, createdAt |-> 1], [id |-> 4, createdAt |-> 1]}
=============================================================================
