-------------------------- MODULE MCPersonCreation --------------------------
(* Instances of PersonCreation small enough for TLC. *)
EXTENDS PersonCreation, TLC

CONSTANTS r1, r2, i1, i2, j1, j2, Seed

MCRequests == {r1, r2}
MCOneRequest == {r1}
MCInstances == {i1, i2}
MCPersonIds == 1 .. 2
MCJobIds == {j1, j2}

\* Every argument one validation layer or the other stops, and a sound one.
MCInputs == {[name |-> n, age |-> a] : n \in {"empty", "blank", "text"}, a \in 0 .. 1}

\* An argument only the business rules stop, and a sound one.
MCFewInputs == {[name |-> "text", age |-> 1], [name |-> "blank", age |-> 1]}

Symmetry == Permutations(MCRequests) \cup Permutations(MCInstances)
            \cup Permutations(MCJobIds)
=============================================================================
