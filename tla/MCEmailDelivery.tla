-------------------------- MODULE MCEmailDelivery --------------------------
(* Instances of EmailDelivery small enough for TLC. *)
EXTENDS EmailDelivery, TLC

CONSTANTS e1, w1, w2, j1, j2

MCEmails == {e1}
MCWorkers == {w1, w2}
MCOneJob == {j1}
MCJobIds == {j1, j2}

Symmetry == Permutations(MCWorkers) \cup Permutations(MCJobIds)
=============================================================================
