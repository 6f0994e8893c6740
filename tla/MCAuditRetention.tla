-------------------------- MODULE MCAuditRetention --------------------------
(* Instances of AuditRetention small enough for TLC. *)
EXTENDS AuditRetention, TLC

CONSTANTS e1, w1, w2, j1

MCOneEntry == {e1}
MCWorkers == {w1, w2}
MCOneWorker == {w1}
MCJobIds == {j1}
MCPayloads == {"cleanup"}

Symmetry == Permutations(MCWorkers)
=============================================================================
