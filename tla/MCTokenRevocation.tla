------------------------- MODULE MCTokenRevocation -------------------------
(* Instances of TokenRevocation small enough for TLC. *)
EXTENDS TokenRevocation

CONSTANTS t1, v1, v2, r1, i1, i2

MCOneToken == {t1}
MCRevokes == {v1, v2}
MCOneRequest == {r1}
MCInstances == {i1, i2}
=============================================================================
