--------------------------- MODULE PersonRegistry ---------------------------
(***************************************************************************)
(* What creating persons promises, whatever the mechanism: a person is     *)
(* stored before the rest of the system hears of it, announced before the  *)
(* caller is told it was created, and none of the three is ever undone.    *)
(***************************************************************************)
CONSTANT PersonIds

VARIABLES persisted,     \* ids of the rows of the Person table
          announced,     \* ids that a create-person job was queued for
          acknowledged   \* ids that a caller was given

vars == <<persisted, announced, acknowledged>>

Init == persisted = {} /\ announced = {} /\ acknowledged = {}

Persist(id) ==
  /\ persisted' = persisted \cup {id}
  /\ UNCHANGED <<announced, acknowledged>>

Announce(id) ==
  /\ id \in persisted
  /\ announced' = announced \cup {id}
  /\ UNCHANGED <<persisted, acknowledged>>

Acknowledge(id) ==
  /\ id \in announced
  /\ acknowledged' = acknowledged \cup {id}
  /\ UNCHANGED <<persisted, announced>>

Next == \E id \in PersonIds : Persist(id) \/ Announce(id) \/ Acknowledge(id)

Spec == Init /\ [][Next]_vars
=============================================================================
