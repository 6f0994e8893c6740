--------------------------- MODULE RetentionLedger ---------------------------
(***************************************************************************)
(* What audit retention promises, whatever the mechanism: an entry whose   *)
(* insert succeeds is kept until, by its own date, its period is over but  *)
(* for the difference of the clocks; what is gone does not come back; and  *)
(* whenever the log is reported clean, as of a moment not long ago, nothing*)
(* is or will be in it that was too old at that moment.                    *)
(***************************************************************************)
EXTENDS Integers

CONSTANTS Entries,
          Retention,  \* ticks of the retention period
          Skew,       \* ticks dates may be wrong by
          Lag         \* ticks an insert may take, and a report may be late by

VARIABLES status,  \* entry -> "idle", "writing", "stored", "lost" or "deleted"
          age,     \* entry written or stored -> ticks since its date
          clean    \* ticks since the moment as of which the log was last clean

vars == <<status, age, clean>>

\* Ages beyond this one make no difference.
Cap == Retention + Lag + 1

\* Beyond this a report makes no difference.
Late == Lag + 1

Init ==
  /\ status = [e \in Entries |-> "idle"] /\ age = [e \in Entries |-> 0] /\ clean = Late

Write(e, date) ==
  /\ status[e] = "idle" /\ date \in - Skew .. 0
  /\ status' = [status EXCEPT ![e] = "writing"] /\ age' = [age EXCEPT ![e] = date]
  /\ UNCHANGED clean

\* An insert that is late does not add an old entry.
Keep(e) ==
  /\ status[e] = "writing" /\ age[e] <= Lag
  /\ status' = [status EXCEPT ![e] = "stored"]
  /\ UNCHANGED <<age, clean>>

\* Entries leave the ledger.
Remove(S, as) ==
  /\ status' = [e \in Entries |-> IF e \in S THEN as ELSE status[e]]
  /\ age' = [e \in Entries |-> IF e \in S THEN 0 ELSE age[e]]

Lose(S) == (\A e \in S : status[e] = "writing") /\ Remove(S, "lost") /\ UNCHANGED clean

TooOld(e) == status[e] = "stored" /\ age[e] > Retention - Skew

\* Entries expire, and the log may be reported clean as of n ticks ago.
CleanUp(S, n) ==
  /\ \A e \in S : TooOld(e)
  /\ Remove(S, "deleted")
  /\ \/ UNCHANGED clean
     \/ /\ \A e \in Entries \ S : status[e] = "stored" => age[e] <= Retention + n
        /\ clean' = n

Older(n, bound) == IF n < bound THEN n + 1 ELSE bound

\* Time passes.
Tick ==
  /\ age' = [e \in Entries |-> IF status[e] \in {"writing", "stored"} THEN Older(age[e], Cap)
                               ELSE age[e]]
  /\ clean' = Older(clean, Late)
  /\ UNCHANGED status

Next ==
  \/ \E e \in Entries : Keep(e) \/ \E date \in - Skew .. 0 : Write(e, date)
  \/ \E S \in SUBSET Entries : Lose(S) \/ \E n \in 0 .. Lag : CleanUp(S, n)
  \/ Tick

Spec == Init /\ [][Next]_vars
=============================================================================
