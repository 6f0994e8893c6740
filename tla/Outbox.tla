------------------------------- MODULE Outbox -------------------------------
(***************************************************************************)
(* What sending e-mail promises, whatever the mechanism: who was told that *)
(* an e-mail will be sent left it in the outbox; the mail server accepts   *)
(* an entry a limited number of times; and an entry is reported once, as   *)
(* sent only after the server has accepted it.                             *)
(***************************************************************************)
EXTENDS Naturals

CONSTANTS Emails, Entries, Limit, None

VARIABLES queued,    \* entries in use
          content,   \* entry -> its e-mail
          accepted,  \* entry -> messages the mail server accepted
          report,    \* entry -> "open", "sent" or "givenUp"
          told       \* e-mails whose sender was told they will be sent

vars == <<queued, content, accepted, report, told>>

Init ==
  /\ queued = {} /\ told = {}
  /\ content = [j \in Entries |-> None]
  /\ accepted = [j \in Entries |-> 0]
  /\ report = [j \in Entries |-> "open"]

Enqueue(j, e) ==
  /\ j \notin queued
  /\ queued' = queued \cup {j} /\ content' = [content EXCEPT ![j] = e]
  /\ UNCHANGED <<accepted, report, told>>

\* An entry that was reported may still be on its way to the server.
Accept(j) ==
  /\ j \in queued /\ accepted[j] < Limit
  /\ accepted' = [accepted EXCEPT ![j] = @ + 1]
  /\ UNCHANGED <<queued, content, report, told>>

Report(j, outcome) ==
  /\ j \in queued /\ report[j] = "open"
  /\ outcome = "sent" => accepted[j] > 0
  /\ report' = [report EXCEPT ![j] = outcome]
  /\ UNCHANGED <<queued, content, accepted, told>>

Tell(e) ==
  /\ \E j \in queued : content[j] = e
  /\ told' = told \cup {e}
  /\ UNCHANGED <<queued, content, accepted, report>>

Next ==
  \/ \E e \in Emails : Tell(e) \/ \E j \in Entries : Enqueue(j, e)
  \/ \E j \in Entries : Accept(j) \/ \E outcome \in {"sent", "givenUp"} : Report(j, outcome)

Spec == Init /\ [][Next]_vars
=============================================================================
