------------------------- MODULE RevocationRegister -------------------------
(***************************************************************************)
(* What revoking tokens promises, whatever the mechanism: a check that is  *)
(* begun after a revoke of its token was acknowledged passes only once the *)
(* token has expired, or unchecked, when nobody could be asked; and only a *)
(* token that somebody set out to revoke is stopped.  None of it is undone.*)
(***************************************************************************)
CONSTANTS Tokens, Checks, None

VARIABLES begun,    \* tokens that somebody set out to revoke
          revoked,  \* tokens a revoke of which was acknowledged
          expired,  \* tokens past their lifetime
          subject,  \* check -> [token, late]: late if its token was revoked before
          verdict   \* check -> what came of it

register == <<begun, revoked, expired>>
checks == <<subject, verdict>>
vars == <<register, checks>>

Init ==
  /\ begun = {} /\ revoked = {} /\ expired \in SUBSET Tokens
  /\ subject = [c \in Checks |-> None] /\ verdict = [c \in Checks |-> "none"]

Begin(t) == begun' = begun \cup {t} /\ UNCHANGED <<revoked, expired, checks>>

Acknowledge(t) ==
  /\ t \in begun
  /\ revoked' = revoked \cup {t}
  /\ UNCHANGED <<begun, expired, checks>>

Expire(S) == expired' = expired \cup S /\ UNCHANGED <<begun, revoked, checks>>

Ask(c, t) ==
  /\ verdict[c] = "none"
  /\ verdict' = [verdict EXCEPT ![c] = "asked"]
  /\ subject' = [subject EXCEPT ![c] = [token |-> t, late |-> t \in revoked]]
  /\ UNCHANGED register

Decide(c, v) ==
  /\ verdict[c] = "asked"
  /\ verdict' = [verdict EXCEPT ![c] = v]
  /\ UNCHANGED <<register, subject>>

Pass(c) == Decide(c, "passed") /\ (subject[c].late => subject[c].token \in expired)
PassUnchecked(c) == Decide(c, "unchecked")
Stop(c) == Decide(c, "stopped") /\ subject[c].token \in begun

\* Whoever asked is gone.
Drop(S) ==
  /\ \A c \in S : verdict[c] = "asked"
  /\ verdict' = [c \in Checks |-> IF c \in S THEN "dropped" ELSE verdict[c]]
  /\ UNCHANGED <<register, subject>>

Next ==
  \/ \E t \in Tokens : Begin(t) \/ Acknowledge(t) \/ \E c \in Checks : Ask(c, t)
  \/ \E S \in SUBSET Tokens : Expire(S)
  \/ \E c \in Checks : Pass(c) \/ PassUnchecked(c) \/ Stop(c)
  \/ \E S \in SUBSET Checks : Drop(S)

Spec == Init /\ [][Next]_vars
=============================================================================
