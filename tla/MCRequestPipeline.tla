------------------------- MODULE MCRequestPipeline -------------------------
(* Instances of RequestPipeline small enough for TLC. *)
EXTENDS RequestPipeline, TLC

CONSTANTS c1, c2, c3, p1, p2, a1, a2, t1

MCCalls == {c1, c2, c3}
MCProcesses == {p1, p2}
MCClients == {a1, a2}
MCTokens == {t1}

MCDeployments ==
  { [federation |-> TRUE, environment |-> "production"],
    [federation |-> FALSE, environment |-> "development"],
    [federation |-> FALSE, environment |-> "test"] }

Sent(handler, client, carries) ==
  [handler |-> handler, client |-> client, carries |-> carries, grants |-> {},
   arguments |-> "sound", depth |-> 1, complexity |-> 1, introspects |-> FALSE]

\* Two calls that fill a limit, and one that a single step of the chain stops.
Filling == {Sent("createPerson", a1, "plain")}
Others ==
  { Sent("createPerson", a1, t1),
    Sent("createPerson", a2, "plain"),
    [Sent("createPerson", a1, "plain") EXCEPT !.arguments = "unsound"],
    [Sent("getAll", a1, "missing") EXCEPT !.complexity = 101],
    [Sent("getAll", a1, "missing") EXCEPT !.complexity = 101, !.introspects = TRUE],
    [Sent("getAuditLogs", a1, t1) EXCEPT !.grants = {"audit:read"}, !.arguments = "none"],
    [Sent("getAuditLogs", a1, "wrongShape") EXCEPT !.grants = {"audit:read"},
                                                   !.arguments = "none"],
    Sent("health", a1, "missing") }

MCRequests == [c \in MCCalls |-> IF c = c3 THEN Others ELSE Filling]

Symmetry == Permutations({c1, c2}) \cup Permutations(MCProcesses)
=============================================================================
