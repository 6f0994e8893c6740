------------------------- MODULE MCServiceLifecycle -------------------------
(* Instances of ServiceLifecycle small enough for TLC. *)
EXTENDS ServiceLifecycle

CONSTANTS i1, i2

MCInstances == {i1, i2}

Text(n, i) == [set |-> TRUE, number |-> n, int |-> i]

\* "90", "1e2", "0x10", "7d", "0" and "none".
MCTexts == {Text(90, 90), Text(100, 1), Text(16, 0), Text(NaN, 7), Text(0, 0), Text(NaN, NaN)}

Unset == [set |-> FALSE, number |-> NaN, int |-> NaN]

\* A sound environment for production, and one for development.
Production == [nodeEnv |-> "production", secret |-> "long", databaseUrl |-> "set",
               federation |-> "true", region |-> "set", origins |-> {"url"},
               logLevel |-> "unset", retention |-> Unset, legacySes |-> TRUE]
Development == [nodeEnv |-> "unset", secret |-> "unset", databaseUrl |-> "set",
                federation |-> "unset", region |-> "unset", origins |-> {},
                logLevel |-> "unset", retention |-> Unset, legacySes |-> FALSE]

\* Both, and with one variable changed, the image's nodemailer being one.
MCEnvironments ==
  {Production, [Production EXCEPT !.secret = "short"], [Production EXCEPT !.databaseUrl = "unset"],
   [Production EXCEPT !.region = "unset"], [Production EXCEPT !.federation = "other"],
   [Production EXCEPT !.origins = {}], [Production EXCEPT !.origins = {"url", "junk"}],
   [Production EXCEPT !.nodeEnv = "other"], [Production EXCEPT !.logLevel = "debug"],
   [Production EXCEPT !.legacySes = FALSE],
   Development, [Development EXCEPT !.region = "set"], [Development EXCEPT !.logLevel = "verbose"]}
  \cup {[Development EXCEPT !.retention = t] : t \in MCTexts}
=============================================================================
