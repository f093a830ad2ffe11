----------------------------- MODULE MCStartup -----------------------------
(* Instances of Startup for TLC. *)
EXTENDS Startup

Spelled(w, p, c) == [word |-> w, padded |-> p, capitals |-> c]

\* As APP_ENV: left blank, blanks only, a local name spelled otherwise, names
\* that are not local.  As a secret: empty, blanks only, two of one's own, and
\* the built-in one, as it is and padded.
SomeText == {Spelled("", FALSE, FALSE), Spelled("", TRUE, FALSE),
             Spelled("test", TRUE, TRUE), Spelled("production", FALSE, FALSE),
             Spelled("dev-access-secret", FALSE, FALSE),
             Spelled("dev-access-secret", TRUE, FALSE)}
=============================================================================
