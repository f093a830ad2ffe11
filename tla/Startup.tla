------------------------------ MODULE Startup ------------------------------
(***************************************************************************)
(* The identity command: config.Load over the environment, the dispatch on *)
(* the command line, the database, and the command itself.  The process    *)
(* ends and is started again, each time in any environment.                *)
(*                                                                         *)
(* A text setting is a word and the white space and capitals around it; a  *)
(* duration or an integer is a word that parses or "garbage".  One of each *)
(* kind stands for the others; settings nothing checks are left out.       *)
(***************************************************************************)
CONSTANTS Text,         \* values of APP_ENV and JWT_ACCESS_SECRET (bounds a run)
          Unset,        \* the variable is not in the environment
          None          \* no process, or no configuration yet

ASSUME TextAssumption ==
    /\ Unset \notin Text
    /\ \A v \in Text : DOMAIN v = {"word", "padded", "capitals"}

VARIABLES env,          \* the process environment and os.Args[1]
          cfg,          \* what Load made of it
          phase         \* how far runCommand has come

vars == <<env, cfg, phase>>

Plain(w) == [word |-> w, padded |-> FALSE, capitals |-> FALSE]

defaultJWTAccessSecret == Plain("dev-access-secret")

Secret == Text \cup {defaultJWTAccessSecret}

Environment == [APP_ENV           : Text \cup {Unset},
                JWT_ACCESS_SECRET : Text \cup {Unset},
                JWT_ACCESS_TTL    : {Unset, "1h", "garbage"},
                DB_MAX_OPEN_CONNS : {Unset, "5", "garbage"},
                command           : {Unset, "serve", "migrate", "server", "seed"}]

Config == [secret : Secret, ttl : {"15m", "1h"}, maxOpen : {"25", "5"}]

TypeOK == /\ env \in Environment \cup {None}
          /\ cfg \in Config \cup {None}
          /\ phase \in {"exit", "load", "dispatch", "connect", "serve", "migrate"}

Init == /\ env = None
        /\ cfg = None
        /\ phase = "exit"

-----------------------------------------------------------------------------

TrimSpace(v) == [v EXCEPT !.padded = FALSE]

ToLower(v) == [v EXCEPT !.capitals = FALSE]

\* os.LookupEnv: a variable set to "" is set.
GetEnv(v, fallback) == IF v = Unset THEN fallback ELSE v

\* An integer that does not parse is silently replaced by its default.
GetEnvInt(v, fallback) == IF v \in {Unset, "garbage"} THEN fallback ELSE v

appEnv == LET v == TrimSpace(ToLower(GetEnv(env.APP_ENV, Plain("local")))) IN
          IF v = Plain("") THEN Plain("local") ELSE v

isLocalAppEnv(v) == \E w \in {"", "local", "dev", "development", "test"} : v = Plain(w)

validateJWTAccessSecret(v, secret) ==
    isLocalAppEnv(v) \/ TrimSpace(secret) \notin {Plain(""), defaultJWTAccessSecret}

\* The error of ParseDuration dropped, and the zero duration with it.
parsesAlways(v) == TRUE

parses(v) == v # "garbage"

Start == /\ phase = "exit"
         /\ env' \in Environment
         /\ phase' = "load"
         /\ UNCHANGED cfg

Load ==
    LET secret == GetEnv(env.JWT_ACCESS_SECRET, defaultJWTAccessSecret)
        ttl    == GetEnv(env.JWT_ACCESS_TTL, "15m")
    IN /\ phase = "load"
       /\ validateJWTAccessSecret(appEnv, secret)
       /\ parses(ttl)
       /\ cfg' = [secret  |-> secret,
                  ttl     |-> ttl,
                  maxOpen |-> GetEnvInt(env.DB_MAX_OPEN_CONNS, "25")]
       /\ phase' = "dispatch"
       /\ UNCHANGED env

runCommand == /\ phase = "dispatch"
              /\ env.command \in {"serve", "migrate"}
              /\ phase' = "connect"
              /\ UNCHANGED <<env, cfg>>

\* NewDatabaseConnection.
Connect == /\ phase = "connect"
           /\ phase' = env.command
           /\ UNCHANGED <<env, cfg>>

\* A check fails, the database does not answer, the command returns, or the
\* process is ended from outside.
Exit == /\ phase # "exit"
        /\ env' = None
        /\ cfg' = None
        /\ phase' = "exit"

Next == Start \/ Load \/ runCommand \/ Connect \/ Exit

Spec == Init /\ [][Next]_vars
=============================================================================
