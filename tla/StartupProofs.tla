--------------------------- MODULE StartupProofs ---------------------------
(***************************************************************************)
(* Proofs about Startup, for every set of texts the environment may hold.  *)
(***************************************************************************)
EXTENDS Startup, TLAPS

\* From Load on, the configuration is the one the environment was judged by.
Loaded == /\ env \in Environment
          /\ cfg \in Config
          /\ validateJWTAccessSecret(appEnv, cfg.secret)

StartupInv == /\ TypeOK
              /\ phase # "exit" => env \in Environment
              /\ phase \notin {"exit", "load"} => Loaded
              /\ phase = "connect" => env.command \in {"serve", "migrate"}

LEMMA SameSets ==
    Environment' = Environment /\ Config' = Config /\ Secret' = Secret
  BY DEF Environment, Config, Secret, defaultJWTAccessSecret, Plain

LEMMA LoadedKept ==
    ASSUME Loaded, UNCHANGED <<env, cfg>>
    PROVE  Loaded'
<1>1. appEnv' = appEnv
  BY DEF appEnv, GetEnv, TrimSpace, ToLower, Plain
<1> QED
  BY <1>1, SameSets DEF Loaded, validateJWTAccessSecret, isLocalAppEnv, TrimSpace, Plain,
     defaultJWTAccessSecret

LEMMA LoadStep ==
    ASSUME StartupInv, Load
    PROVE  Loaded'
<1>1. env \in Environment /\ env' = env
  BY DEF StartupInv, Load
<1> DEFINE secret == GetEnv(env.JWT_ACCESS_SECRET, defaultJWTAccessSecret)
           ttl    == GetEnv(env.JWT_ACCESS_TTL, "15m")
           open   == GetEnvInt(env.DB_MAX_OPEN_CONNS, "25")
<1>2. secret \in Secret
  BY <1>1 DEF Environment, GetEnv, Secret
<1>3. ttl \in {"15m", "1h"}
  BY <1>1 DEF Environment, GetEnv, Load, parses
<1>4. open \in {"25", "5"}
  BY <1>1 DEF Environment, GetEnvInt
<1>5. cfg' = [secret |-> secret, ttl |-> ttl, maxOpen |-> open]
  BY DEF Load
<1>6. validateJWTAccessSecret(appEnv, secret)
  BY DEF Load
<1> HIDE DEF secret, ttl, open
<1>7. cfg' \in Config /\ cfg'.secret = secret
  BY <1>2, <1>3, <1>4, <1>5 DEF Config
<1>8. appEnv' = appEnv
  BY <1>1 DEF appEnv, GetEnv, TrimSpace, ToLower, Plain
<1> QED
  BY <1>1, <1>6, <1>7, <1>8, SameSets DEF Loaded, validateJWTAccessSecret, isLocalAppEnv,
     TrimSpace, Plain, defaultJWTAccessSecret

LEMMA NextStartupInv ==
    ASSUME StartupInv, [Next]_vars
    PROVE  StartupInv'
<1> USE DEF StartupInv
<1>1. Environment' = Environment /\ Config' = Config /\ Secret' = Secret
  BY SameSets
<1>2. CASE Start
  BY <1>1, <1>2 DEF Start, TypeOK
<1>3. CASE Load
  <2>1. Loaded'
    BY <1>3, LoadStep
  <2> QED
    BY <1>1, <1>3, <2>1 DEF Load, Loaded, TypeOK
<1>4. CASE runCommand
  <2>1. Loaded'
    BY <1>4, LoadedKept DEF runCommand
  <2> QED
    BY <1>1, <1>4, <2>1 DEF runCommand, TypeOK
<1>5. CASE Connect
  <2>1. Loaded'
    BY <1>5, LoadedKept DEF Connect
  <2> QED
    BY <1>1, <1>5, <2>1 DEF Connect, TypeOK
<1>6. CASE Exit
  BY <1>1, <1>6 DEF Exit, TypeOK
<1>7. CASE UNCHANGED vars
  BY <1>1, <1>7, LoadedKept DEF vars, TypeOK
<1> QED
  BY <1>2, <1>3, <1>4, <1>5, <1>6, <1>7 DEF Next

\* A process that has come past Load runs on settings of the right kind, which
\* Load accepted in the environment the process still has.
THEOREM StartupInvHolds == Spec => []StartupInv
<1>1. Init => StartupInv
  BY DEF Init, StartupInv, TypeOK
<1>2. StartupInv /\ [Next]_vars => StartupInv'
  BY NextStartupInv
<1> QED
  BY <1>1, <1>2, PTL DEF Spec

\* The typing of Startup: whatever a variable holds, Load keeps a duration only if
\* it parses.
THEOREM StartupTyping == Spec => []TypeOK
<1>1. StartupInv => TypeOK
  BY DEF StartupInv
<1> QED
  BY <1>1, StartupInvHolds, PTL
=============================================================================
