--------------------------- MODULE ConnectionPool ---------------------------
(***************************************************************************)
(* The authentication service on the pool of connections it shares.        *)
(*                                                                         *)
(* A statement run on *sql.DB takes a connection and gives it back; while  *)
(* it waits for a row lock it keeps it.  A transaction keeps its           *)
(* connection from BeginTx to Commit or Rollback.  When DB_MAX_OPEN_CONNS  *)
(* connections are out, whoever needs one waits.  Requests therefore wait  *)
(* for each other twice over, for rows and for connections.                *)
(***************************************************************************)
EXTENDS AuthService, FiniteSets

CONSTANT PoolSizes      \* values of DB_MAX_OPEN_CONNS to start the server with

ASSUME PoolAssumption == PoolSizes \subseteq Nat

VARIABLES maxOpen,      \* db.SetMaxOpenConns; 0 means no limit
          conns         \* the requests that hold a connection between two steps

poolVars == <<vars, maxOpen, conns>>

PoolTypeOK == /\ TypeOK
              /\ maxOpen \in PoolSizes
              /\ conns \in SUBSET Proc

PoolInit == /\ Init
            /\ maxOpen \in PoolSizes
            /\ conns = {}

-----------------------------------------------------------------------------

\* Statements that may wait for a row while they have a connection, and the
\* transaction of Rotate.
Holding == {"rotateLock", "rotateCommit", "logout", "familyBegin", "familyApply"}

\* Statements that wait for no row: one step takes a connection and returns it.
Momentary == {"findByEmail", "create", "findToken", "findUser", "listSessions"}

Free == maxOpen = 0 \/ Cardinality(conns) < maxOpen

\* createWithQuerier handed r.db in place of the transaction.
ConnectedTwice(p) == /\ pc[p] \in Momentary \cup {"rotateCommit"} => Free
                     /\ pc[p] \in Holding => p \in conns

\* What the next statement of p needs; issueSession is no statement.
Connected(p) == /\ pc[p] \in Momentary => Free
                /\ pc[p] \in Holding => p \in conns

Acquire(p) == /\ pc[p] \in {"rotateLock", "logout", "familyBegin"}
              /\ p \notin conns
              /\ Free
              /\ conns' = conns \cup {p}
              /\ UNCHANGED <<vars, maxOpen>>

\* Every statement on its own connection, those of the transaction too.
ReleaseEarly(p) == conns' = conns \ {p}

\* The connection goes back when the request's last statement ends: nothing
\* follows the statements in Holding but one another.
Release(p) == conns' = IF pc'[p] = "done" THEN conns \ {p} ELSE conns

PoolServer(p) == \/ Acquire(p)
                 \/ /\ Connected(p)
                    /\ Server(p)
                    /\ Release(p)
                    /\ UNCHANGED maxOpen

\* The clock and the accounts stand still: they decide which requests are
\* refused, and a refused request waits for nobody.
PoolNext == \E p \in Proc :
               \/ PoolServer(p)
               \/ Fail(p) /\ Release(p) /\ UNCHANGED maxOpen
               \/ Client(p) /\ UNCHANGED <<maxOpen, conns>>

\* The pool hands a returned connection to a request that waits for one, and
\* PostgreSQL a released row to a statement that waits for it: neither passes
\* over the same request for ever.
PoolSpec == /\ PoolInit /\ [][PoolNext]_poolVars
            /\ \A p \in Proc : SF_poolVars(PoolServer(p))

-----------------------------------------------------------------------------
(***************************************************************************)
(* Properties.                                                             *)
(***************************************************************************)

\* Whoever has a row locked has the connection it needs to let go of it, so
\* requests that wait for the row cannot starve it by holding all the others.
LockHolderConnected ==
    \A t \in Token : lock[t] # NoProc => lock[t] \in conns

\* The rows the next statement of p must find unlocked.
Needed(p) == {t \in Token : \/ pc[p] \in {"rotateLock", "logout"} /\ t = req[p].tok
                            \/ pc[p] = "familyApply" /\ t \in req[p].targets}

WaitsForRow(p) == p \in conns /\ ~Unlocked(Needed(p))

WaitsForConnection(p) ==
    /\ pc[p] \in Momentary \cup {"rotateLock", "logout", "familyBegin"}
    /\ p \notin conns
    /\ ~Free

\* Requests that wait never wait for each other in a circle, through rows and
\* connections together: as long as somebody waits, somebody who has a connection
\* has all it needs for its next statement.
SomebodyGoesOn ==
    (\E p \in Proc : WaitsForRow(p) \/ WaitsForConnection(p)) =>
        \E q \in conns : pc[q] \in Holding /\ ~WaitsForRow(q)

\* Every request is answered, however small the pool is: nobody waits for ever
\* for a row or a connection, because every way out of a statement or a
\* transaction gives both back and a transaction never asks for a second one.
EveryRequestAnswered ==
    \A p \in Proc : pc[p] \notin {"idle", "done"} ~> pc[p] = "done"
=============================================================================
