------------------------ MODULE ConnectionPoolProofs ------------------------
(***************************************************************************)
(* Proofs about ConnectionPool, for every number of requests and every     *)
(* size of the pool.                                                       *)
(***************************************************************************)
EXTENDS ConnectionPool, AuthAnswersProofs, FiniteSetTheorems

\* A transaction that has locked its row has its connection, and connections are
\* held only for what comes next.
PoolInv == /\ IndInv
           /\ maxOpen \in PoolSizes
           /\ conns \subseteq Proc
           /\ \A p \in conns : pc[p] \in Holding
           /\ \A p \in Proc : pc[p] = "rotateCommit" => p \in conns

\* On the pool a request makes the steps it makes without one.
LEMMA PoolStep ==
    ASSUME [PoolNext]_poolVars
    PROVE  [Next]_vars
<1>1. CASE UNCHANGED poolVars
  BY <1>1 DEF poolVars
<1>2. ASSUME NEW p \in Proc, PoolServer(p) PROVE [Next]_vars
  BY <1>2 DEF PoolServer, Acquire, Next
<1>3. ASSUME NEW p \in Proc, Fail(p) \/ Client(p) PROVE [Next]_vars
  BY <1>3 DEF Next
<1> QED
  BY <1>1, <1>2, <1>3 DEF PoolNext

\* The only way to a commit is through the row lock.
LEMMA ToCommit ==
    ASSUME TypeOK, NEW p \in Proc, Server(p), pc'[p] = "rotateCommit"
    PROVE  pc[p] = "rotateLock"
  BY DEF TypeOK, Server, SignInCheck, IssueSession, Create, FindToken, FindUser,
     RotateLock, RotateCommit, RevokeByTokenHash, ListSessions, RevokeSession,
     RevokeFamilyBegin, RevokeFamilyApply, Reject, Goto, Committed, Answer

\* A statement that takes a connection for longer than itself, or for a
\* transaction, is followed by its like or by the answer.
LEMMA StaysHolding ==
    ASSUME TypeOK, NEW p \in Proc, Server(p), pc[p] \in Holding, pc'[p] # "done"
    PROVE  pc'[p] \in Holding
  BY DEF TypeOK, Holding, Server, SignInCheck, IssueSession, Create, FindToken,
     FindUser, RotateLock, RotateCommit, RevokeByTokenHash, ListSessions,
     RevokeSession, RevokeFamilyBegin, RevokeFamilyApply, Reject, Goto, Committed,
     Answer

\* Clients begin and end requests that have no connection.
LEMMA ClientsHoldNothing ==
    ASSUME TypeOK, NEW p \in Proc, Client(p)
    PROVE  pc[p] \notin Holding
  BY DEF TypeOK, Holding, Client, StartSignIn, StartRefresh, StartLogout,
     StartListSessions, StartRevokeSession, Start, Deliver, Lose, Reset

LEMMA NextPoolInv ==
    ASSUME PoolInv, [PoolNext]_poolVars
    PROVE  PoolInv'
<1>0. IndInv /\ TypeOK /\ conns \subseteq Proc
  BY DEF PoolInv, IndInv
<1>1. IndInv'
  BY <1>0, PoolStep, NextIndInv
<1>2. ASSUME UNCHANGED <<pc, conns, maxOpen>> PROVE PoolInv'
  BY <1>1, <1>2 DEF PoolInv
<1>3. ASSUME NEW p \in Proc, Acquire(p) PROVE PoolInv'
  BY <1>1, <1>3 DEF PoolInv, Acquire, vars, Holding
<1>4. ASSUME NEW p \in Proc, Server(p) \/ Fail(p) \/ Client(p),
             conns' \subseteq conns,
             \A q \in Proc \ {p} : q \in conns => q \in conns',
             pc'[p] = "rotateCommit" => p \in conns',
             p \in conns' => pc'[p] \in Holding,
             UNCHANGED maxOpen
      PROVE  PoolInv'
  <2>1. \A q \in Proc \ {p} : pc'[q] = pc[q]
    BY <1>0, <1>4, OneMoves
  <2>2. \A q \in Proc : pc'[q] = "rotateCommit" => q \in conns'
    BY <1>4, <2>1 DEF PoolInv
  <2>3. \A q \in conns' : pc'[q] \in Holding
    BY <1>0, <1>4, <2>1 DEF PoolInv
  <2> QED
    BY <1>0, <1>1, <1>4, <2>2, <2>3 DEF PoolInv
<1>5. ASSUME NEW p \in Proc, Connected(p), Server(p), Release(p),
             UNCHANGED maxOpen
      PROVE  PoolInv'
  <2>1. pc'[p] = "rotateCommit" => p \in conns
    BY <1>0, <1>5, ToCommit DEF Connected, Holding
  <2>2. p \in conns' => pc'[p] \in Holding
    BY <1>0, <1>5, StaysHolding DEF Release, PoolInv
  <2>3. pc'[p] = "rotateCommit" => p \in conns'
    BY <1>5, <2>1 DEF Release
  <2> QED
    BY <1>4, <1>5, <2>2, <2>3 DEF Release
<1>6. ASSUME NEW p \in Proc, Fail(p), Release(p), UNCHANGED maxOpen PROVE PoolInv'
  <2>1. pc'[p] = "done"
    BY <1>0, <1>6 DEF Fail, Answer, TypeOK
  <2> QED
    BY <1>4, <1>6, <2>1 DEF Release
<1>7. ASSUME NEW p \in Proc, Client(p), UNCHANGED <<maxOpen, conns>> PROVE PoolInv'
  <2>1. pc'[p] # "rotateCommit"
    BY <1>0, <1>7 DEF Client, StartSignIn, StartRefresh, StartLogout,
       StartListSessions, StartRevokeSession, Start, Deliver, Lose, Reset, TypeOK
  <2>2. p \notin conns
    BY <1>0, <1>7, ClientsHoldNothing DEF PoolInv
  <2> QED
    BY <1>4, <1>7, <2>1, <2>2
<1> QED
  BY <1>2, <1>3, <1>5, <1>6, <1>7 DEF PoolNext, PoolServer, poolVars, vars

\* Whoever has a row locked has its connection and is about to commit.
LEMMA LockHolder ==
    ASSUME PoolInv, NEW t \in Token, lock[t] # NoProc
    PROVE  lock[t] \in conns /\ pc[lock[t]] = "rotateCommit"
<1>1. lock[t] \in Proc
  BY DEF PoolInv, IndInv, TypeOK
<1> QED
  BY <1>1 DEF PoolInv, IndInv, LockInv

\* The inductive invariant of the pool, for any number of requests and connections
\* (database/sql under Rotate, RevokeFamily and RevokeByTokenHash).
THEOREM PoolInvHolds == PoolSpec => []PoolInv
<1>1. PoolInit => PoolInv
  BY InitIndInv DEF PoolInit, PoolInv, Init
<1>2. PoolInv /\ [PoolNext]_poolVars => PoolInv'
  BY NextPoolInv
<1> QED
  BY <1>1, <1>2, PTL DEF PoolSpec

\* Whoever has a row locked holds a connection, whatever the size of the pool and
\* the number of requests that wait for one (Rotate's transaction).
THEOREM LockHolderConnectedHolds == PoolSpec => []LockHolderConnected
<1>1. PoolInv => LockHolderConnected
  BY LockHolder DEF LockHolderConnected
<1> QED
  BY <1>1, PoolInvHolds, PTL

\* Requests that wait for rows and connections never all wait for each other,
\* however many they are and however small the pool is: behind every row stands a
\* transaction that has its connection and needs nothing but to commit (Rotate,
\* RevokeFamily, RevokeByTokenHash on the pool).
THEOREM SomebodyGoesOnHolds == PoolSpec => []SomebodyGoesOn
<1>1. ASSUME PoolInv, NEW p \in Proc, WaitsForRow(p) \/ WaitsForConnection(p)
      PROVE  \E q \in conns : pc[q] \in Holding /\ ~WaitsForRow(q)
  <2>1. ASSUME NEW q \in conns, WaitsForRow(q)
        PROVE  \E h \in conns : pc[h] \in Holding /\ ~WaitsForRow(h)
    <3>1. PICK t \in Token : lock[t] # NoProc
      BY <2>1 DEF WaitsForRow, Needed, Unlocked
    <3>2. lock[t] \in conns /\ pc[lock[t]] = "rotateCommit"
      BY <1>1, <3>1, LockHolder
    <3>3. Needed(lock[t]) = {}
      BY <3>2 DEF Needed
    <3> QED
      BY <3>2, <3>3 DEF Holding, WaitsForRow, Unlocked
  <2>2. CASE WaitsForRow(p)
    BY <2>1, <2>2 DEF WaitsForRow
  <2>3. CASE WaitsForConnection(p)
    <3>1. maxOpen \in Nat /\ maxOpen # 0 /\ ~(Cardinality(conns) < maxOpen)
      BY <1>1, <2>3, PoolAssumption DEF WaitsForConnection, Free, PoolInv
    <3>2. conns # {}
      BY <3>1, FS_EmptySet
    <3>3. PICK q \in conns : TRUE
      BY <3>2
    <3> QED
      BY <1>1, <2>1, <3>3 DEF PoolInv
  <2> QED
    BY <1>1, <2>2, <2>3
<1>2. PoolInv => SomebodyGoesOn
  BY <1>1 DEF SomebodyGoesOn
<1> QED
  BY <1>2, PoolInvHolds, PTL

\* Waiting for connections adds no behaviour: on a pool of any size the requests
\* make the steps of AuthService, so what is proved of AuthService holds on it
\* (database/sql under SignIn, Refresh, Logout, ListSessions and RevokeSession).
THEOREM PoolImplements == PoolSpec => Spec
<1>1. PoolInit => Init
  BY DEF PoolInit
<1>2. [PoolNext]_poolVars => [Next]_vars
  BY PoolStep
<1> QED
  BY <1>1, <1>2, PTL DEF PoolSpec, Spec

\* In particular a session is handed from one token to the next, and once closed
\* never reopened, however requests wait for connections and rows (Rotate).
THEOREM PoolRefines == PoolSpec => ImplementsSessions
  BY PoolImplements, Refines, PTL
=============================================================================
