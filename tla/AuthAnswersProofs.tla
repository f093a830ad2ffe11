------------------------- MODULE AuthAnswersProofs -------------------------
(***************************************************************************)
(* Proofs of what the answers and the timestamps of AuthService promise,   *)
(* and that AuthService implements Sessions.                               *)
(***************************************************************************)
EXTENDS AuthServiceProofs

-----------------------------------------------------------------------------
(***************************************************************************)
(* What every step keeps.                                                  *)
(***************************************************************************)

\* Rows keep all but revoked_at, revocations and deletions are final, and time
\* does not go back.
Kept == /\ clock =< clock'
        /\ \A u \in User : users[u] = "deleted" => users'[u] = "deleted"
        /\ \A t \in Stored(rows) :
              /\ t \in Stored(rows')
              /\ rows'[t].family = rows[t].family
              /\ rows'[t].user = rows[t].user
              /\ rows'[t].created = rows[t].created
              /\ rows'[t].expires = rows[t].expires
              /\ IsRevoked(rows[t]) => rows'[t].revoked = rows[t].revoked
              /\ IsRevoked(rows[t]) => IsRevoked(rows'[t])

LEMMA ServerFrame ==
    ASSUME NEW p \in Proc, Server(p)
    PROVE  clock' = clock /\ users' = users /\ delivered' = delivered
  BY DEF Server, SignInCheck, IssueSession, Create, FindToken, FindUser, RotateLock,
     RotateCommit, RevokeByTokenHash, ListSessions, RevokeSession, RevokeFamilyBegin,
     RevokeFamilyApply, Reject

LEMMA ClientFrame ==
    ASSUME NEW p \in Proc, Client(p)
    PROVE  rows' = rows /\ lock' = lock /\ clock' = clock /\ users' = users
  BY DEF Client, StartSignIn, StartRefresh, StartLogout, StartListSessions,
     StartRevokeSession, Start, Deliver, Lose, Reset

LEMMA SameColumns ==
    ASSUME NEW a \in Row, NEW b \in Row, NEW x, [a EXCEPT !.revoked = x] = b
    PROVE  /\ a.family = b.family /\ a.user = b.user
           /\ a.created = b.created /\ a.expires = b.expires
  BY DEF Row

LEMMA StepKeeps ==
    ASSUME IndInv, [Next]_vars
    PROVE  Kept
<1>1. TypeOK /\ TypeOK' /\ OnlyRevoked
  BY NextTyping, StepOnlyRevokes DEF IndInv
<1>2. clock =< clock'
  <2>1. clock \in Nat
    BY <1>1, SlotAssumption DEF TypeOK
  <2>2. CASE UNCHANGED vars
    BY <2>1, <2>2 DEF vars
  <2>3. CASE Next
    BY <2>1, <2>3, ServerFrame, ClientFrame DEF Next, Fail, SetUser, Tick
  <2> QED
    BY <2>2, <2>3
<1>3. \A u \in User : users[u] = "deleted" => users'[u] = "deleted"
  <2>1. CASE UNCHANGED vars
    BY <2>1 DEF vars
  <2>2. CASE Next
    <3>1. CASE \E u \in User, s \in AdminStates : SetUser(u, s)
      BY <1>1, <3>1 DEF SetUser, TypeOK
    <3> QED
      BY <2>2, <3>1, ServerFrame, ClientFrame DEF Next, Fail, Tick
  <2> QED
    BY <2>1, <2>2
<1>4. ASSUME NEW t \in Stored(rows)
      PROVE  /\ t \in Stored(rows')
             /\ rows'[t].family = rows[t].family
             /\ rows'[t].user = rows[t].user
             /\ rows'[t].created = rows[t].created
             /\ rows'[t].expires = rows[t].expires
             /\ IsRevoked(rows[t]) => rows'[t] = rows[t]
  <2>1. /\ t \in Stored(rows')
        /\ IsRevoked(rows[t]) => rows'[t] = rows[t]
        /\ [rows'[t] EXCEPT !.revoked = rows[t].revoked] = rows[t]
    BY <1>1 DEF OnlyRevoked
  <2>2. rows'[t] \in Row /\ rows[t] \in Row
    BY <1>1, <2>1 DEF TypeOK, Table, Stored
  <2> QED
    BY <2>1, <2>2, SameColumns
<1> QED
  BY <1>2, <1>3, <1>4 DEF Kept

-----------------------------------------------------------------------------
(***************************************************************************)
(* The other requests.                                                     *)
(***************************************************************************)

\* LogoutRevokes, RevocationCoversView and RefusedForGood for one request.
Told(p) ==
    /\ /\ pc[p] = "done" /\ req[p].op = "logout" /\ res[p] = "ok"
       /\ req[p].tok \in Stored(rows)
       => IsRevoked(rows[req[p].tok])
    /\ pc[p] = "done" /\ res[p] # "error" =>
          \A t \in req[p].targets : IsRevoked(rows[t])
    /\ /\ pc[p] = "done" /\ req[p].op = "refresh" /\ res[p] = "invalid"
       /\ req[p].tok \in Stored(rows)
       => \/ IsRevoked(rows[req[p].tok])
          \/ IsExpired(rows[req[p].tok], clock)
          \/ users[rows[req[p].tok].user] = "deleted"

LEMMA StrongParts ==
    StrongInv <=> /\ IndInv
                  /\ History
                  /\ \A p \in Proc : Progress(p) /\ Told(p)
  BY DEF StrongInv, Told, LogoutRevokes, RevocationCoversView, RefusedForGood

LEMMA FamilyKept ==
    ASSUME Kept, NEW f
    PROVE  FamilyRows(rows, f) \subseteq FamilyRows(rows', f)
  BY FamilyStored DEF Kept

\* A token that is not stored yet is nobody's: requests name stored ones.
LEMMA SameToken ==
    ASSUME TypeOK, Kept, NEW q \in Proc, Progress(q), req[q].tok \in Stored(rows')
    PROVE  req[q].tok \in Stored(rows)
  BY SlotAssumption DEF Progress, Stored

\* What holds of a request goes on holding when it does not move.
LEMMA ProgressKept ==
    ASSUME TypeOK, TypeOK', Kept, NEW q \in Proc, Progress(q),
           req'[q] = req[q], pc'[q] = pc[q] \/ pc'[q] = "done"
    PROVE  Progress(q)'
<1> DEFINE r == req[q]
<1>1. r \in Request /\ r.at \in Nat /\ clock \in Nat /\ clock' \in Nat
  BY SlotAssumption DEF TypeOK, Request
<1>2. r.at =< clock'
  BY <1>1 DEF Progress, Kept
<1>3. r.tok \in Stored(rows') \cup {NoToken}
  BY DEF Progress, Kept
<1>4. r.op \in {"refresh", "logout"} /\ r.tok \in Stored(rows') =>
         rows'[r.tok].created =< r.at
  BY SameToken DEF Progress, Kept
<1>5. r.targets \subseteq FamilyRows(rows', r.fam)
  BY FamilyKept DEF Progress
<1>6. pc[q] \in {"familyBegin", "familyApply"} =>
         /\ r.fam \in Stored(rows')
         /\ rows'[r.fam].created =< r.at
         /\ \/ r.op = "refresh" /\ r.tok \in Stored(rows') /\ IsRevoked(rows'[r.tok])
            \/ r.op = "revoke" /\ rows'[r.fam].user = r.user
  BY DEF Progress, Kept
<1>7. CASE pc'[q] = pc[q]
  BY <1>2, <1>3, <1>4, <1>5, <1>6, <1>7 DEF Progress
<1>8. CASE pc'[q] = "done"
  BY <1>2, <1>3, <1>4, <1>5, <1>8 DEF Progress
<1> QED
  BY <1>7, <1>8

\* A dead token: no refresh will ever accept it again.
Dead(t) == \/ IsRevoked(rows[t])
           \/ IsExpired(rows[t], clock)
           \/ users[rows[t].user] = "deleted"

LEMMA DeadKept ==
    ASSUME TypeOK, TypeOK', Kept, NEW t \in Stored(rows), Dead(t)
    PROVE  Dead(t)'
<1>1. clock \in Nat /\ clock' \in Nat /\ rows[t].expires \in Nat /\ rows[t].user \in User
  BY RowTypes, SlotAssumption DEF TypeOK
<1>2. /\ IsRevoked(rows[t]) => IsRevoked(rows'[t])
      /\ rows'[t].expires = rows[t].expires
      /\ rows'[t].user = rows[t].user
      /\ clock =< clock'
      /\ \A u \in User : users[u] = "deleted" => users'[u] = "deleted"
  BY DEF Kept
<1>3. CASE IsRevoked(rows[t])
  BY <1>2, <1>3 DEF Dead
<1>4. CASE IsExpired(rows[t], clock)
  BY <1>1, <1>2, <1>4 DEF Dead, IsExpired
<1>5. CASE users[rows[t].user] = "deleted"
  BY <1>1, <1>2, <1>5 DEF Dead
<1> QED
  BY <1>3, <1>4, <1>5 DEF Dead

LEMMA ToldKept ==
    ASSUME TypeOK, TypeOK', Kept, NEW q \in Proc, Progress(q), Told(q),
           req'[q] = req[q], pc'[q] = pc[q], res'[q] = res[q]
    PROVE  Told(q)'
<1> DEFINE r == req[q]
<1>1. r.tok \in Stored(rows') => r.tok \in Stored(rows)
  BY SameToken
<1>2. \A t \in Stored(rows) : Dead(t) => Dead(t)'
  BY DeadKept
<1>3. \A t \in r.targets : t \in Stored(rows)
  BY FamilyStored DEF Progress
<1>4. \A t \in Stored(rows) : IsRevoked(rows[t]) => IsRevoked(rows'[t])
  BY DEF Kept
<1> QED
  BY <1>1, <1>2, <1>3, <1>4 DEF Told, Dead

-----------------------------------------------------------------------------
(***************************************************************************)
(* The request that moves.                                                 *)
(***************************************************************************)

\* An answer before any family revocation.
LEMMA AnswerTold ==
    ASSUME TypeOK, TypeOK', Kept, NEW p \in Proc, Progress(p),
           pc[p] \notin {"familyApply", "done"},
           req'[p] = req[p], pc'[p] = "done",
           /\ req[p].op = "logout" /\ res'[p] = "ok" /\ req[p].tok \in Stored(rows)
           => IsRevoked(rows'[req[p].tok]),
           /\ req[p].op = "refresh" /\ res'[p] = "invalid"
           /\ req[p].tok \in Stored(rows)
           => Dead(req[p].tok)
    PROVE  Progress(p)' /\ Told(p)'
<1>1. Progress(p)'
  BY ProgressKept
<1>2. req[p].tok \in Stored(rows') => req[p].tok \in Stored(rows)
  BY SameToken
<1>3. req[p].targets = {}
  BY DEF Progress
<1>4. req[p].tok \in Stored(rows) /\ Dead(req[p].tok) => Dead(req[p].tok)'
  BY DeadKept
<1> QED
  BY <1>1, <1>2, <1>3, <1>4 DEF Told, Dead

\* A step to another statement, with x for the request's variables.
LEMMA MoveOn ==
    ASSUME NEW p \in Proc, Progress(p), NEW x, NEW l,
           req'[p] = x, pc'[p] = l, rows' = rows, clock' = clock,
           x.op = req[p].op, x.tok = req[p].tok,
           x.at = req[p].at \/ (x.at = clock /\ x.op \notin {"refresh", "logout"}),
           clock \in Nat,
           l \notin {"findByEmail", "done"},
           l \in {"issueSession", "create"} => x.op = "signin",
           l \in {"findToken", "findUser", "rotateLock", "rotateCommit"} => x.op = "refresh",
           l # "familyApply" => x.targets = {},
           x.targets \subseteq FamilyRows(rows, x.fam),
           l \in {"familyBegin", "familyApply"} =>
              /\ x.fam \in Stored(rows)
              /\ rows[x.fam].created =< x.at
              /\ \/ x.op = "refresh" /\ x.tok \in Stored(rows) /\ IsRevoked(rows[x.tok])
                 \/ x.op = "revoke" /\ rows[x.fam].user = x.user
    PROVE  Progress(p)' /\ Told(p)'
<1>1. x.at =< clock
  BY DEF Progress
<1>2. /\ x.tok \in Stored(rows) \cup {NoToken}
      /\ x.op \in {"refresh", "logout"} /\ x.tok \in Stored(rows) =>
            rows[x.tok].created =< x.at
  BY DEF Progress
<1>3. Progress(p)'
  BY <1>1, <1>2 DEF Progress
<1>4. Told(p)'
  BY DEF Told
<1> QED
  BY <1>3, <1>4

LEMMA ServerTold ==
    ASSUME IndInv, TypeOK', History, Kept, NEW p \in Proc, Progress(p), Server(p)
    PROVE  Progress(p)' /\ Told(p)'
<1> DEFINE r == req[p]
<1>0. /\ TypeOK /\ clock' = clock /\ clock \in Nat /\ r \in Request
      /\ pc \in [Proc -> PC] /\ req \in [Proc -> Request] /\ res \in [Proc -> Answers]
  BY ServerFrame, SlotAssumption DEF IndInv, TypeOK
<1>1. ASSUME NEW a, Reject(p, a), pc[p] \notin {"familyApply", "done"},
             r.op = "logout" => a # "ok",
             r.op = "refresh" /\ a = "invalid" /\ r.tok \in Stored(rows) => Dead(r.tok)
      PROVE  Progress(p)' /\ Told(p)'
  <2>1. req'[p] = r /\ pc'[p] = "done" /\ res'[p] = a
    BY <1>0, <1>1 DEF Reject, Answer
  <2> QED
    BY <1>0, <1>1, <2>1, AnswerTold
<1>2. CASE SignInCheck(p)
  <2>1. pc[p] = "findByEmail" /\ r.op = "signin" /\ r.targets = {}
    BY <1>2 DEF SignInCheck, Progress
  <2>2. ASSUME NEW a, Reject(p, a) PROVE Progress(p)' /\ Told(p)'
    BY <2>1, <2>2, <1>1
  <2>3. CASE /\ Goto(p, "issueSession")
             /\ UNCHANGED <<rows, lock, users, clock, delivered, req, res>>
    <3>1. req'[p] = r /\ pc'[p] = "issueSession" /\ rows' = rows
      BY <1>0, <2>3 DEF Goto
    <3> QED
      BY <1>0, <2>1, <3>1, MoveOn
  <2> QED
    BY <1>2, <2>2, <2>3 DEF SignInCheck
<1>3. CASE IssueSession(p)
  <2>1. pc[p] = "issueSession" /\ r.op = "signin" /\ r.targets = {}
    BY <1>3 DEF IssueSession, Progress
  <2>2. ASSUME NEW a, Reject(p, a) PROVE Progress(p)' /\ Told(p)'
    BY <2>1, <2>2, <1>1
  <2>3. ASSUME NEW n \in FreshTokens,
               req' = [req EXCEPT ![p] = [@ EXCEPT !.at = clock, !.new = n]],
               Goto(p, "create"),
               UNCHANGED <<rows, lock, users, clock, delivered, res>>
        PROVE  Progress(p)' /\ Told(p)'
    <3> DEFINE x == [r EXCEPT !.at = clock, !.new = n]
    <3>1. req'[p] = x /\ pc'[p] = "create" /\ rows' = rows
      BY <1>0, <2>3 DEF Goto
    <3>2. x.op = r.op /\ x.tok = r.tok /\ x.at = clock /\ x.targets = {}
      BY <1>0, <2>1 DEF Request
    <3> HIDE DEF x
    <3> QED
      BY <1>0, <2>1, <3>1, <3>2, MoveOn
  <2> QED
    BY <1>3, <2>2, <2>3 DEF IssueSession
<1>4. CASE Create(p)
  <2>1. pc[p] = "create" /\ r.op = "signin" /\ req' = req /\ pc'[p] = "done"
    BY <1>0, <1>4 DEF Create, Committed, Answer, Progress
  <2> QED
    BY <1>0, <2>1, AnswerTold
<1>5. CASE FindToken(p)
  <2>1. pc[p] = "findToken" /\ r.op = "refresh" /\ r.targets = {}
    BY <1>5 DEF FindToken, Progress
  <2>2. CASE r.tok \notin Stored(rows) /\ Reject(p, "invalid")
    BY <2>1, <2>2, <1>1
  <2>3. CASE /\ r.tok \in Stored(rows)
             /\ IsRevoked(rows[r.tok])
             /\ req' = [req EXCEPT ![p] = [@ EXCEPT !.fam = rows[r.tok].family]]
             /\ Goto(p, "familyBegin")
             /\ UNCHANGED <<rows, lock, users, clock, delivered, res>>
    <3> DEFINE x == [r EXCEPT !.fam = rows[r.tok].family]
    <3>1. req'[p] = x /\ pc'[p] = "familyBegin" /\ rows' = rows
      BY <1>0, <2>3 DEF Goto
    <3>2. /\ x.op = r.op /\ x.tok = r.tok /\ x.at = r.at /\ x.targets = {}
          /\ x.fam = rows[r.tok].family
      BY <1>0, <2>1 DEF Request
    <3>3. rows[r.tok].family \in Stored(rows)
      BY <2>3 DEF IndInv, FamilyInv
    <3>4. rows[rows[r.tok].family].created =< r.at
      <4>1. rows[rows[r.tok].family].created =< rows[r.tok].created
        BY <2>3 DEF History
      <4>2. rows[r.tok].created =< r.at
        BY <2>1, <2>3 DEF Progress
      <4>3. /\ rows[rows[r.tok].family].created \in Nat
            /\ rows[r.tok].created \in Nat /\ r.at \in Nat
        BY <1>0, <2>3, <3>3, RowTypes DEF Request
      <4> QED
        BY <4>1, <4>2, <4>3
    <3> HIDE DEF x
    <3> QED
      BY <1>0, <2>1, <2>3, <3>1, <3>2, <3>3, <3>4, MoveOn
  <2>4. CASE /\ r.tok \in Stored(rows)
             /\ IsExpired(rows[r.tok], r.at)
             /\ Reject(p, "invalid")
    <3>1. Dead(r.tok)
      <4>1. r.at =< clock /\ r.at \in Nat /\ rows[r.tok].expires \in Nat
        BY <1>0, <2>4, RowTypes DEF Progress, Request
      <4> QED
        BY <1>0, <2>4, <4>1 DEF Dead, IsExpired
    <3> QED
      BY <2>1, <2>4, <3>1, <1>1
  <2>5. CASE /\ r.tok \in Stored(rows)
             /\ req' = [req EXCEPT ![p] = [@ EXCEPT !.user = rows[r.tok].user]]
             /\ Goto(p, "findUser")
             /\ UNCHANGED <<rows, lock, users, clock, delivered, res>>
    <3> DEFINE x == [r EXCEPT !.user = rows[r.tok].user]
    <3>1. req'[p] = x /\ pc'[p] = "findUser" /\ rows' = rows
      BY <1>0, <2>5 DEF Goto
    <3>2. x.op = r.op /\ x.tok = r.tok /\ x.at = r.at /\ x.targets = {}
      BY <1>0, <2>1 DEF Request
    <3> HIDE DEF x
    <3> QED
      BY <1>0, <2>1, <3>1, <3>2, MoveOn
  <2> QED
    BY <1>5, <2>2, <2>3, <2>4, <2>5 DEF FindToken
<1>6. CASE FindUser(p)
  <2>1. /\ pc[p] = "findUser" /\ r.op = "refresh" /\ r.targets = {}
        /\ r.user = rows[r.tok].user
    BY <1>6 DEF FindUser, Progress, IndInv, ArgumentsInv
  <2>2. CASE users[r.user] = "deleted" /\ Reject(p, "invalid")
    <3>1. Dead(r.tok)
      BY <2>1, <2>2 DEF Dead
    <3> QED
      BY <2>1, <2>2, <3>1, <1>1
  <2>3. CASE Reject(p, "inactive") \/ Reject(p, "error")
    BY <2>1, <2>3, <1>1
  <2>4. ASSUME NEW n \in FreshTokens,
               req' = [req EXCEPT ![p] = [@ EXCEPT !.new = n]],
               Goto(p, "rotateLock"),
               UNCHANGED <<rows, lock, users, clock, delivered, res>>
        PROVE  Progress(p)' /\ Told(p)'
    <3> DEFINE x == [r EXCEPT !.new = n]
    <3>1. req'[p] = x /\ pc'[p] = "rotateLock" /\ rows' = rows
      BY <1>0, <2>4 DEF Goto
    <3>2. x.op = r.op /\ x.tok = r.tok /\ x.at = r.at /\ x.targets = {}
      BY <1>0, <2>1 DEF Request
    <3> HIDE DEF x
    <3> QED
      BY <1>0, <2>1, <3>1, <3>2, MoveOn
  <2> QED
    BY <1>6, <2>2, <2>3, <2>4 DEF FindUser
<1>7. CASE RotateLock(p)
  <2>1. pc[p] = "rotateLock" /\ r.op = "refresh" /\ r.targets = {}
    BY <1>7 DEF RotateLock, Progress
  <2>2. CASE ~Rotatable(rows[r.tok], r.at) /\ Reject(p, "invalid")
    <3>1. r.tok \in Stored(rows) => Dead(r.tok)
      <4>1. r.at =< clock /\ r.at \in Nat
        BY <1>0 DEF Progress, Request
      <4>2. r.tok \in Stored(rows) => rows[r.tok].expires \in Nat
        BY <1>0, RowTypes
      <4> QED
        BY <1>0, <2>2, <4>1, <4>2 DEF Dead, Rotatable, IsExpired
    <3> QED
      BY <2>1, <2>2, <3>1, <1>1
  <2>3. CASE /\ Goto(p, "rotateCommit")
             /\ UNCHANGED <<rows, users, clock, delivered, req, res>>
    <3>1. req'[p] = r /\ pc'[p] = "rotateCommit" /\ rows' = rows
      BY <1>0, <2>3 DEF Goto
    <3> QED
      BY <1>0, <2>1, <3>1, MoveOn
  <2> QED
    BY <1>7, <2>2, <2>3 DEF RotateLock
<1>8. CASE RotateCommit(p)
  <2>1. /\ pc[p] = "rotateCommit" /\ r.op = "refresh" /\ req' = req
        /\ pc'[p] = "done" /\ res'[p] \in {"ok", "error"}
    BY <1>0, <1>8 DEF RotateCommit, Committed, Answer, Progress
  <2> QED
    BY <1>0, <2>1, AnswerTold
<1>9. CASE RevokeByTokenHash(p)
  <2>1. /\ pc[p] = "logout" /\ r.op = "logout" /\ req' = req /\ pc'[p] = "done"
        /\ rows' = Revoke(rows, {r.tok}, r.at) /\ r.at \in Nat
    BY <1>0, <1>9 DEF RevokeByTokenHash, Committed, Answer, IndInv, AnswerInv, Request
  <2>2. r.tok \in Stored(rows) => IsRevoked(rows'[r.tok])
    BY <1>0, <2>1, RowTypes, RevokeFacts
  <2> QED
    BY <1>0, <2>1, <2>2, AnswerTold
<1>10. CASE ListSessions(p)
  BY <1>10, <1>1 DEF ListSessions
<1>11. CASE RevokeSession(p)
  <2>1. pc[p] = "listSessions" /\ r.op = "revoke" /\ r.targets = {}
    BY <1>11 DEF RevokeSession, Progress
  <2>2. CASE Reject(p, "notfound")
    BY <2>1, <2>2, <1>1
  <2>3. CASE /\ r.fam \in ListedFamilies(rows, r.user, r.at)
             /\ req' = [req EXCEPT ![p] = [@ EXCEPT !.at = clock]]
             /\ Goto(p, "familyBegin")
             /\ UNCHANGED <<rows, lock, users, clock, delivered, res>>
    <3> DEFINE x == [r EXCEPT !.at = clock]
    <3>1. req'[p] = x /\ pc'[p] = "familyBegin" /\ rows' = rows
      BY <1>0, <2>3 DEF Goto
    <3>2. /\ x.op = r.op /\ x.tok = r.tok /\ x.at = clock /\ x.targets = {}
          /\ x.fam = r.fam /\ x.user = r.user
      BY <1>0, <2>1 DEF Request
    <3>3. PICK t \in Stored(rows) : rows[t].family = r.fam /\ rows[t].user = r.user
      BY <2>3 DEF ListedFamilies, Unexpired
    <3>4. /\ r.fam \in Stored(rows)
          /\ rows[r.fam].user = r.user
          /\ rows[r.fam].created =< clock
      BY <3>3 DEF IndInv, FamilyInv, History
    <3> HIDE DEF x
    <3> QED
      BY <1>0, <2>1, <3>1, <3>2, <3>4, MoveOn
  <2> QED
    BY <1>11, <2>2, <2>3 DEF RevokeSession
<1>12. CASE RevokeFamilyBegin(p)
  <2> DEFINE x == [r EXCEPT !.targets = LiveRows(rows, r.fam)]
  <2>1. pc[p] = "familyBegin"
    BY <1>12 DEF RevokeFamilyBegin
  <2>2. req'[p] = x /\ pc'[p] = "familyApply" /\ rows' = rows
    BY <1>0, <1>12 DEF RevokeFamilyBegin, Goto
  <2>3. /\ x.op = r.op /\ x.tok = r.tok /\ x.at = r.at /\ x.fam = r.fam
        /\ x.user = r.user /\ x.targets = LiveRows(rows, r.fam)
    BY <1>0 DEF Request
  <2>4. x.targets \subseteq FamilyRows(rows, x.fam)
    BY <2>3 DEF LiveRows
  <2>5. /\ r.fam \in Stored(rows)
        /\ rows[r.fam].created =< r.at
        /\ \/ r.op = "refresh" /\ r.tok \in Stored(rows) /\ IsRevoked(rows[r.tok])
           \/ r.op = "revoke" /\ rows[r.fam].user = r.user
    BY <2>1 DEF Progress
  <2> HIDE DEF x
  <2> QED
    BY <1>0, <2>2, <2>3, <2>4, <2>5, MoveOn
<1>13. CASE RevokeFamilyApply(p)
  <2>1. /\ pc[p] = "familyApply" /\ req' = req /\ pc'[p] = "done"
        /\ rows' = Revoke(rows, r.targets, r.at) /\ r.at \in Nat
    BY <1>0, <1>13 DEF RevokeFamilyApply, Committed, Answer, Request
  <2>2. \A t \in r.targets : t \in Stored(rows)
    BY FamilyStored DEF Progress
  <2>3. \A t \in r.targets : IsRevoked(rows'[t])
    BY <1>0, <2>1, <2>2, RowTypes, RevokeFacts
  <2>4. Progress(p)'
    BY <1>0, <2>1, ProgressKept
  <2>5. /\ r.op # "logout"
        /\ r.op = "refresh" => r.tok \in Stored(rows) /\ IsRevoked(rows[r.tok])
    BY <2>1 DEF Progress
  <2>6. r.op = "refresh" => IsRevoked(rows'[r.tok])
    BY <2>5 DEF Kept
  <2> QED
    BY <2>1, <2>3, <2>4, <2>5, <2>6 DEF Told
<1> QED
  BY <1>2, <1>3, <1>4, <1>5, <1>6, <1>7, <1>8, <1>9, <1>10, <1>11, <1>12, <1>13
     DEF Server

LEMMA ClientTold ==
    ASSUME IndInv, TypeOK', History, NEW p \in Proc, Client(p)
    PROVE  Progress(p)' /\ Told(p)'
<1>0. /\ TypeOK /\ clock' = clock /\ clock \in Nat /\ rows' = rows
      /\ pc \in [Proc -> PC] /\ req \in [Proc -> Request]
      /\ delivered \subseteq Stored(rows)
  BY ClientFrame, SlotAssumption DEF IndInv, TypeOK, AnswerInv
<1>1. ASSUME NEW x, NEW l, Start(p, x, l), x.targets = {},
             x.at = 0 \/ x.at = clock,
             x.tok \in delivered \cup {NoToken},
             x.op \in {"refresh", "logout"} => x.at = clock,
             l \in {"findByEmail", "findToken", "logout", "listSessions"},
             l = "findByEmail" => x.op = "signin",
             l = "findToken" => x.op = "refresh"
      PROVE  Progress(p)' /\ Told(p)'
  <2>1. req'[p] = x /\ pc'[p] = l
    BY <1>0, <1>1 DEF Start
  <2>2. NoToken \notin Stored(rows)
    BY SlotAssumption DEF Stored
  <2>3. x.tok \in Stored(rows) => rows[x.tok].created =< clock
    BY DEF History
  <2>4. x.tok \in Stored(rows) \cup {NoToken}
    BY <1>0, <1>1
  <2>5. x.at =< clock
    BY <1>0, <1>1
  <2>6. Progress(p)'
    BY <1>0, <1>1, <2>1, <2>3, <2>4, <2>5 DEF Progress
  <2>7. Told(p)'
    BY <1>1, <2>1 DEF Told
  <2> QED
    BY <2>6, <2>7
<1>2. ASSUME NEW u \in User, StartSignIn(p, u) PROVE Progress(p)' /\ Told(p)'
  <2> DEFINE x == [NoRequest EXCEPT !.op = "signin", !.user = u]
  <2>1. x.targets = {} /\ x.at = 0 /\ x.tok = NoToken /\ x.op = "signin"
    BY DEF NoRequest
  <2> QED
    BY <1>1, <1>2, <2>1 DEF StartSignIn
<1>3. ASSUME NEW t \in delivered \cup {NoToken}, StartRefresh(p, t)
      PROVE  Progress(p)' /\ Told(p)'
  <2> DEFINE x == [NoRequest EXCEPT !.op = "refresh", !.tok = t, !.at = clock]
  <2>1. x.targets = {} /\ x.at = clock /\ x.tok = t /\ x.op = "refresh"
    BY DEF NoRequest
  <2> QED
    BY <1>1, <1>3, <2>1 DEF StartRefresh
<1>4. ASSUME NEW t \in delivered \cup {NoToken}, StartLogout(p, t)
      PROVE  Progress(p)' /\ Told(p)'
  <2> DEFINE x == [NoRequest EXCEPT !.op = "logout", !.tok = t, !.at = clock]
  <2>1. x.targets = {} /\ x.at = clock /\ x.tok = t /\ x.op = "logout"
    BY DEF NoRequest
  <2> QED
    BY <1>1, <1>4, <2>1 DEF StartLogout
<1>5. ASSUME NEW u \in User, StartListSessions(p, u) PROVE Progress(p)' /\ Told(p)'
  <2> DEFINE x == [NoRequest EXCEPT !.op = "list", !.user = u, !.at = clock]
  <2>1. x.targets = {} /\ x.at = clock /\ x.tok = NoToken /\ x.op = "list"
    BY DEF NoRequest
  <2> QED
    BY <1>1, <1>5, <2>1 DEF StartListSessions
<1>6. ASSUME NEW u \in User, NEW f \in SessionIds, StartRevokeSession(p, u, f)
      PROVE  Progress(p)' /\ Told(p)'
  <2> DEFINE x == [NoRequest EXCEPT !.op = "revoke", !.user = u, !.fam = f,
                                    !.at = clock]
  <2>1. x.targets = {} /\ x.at = clock /\ x.tok = NoToken /\ x.op = "revoke"
    BY DEF NoRequest
  <2> QED
    BY <1>1, <1>6, <2>1 DEF StartRevokeSession
<1>7. CASE Deliver(p) \/ Lose(p)
  <2>1. req'[p] = NoRequest /\ pc'[p] = "idle"
    BY <1>0, <1>7 DEF Deliver, Lose, Reset
  <2>2. /\ NoRequest.targets = {} /\ NoRequest.at = 0 /\ NoRequest.tok = NoToken
        /\ NoRequest.op = "none"
    BY DEF NoRequest
  <2>3. 0 =< clock
    BY <1>0
  <2>4. Progress(p)'
    BY <1>0, <2>1, <2>2, <2>3 DEF Progress
  <2> QED
    BY <2>1, <2>4 DEF Told
<1> QED
  BY <1>2, <1>3, <1>4, <1>5, <1>6, <1>7 DEF Client

LEMMA FailTold ==
    ASSUME TypeOK, TypeOK', Kept, NEW p \in Proc, Progress(p), Fail(p)
    PROVE  Progress(p)' /\ Told(p)'
<1>1. req'[p] = req[p] /\ pc'[p] = "done" /\ res'[p] = "error"
  BY DEF Fail, Answer, TypeOK
<1>2. Progress(p)'
  BY <1>1, ProgressKept
<1> QED
  BY <1>1, <1>2 DEF Told

\* One request moves at a time.
LEMMA OneMoves ==
    ASSUME TypeOK, NEW p \in Proc, Server(p) \/ Client(p) \/ Fail(p)
    PROVE  \A q \in Proc \ {p} : pc'[q] = pc[q] /\ req'[q] = req[q] /\ res'[q] = res[q]
<1>1. CASE Server(p)
  BY <1>1 DEF Server, SignInCheck, IssueSession, Create, FindToken, FindUser, RotateLock,
     RotateCommit, RevokeByTokenHash, ListSessions, RevokeSession, RevokeFamilyBegin,
     RevokeFamilyApply, Reject, Goto, Committed, Answer, TypeOK
<1>2. CASE Client(p)
  BY <1>2 DEF Client, StartSignIn, StartRefresh, StartLogout, StartListSessions,
     StartRevokeSession, Start, Deliver, Lose, Reset, TypeOK
<1>3. CASE Fail(p)
  BY <1>3 DEF Fail, Answer, TypeOK
<1> QED
  BY <1>1, <1>2, <1>3

LEMMA NextTold ==
    ASSUME StrongInv, [Next]_vars, NEW q \in Proc
    PROVE  Progress(q)' /\ Told(q)'
<1>1. /\ IndInv /\ History /\ TypeOK /\ TypeOK' /\ Kept
      /\ \A p \in Proc : Progress(p) /\ Told(p)
  BY StrongParts, NextTyping, StepKeeps DEF IndInv
<1>2. ASSUME req'[q] = req[q], pc'[q] = pc[q], res'[q] = res[q]
      PROVE  Progress(q)' /\ Told(q)'
  BY <1>1, <1>2, ProgressKept, ToldKept
<1>3. ASSUME NEW p \in Proc, Server(p) \/ Client(p) \/ Fail(p)
      PROVE  Progress(q)' /\ Told(q)'
  <2>1. CASE p = q
    BY <1>1, <1>3, <2>1, ServerTold, ClientTold, FailTold
  <2>2. CASE p # q
    BY <1>1, <1>2, <1>3, <2>2, OneMoves
  <2> QED
    BY <2>1, <2>2
<1>4. CASE UNCHANGED vars \/ Tick \/ \E u \in User, s \in AdminStates : SetUser(u, s)
  BY <1>2, <1>4 DEF vars, Tick, SetUser
<1> QED
  BY <1>3, <1>4 DEF Next

-----------------------------------------------------------------------------
(***************************************************************************)
(* The times in the table.                                                 *)
(***************************************************************************)

LEMMA HistorySame ==
    ASSUME TypeOK, TypeOK', History, rows' = rows, clock =< clock'
    PROVE  History'
<1>1. clock \in Nat /\ clock' \in Nat
  BY SlotAssumption DEF TypeOK
<1>2. \A t \in Stored(rows) : rows[t].created =< clock'
  BY <1>1, RowTypes DEF History
<1> QED
  BY <1>2 DEF History

\* A revocation with a time after the sessions it closes were opened.
LEMMA HistoryRevoke ==
    ASSUME TypeOK, TypeOK', IndInv, History, NEW ts, NEW now \in Nat,
           rows' = Revoke(rows, ts, now), clock' = clock,
           \A t \in ts : t \in Stored(rows) => rows[rows[t].family].created =< now
    PROVE  History'
<1>1. /\ Stored(rows') = Stored(rows)
      /\ \A t \in Stored(rows) : /\ IsRevoked(rows[t]) => rows'[t] = rows[t]
                                 /\ rows'[t].family = rows[t].family
                                 /\ rows'[t].user = rows[t].user
                                 /\ rows'[t].created = rows[t].created
  BY RowTypes, RevokeFacts
<1>2. \A t \in Stored(rows) : t \in Token /\ rows[t].family \in Stored(rows)
  BY RowTypes DEF IndInv, FamilyInv
<1>3. \A f : FamilyRows(rows', f) = FamilyRows(rows, f)
  BY <1>1, FamilyStored
<1>4. ASSUME NEW t \in Stored(rows), IsRevoked(rows'[t])
      PROVE  rows'[t].revoked >= rows[rows[t].family].created
  <2>1. CASE IsRevoked(rows[t])
    BY <1>1, <2>1 DEF History
  <2>2. CASE ~IsRevoked(rows[t])
    <3>1. t \in ts
      BY <1>2, <1>4, <2>2, RowTypes, RevokeFacts
    <3>2. rows'[t].revoked = now
      <4>1. rows'[t] = [rows[t] EXCEPT !.revoked = now]
        BY <1>2, <2>2, <3>1 DEF Revoke, SetRevoked
      <4> QED
        BY <4>1, RowTypes DEF Row
    <3>3. rows[rows[t].family].created \in Nat
      BY <1>2, RowTypes
    <3> QED
      BY <3>1, <3>2, <3>3
  <2> QED
    BY <2>1, <2>2
<1>5. \A t \in Stored(rows) : ~IsRevoked(rows'[t]) => ~IsRevoked(rows[t])
  BY <1>1
<1>6. \A t \in Stored(rows) : FamilyRows(rows, rows[t].family) \subseteq Stored(rows)
  BY FamilyStored
<1> QED
  BY <1>1, <1>2, <1>3, <1>4, <1>5, <1>6 DEF History

LEMMA HistoryCreate ==
    ASSUME TypeOK, TypeOK', IndInv, History, NEW n \in Token, rows[n] = NoRow,
           NEW u \in User, NEW now \in Nat, now =< clock, clock' = clock,
           rows' = CreateRefreshToken(rows, n, NewRefreshToken(n, u, now))
    PROVE  History'
<1>1. /\ Stored(rows') = Stored(rows) \cup {n}
      /\ n \notin Stored(rows)
      /\ rows'[n] = NewRefreshToken(n, u, now)
      /\ \A t \in Stored(rows) : rows'[t] = rows[t]
  <2>1. NewRefreshToken(n, u, now) \in Row
    BY NewRowFacts
  <2>2. \A t \in Stored(rows) : t # n /\ t \in Token
    BY DEF Stored
  <2> QED
    BY <2>1, <2>2, RowTypes, InsertFacts
<1>2. rows'[n].family = n /\ rows'[n].created = now /\ ~IsRevoked(rows'[n])
  BY <1>1, NewRowFacts DEF NewRefreshToken, IsRevoked
<1>3. \A t \in Stored(rows) : rows[t].family \in Stored(rows)
  BY DEF IndInv, FamilyInv
<1>4. FamilyRows(rows', n) = {n}
  BY <1>1, <1>2, <1>3, FamilyStored
<1>5. \A f \in Stored(rows) : FamilyRows(rows', f) = FamilyRows(rows, f)
  BY <1>1, <1>2, FamilyStored
<1>6. \A t \in Stored(rows) : FamilyRows(rows, rows[t].family) \subseteq Stored(rows)
  BY FamilyStored
<1> QED
  BY <1>1, <1>2, <1>3, <1>4, <1>5, <1>6 DEF History

LEMMA HistoryRotate ==
    ASSUME TypeOK, TypeOK', IndInv, History,
           NEW t \in Stored(rows), NEW now \in Nat, Rotatable(rows[t], now),
           NEW n \in Token, rows[n] = NoRow,
           rows' = Rotate(rows, t, n, rows[t].user, now),
           rows[t].created =< now, now =< clock, clock' = clock
    PROVE  History'
<1> DEFINE f == rows[t].family
<1>1. /\ Stored(rows') = Stored(rows) \cup {n}
      /\ n \notin Stored(rows)
      /\ \A s \in Stored(rows) : s # t => rows'[s] = rows[s]
  BY RowTypes, RotatedRows
<1>2. /\ rows'[n].family = f
      /\ rows'[n].user = rows[t].user
      /\ rows'[n].created = now
      /\ ~IsRevoked(rows'[n])
  BY RotatedRows
<1>3. /\ rows'[t].family = f
      /\ rows'[t].user = rows[t].user
      /\ rows'[t].created = rows[t].created
      /\ rows'[t].revoked = now
      /\ IsRevoked(rows'[t])
  BY RotatedRows
<1>4. \A s \in Stored(rows) : /\ s \in Token
                              /\ rows[s].family \in Stored(rows)
                              /\ rows[s].created \in Nat
                              /\ rows'[s].family = rows[s].family
                              /\ rows'[s].user = rows[s].user
                              /\ rows'[s].created = rows[s].created
  BY <1>1, <1>3, RowTypes DEF IndInv, FamilyInv
<1>5. f \in Stored(rows) /\ rows[f].created =< rows[t].created /\ rows[f].user = rows[t].user
  BY <1>4 DEF History
<1>6. ~IsRevoked(rows[t])
  BY DEF Rotatable
<1>7. \A s \in FamilyRows(rows, f) : rows[s].created =< rows[t].created
  BY <1>6 DEF History
<1>8. FamilyRows(rows', f) = FamilyRows(rows, f) \cup {n}
  BY <1>1, <1>2, <1>4, FamilyStored
<1>9. \A g : g # f => FamilyRows(rows', g) = FamilyRows(rows, g)
  BY <1>1, <1>2, <1>4, FamilyStored
<1>10. \A g : FamilyRows(rows, g) \subseteq Stored(rows)
  BY FamilyStored
<1>11. \A s \in LiveRows(rows, f) : s = t
  BY <1>4, <1>6, FamilyStored DEF IndInv, OneLivePerFamily, LiveRows
<1>12. ASSUME NEW s \in Stored(rows), s # t, rows[s].family = f PROVE IsRevoked(rows[s])
  BY <1>11, <1>12, FamilyStored DEF LiveRows
<1>13. now =< clock' /\ clock' \in Nat /\ rows[f].created \in Nat /\ rows[t].created \in Nat
  BY <1>4, <1>5, SlotAssumption DEF TypeOK
<1> HIDE DEF f
<1> DEFINE Good(s) ==
       /\ rows'[s].created =< clock'
       /\ rows'[rows'[s].family].user = rows'[s].user
       /\ rows'[rows'[s].family].created =< rows'[s].created
       /\ IsRevoked(rows'[s]) => rows'[s].revoked >= rows'[rows'[s].family].created
       /\ ~IsRevoked(rows'[s]) => \A r \in FamilyRows(rows', rows'[s].family) :
                                     rows'[r].created =< rows'[s].created
<1>14. Good(n)
  <2>1. \A r \in FamilyRows(rows', f) : rows'[r].created =< now
    BY <1>2, <1>4, <1>7, <1>8, <1>10, <1>13
  <2> QED
    BY <1>2, <1>4, <1>5, <1>13, <2>1
<1>15. Good(t)
  BY <1>3, <1>4, <1>5, <1>13 DEF History
<1>16. ASSUME NEW s \in Stored(rows), s # t PROVE Good(s)
  <2>1. rows'[s] = rows[s]
    BY <1>1, <1>16
  <2>2. CASE rows[s].family = f
    BY <1>4, <1>5, <1>12, <1>16, <2>1, <2>2 DEF History
  <2>3. CASE rows[s].family # f
    BY <1>4, <1>9, <1>10, <2>1, <2>3 DEF History
  <2> QED
    BY <2>2, <2>3
<1>17. \A s \in Stored(rows') : Good(s)
  BY <1>1, <1>14, <1>15, <1>16
<1> QED
  BY <1>17 DEF History

LEMMA NextHistory ==
    ASSUME StrongInv, [Next]_vars
    PROVE  History'
<1>1. /\ IndInv /\ History /\ TypeOK /\ TypeOK' /\ Kept
      /\ \A p \in Proc : Progress(p)
  BY StrongParts, NextTyping, StepKeeps DEF IndInv
<1>2. CASE rows' = rows
  BY <1>1, <1>2, HistorySame DEF Kept
<1>3. ASSUME NEW p \in Proc, Server(p) PROVE History'
  <2> DEFINE r == req[p]
  <2>1. clock' = clock /\ r \in Request /\ r.at \in Nat /\ clock \in Nat /\ r.at =< clock
    BY <1>1, <1>3, ServerFrame, SlotAssumption DEF TypeOK, Request, Progress
  <2>2. CASE Create(p)
    <3>1. /\ r.new \in Token /\ rows[r.new] = NoRow /\ r.user \in User
          /\ rows' = CreateRefreshToken(rows, r.new, NewRefreshToken(r.new, r.user, r.at))
      BY <1>1, <2>2 DEF Create, IndInv, ArgumentsInv, DrawnInv
    <3> QED
      BY <1>1, <2>1, <3>1, HistoryCreate
  <2>3. CASE RotateCommit(p)
    <3>1. /\ pc[p] = "rotateCommit" /\ r.new \in Token /\ rows[r.new] = NoRow
          /\ r.tok \in Stored(rows) /\ r.user = rows[r.tok].user
          /\ Rotatable(rows[r.tok], r.at)
          /\ rows' = Rotate(rows, r.tok, r.new, rows[r.tok].user, r.at)
      BY <1>1, <2>3 DEF RotateCommit, IndInv, ArgumentsInv, DrawnInv, LockInv
    <3>2. rows[r.tok].created =< r.at
      BY <1>1, <3>1 DEF Progress
    <3> QED
      BY <1>1, <2>1, <3>1, <3>2, HistoryRotate
  <2>4. CASE RevokeByTokenHash(p)
    <3>1. /\ r.op = "logout" /\ rows' = Revoke(rows, {r.tok}, r.at)
      BY <1>1, <2>4 DEF RevokeByTokenHash, IndInv, AnswerInv
    <3>2. r.tok \in Stored(rows) => rows[rows[r.tok].family].created =< r.at
      <4> SUFFICES ASSUME r.tok \in Stored(rows)
                   PROVE  rows[rows[r.tok].family].created =< r.at
        OBVIOUS
      <4>1. rows[rows[r.tok].family].created =< rows[r.tok].created
        BY <1>1 DEF History
      <4>2. rows[r.tok].created =< r.at
        BY <1>1, <3>1 DEF Progress
      <4>3. rows[rows[r.tok].family].created \in Nat /\ rows[r.tok].created \in Nat
        BY <1>1, RowTypes DEF IndInv, FamilyInv
      <4> QED
        BY <2>1, <4>1, <4>2, <4>3
    <3> QED
      BY <1>1, <2>1, <3>1, <3>2, HistoryRevoke
  <2>5. CASE RevokeFamilyApply(p)
    <3>1. /\ pc[p] = "familyApply" /\ rows' = Revoke(rows, r.targets, r.at)
      BY <2>5 DEF RevokeFamilyApply
    <3>2. \A t \in r.targets : rows[rows[t].family].created =< r.at
      BY <1>1, <3>1, FamilyStored DEF Progress
    <3> QED
      BY <1>1, <2>1, <3>1, <3>2, HistoryRevoke
  <2>6. CASE SignInCheck(p) \/ IssueSession(p) \/ FindToken(p) \/ FindUser(p)
             \/ RotateLock(p) \/ ListSessions(p) \/ RevokeSession(p)
             \/ RevokeFamilyBegin(p)
    BY <2>6, <1>2 DEF SignInCheck, IssueSession, FindToken, FindUser, RotateLock,
       ListSessions, RevokeSession, RevokeFamilyBegin, Reject
  <2> QED
    BY <1>3, <2>2, <2>3, <2>4, <2>5, <2>6 DEF Server
<1>4. CASE UNCHANGED vars
  BY <1>2, <1>4 DEF vars
<1>5. CASE Next
  BY <1>2, <1>3, <1>5, ClientFrame DEF Next, Fail, SetUser, Tick
<1> QED
  BY <1>4, <1>5

-----------------------------------------------------------------------------
(***************************************************************************)
(* The strengthened invariant, and what follows from it.                   *)
(***************************************************************************)

LEMMA InitStrongInv == Init => StrongInv
<1> SUFFICES ASSUME Init PROVE StrongInv
  OBVIOUS
<1>1. Stored(rows) = {} /\ clock = 0
  BY DEF Init, Stored, EmptyTable
<1>2. \A p \in Proc : pc[p] = "idle" /\ req[p] = NoRequest
  BY DEF Init
<1>3. /\ NoRequest.at = 0 /\ NoRequest.tok = NoToken
      /\ NoRequest.op = "none" /\ NoRequest.targets = {}
  BY DEF NoRequest
<1>4. IndInv
  BY InitIndInv
<1>5. History
  BY <1>1 DEF History
<1>6. ASSUME NEW p \in Proc PROVE Progress(p) /\ Told(p)
  BY <1>1, <1>2, <1>3 DEF Progress, Told
<1> QED
  BY <1>4, <1>5, <1>6, StrongParts

LEMMA NextStrongInv ==
    ASSUME StrongInv, [Next]_vars
    PROVE  StrongInv'
<1>1. IndInv'
  BY NextIndInv, StrongParts
<1>2. History'
  BY NextHistory
<1>3. \A p \in Proc : Progress(p)' /\ Told(p)'
  BY NextTold
<1> QED
  BY <1>1, <1>2, <1>3 DEF StrongInv, Told, LogoutRevokes, RevocationCoversView,
     RefusedForGood

\* The invariant behind the answers: it holds in every reachable state, for any
\* number of concurrent requests, sessions and accounts.
THEOREM StrongInvHolds == Spec => []StrongInv
<1>1. Init => StrongInv
  BY InitStrongInv
<1>2. StrongInv /\ [Next]_vars => StrongInv'
  BY NextStrongInv
<1> QED
  BY <1>1, <1>2, PTL DEF Spec

\* A logout that reported success left its token revoked (Logout,
\* RevokeByTokenHash), whatever refreshes of the token ran concurrently.
THEOREM LogoutRevokesHolds == Spec => []LogoutRevokes
<1>1. StrongInv => LogoutRevokes
  BY DEF StrongInv
<1> QED
  BY <1>1, StrongInvHolds, PTL

\* A family revocation that reported success (RevokeFamily) has revoked all the
\* rows it saw.
THEOREM RevocationCoversViewHolds == Spec => []RevocationCoversView
<1>1. StrongInv => RevocationCoversView
  BY DEF StrongInv
<1> QED
  BY <1>1, StrongInvHolds, PTL

\* A refresh token refused with 401 is dead for good (Refresh, Rotate).
THEOREM RefusedForGoodHolds == Spec => []RefusedForGood
<1>1. StrongInv => RefusedForGood
  BY DEF StrongInv
<1> QED
  BY <1>1, StrongInvHolds, PTL

\* No row is revoked at a time before its session was opened, however late the
\* captured "now" is written.
THEOREM RevokedAfterOpenedHolds == Spec => []RevokedAfterOpened
<1>1. StrongInv => RevokedAfterOpened
  BY DEF StrongInv, History, RevokedAfterOpened
<1> QED
  BY <1>1, StrongInvHolds, PTL

\* A session that is alive is listed with its live row and no other
\* (BuildListLatestSessionsByUserSQL): no other row of it is newer, and only one
\* created at the very same time could be listed in its place.
THEOREM ListingShowsLiveHolds == Spec => []ListingShowsLive
<1>1. ASSUME StrongInv PROVE ListingShowsLive
  <2> SUFFICES ASSUME NEW t \in Stored(rows), NEW now \in 0..clock,
                      ~IsRevoked(rows[t]), ~IsExpired(rows[t], now),
                      \A s \in FamilyRows(rows, rows[t].family) \ {t} :
                         rows[s].created # rows[t].created
               PROVE  ListedRows(rows, rows[t].user, rows[t].family, now) = {t}
    BY DEF ListingShowsLive
  <2> DEFINE seen == Unexpired(rows, rows[t].user, now)
                       \cap FamilyRows(rows, rows[t].family)
  <2>1. TypeOK /\ History
    BY <1>1 DEF StrongInv, IndInv
  <2>2. rows[t].expires > now
    <3>1. rows[t].expires \in Nat /\ clock \in Nat
      BY <2>1, RowTypes, SlotAssumption DEF TypeOK
    <3> QED
      BY <3>1 DEF IsExpired
  <2>3. t \in seen
    BY <2>2, FamilyStored DEF Unexpired
  <2>4. \A s \in FamilyRows(rows, rows[t].family) : rows[s].created =< rows[t].created
    BY <2>1 DEF History
  <2>5. ASSUME NEW s \in seen, rows[t].created =< rows[s].created PROVE s = t
    <3>1. rows[s].created = rows[t].created
      <4>1. rows[s].created \in Nat /\ rows[t].created \in Nat
        BY <2>1, RowTypes, FamilyStored
      <4> QED
        BY <2>4, <2>5, <4>1
    <3> QED
      BY <3>1
  <2>6. ListedRows(rows, rows[t].user, rows[t].family, now)
          = {s \in seen : \A r \in seen : rows[r].created =< rows[s].created}
    BY DEF ListedRows
  <2>7. \A r \in seen : rows[r].created =< rows[t].created
    BY <2>4
  <2> HIDE DEF seen
  <2> QED
    BY <2>3, <2>5, <2>6, <2>7
<1> QED
  BY <1>1, StrongInvHolds, PTL

-----------------------------------------------------------------------------
(***************************************************************************)
(* A live session has revoked no token it did not exchange.                *)
(***************************************************************************)

\* While a session is alive its revoked tokens are the exchanged ones.
Unbroken ==
    \A t \in Stored(rows) :
        IsRevoked(rows[t]) /\ LiveRows(rows, rows[t].family) # {} =>
            \E n \in FamilyRows(rows, rows[t].family) \ {t} :
                rows[n].created = rows[t].revoked

\* A revocation without an exchange leaves the session no live row.
LEMMA UnbrokenRevoke ==
    ASSUME TypeOK, OneLivePerFamily, Unbroken, NEW ts, NEW now \in Nat,
           rows' = Revoke(rows, ts, now)
    PROVE  Unbroken'
<1>1. /\ Stored(rows') = Stored(rows)
      /\ \A t \in Stored(rows) : /\ IsRevoked(rows[t]) => rows'[t] = rows[t]
                                 /\ rows'[t].family = rows[t].family
                                 /\ rows'[t].created = rows[t].created
  BY RowTypes, RevokeFacts
<1>2. \A f : /\ FamilyRows(rows', f) = FamilyRows(rows, f)
             /\ LiveRows(rows', f) \subseteq LiveRows(rows, f)
  BY <1>1, FamilyStored DEF LiveRows
<1>3. \A f : FamilyRows(rows, f) \subseteq Stored(rows)
  BY FamilyStored
<1> SUFFICES ASSUME NEW t \in Stored(rows), IsRevoked(rows'[t]),
                    NEW l \in LiveRows(rows', rows[t].family)
             PROVE  \E n \in FamilyRows(rows, rows[t].family) \ {t} :
                       rows[n].created = rows'[t].revoked
  <2>1. \A f : \A n \in FamilyRows(rows, f) : rows'[n].created = rows[n].created
    BY <1>1, <1>3
  <2> QED
    BY <1>1, <1>2, <2>1 DEF Unbroken
<1>4. CASE IsRevoked(rows[t])
  BY <1>1, <1>2, <1>4 DEF Unbroken
<1>5. CASE ~IsRevoked(rows[t])
  <2>1. t \in LiveRows(rows, rows[t].family) /\ rows[t].family \in Token
    BY <1>5, RowTypes, FamilyStored DEF LiveRows
  <2>2. l = t
    BY <1>2, <2>1 DEF OneLivePerFamily
  <2> QED
    BY <2>2 DEF LiveRows
<1> QED
  BY <1>4, <1>5

LEMMA UnbrokenCreate ==
    ASSUME TypeOK, FamilyInv, Unbroken, NEW n \in Token, rows[n] = NoRow,
           NEW u \in User, NEW now \in Nat,
           rows' = CreateRefreshToken(rows, n, NewRefreshToken(n, u, now))
    PROVE  Unbroken'
<1>1. /\ Stored(rows') = Stored(rows) \cup {n}
      /\ n \notin Stored(rows)
      /\ rows'[n] = NewRefreshToken(n, u, now)
      /\ \A t \in Stored(rows) : rows'[t] = rows[t]
  <2>1. NewRefreshToken(n, u, now) \in Row
    BY NewRowFacts
  <2>2. \A t \in Stored(rows) : t # n /\ t \in Token
    BY DEF Stored
  <2> QED
    BY <2>1, <2>2, RowTypes, InsertFacts
<1>2. rows'[n].family = n /\ ~IsRevoked(rows'[n])
  BY <1>1, NewRowFacts DEF NewRefreshToken, IsRevoked
<1>3. \A t \in Stored(rows) : rows[t].family # n
  BY <1>1 DEF FamilyInv
<1>4. \A f : f # n => /\ FamilyRows(rows', f) = FamilyRows(rows, f)
                      /\ LiveRows(rows', f) = LiveRows(rows, f)
                      /\ \A m \in FamilyRows(rows, f) : rows'[m] = rows[m]
  BY <1>1, <1>2, FamilyStored DEF LiveRows
<1> QED
  BY <1>1, <1>2, <1>3, <1>4 DEF Unbroken

LEMMA UnbrokenRotate ==
    ASSUME TypeOK, Unbroken,
           NEW t \in Stored(rows), NEW now \in Nat, Rotatable(rows[t], now),
           NEW n \in Token, rows[n] = NoRow,
           rows' = Rotate(rows, t, n, rows[t].user, now)
    PROVE  Unbroken'
<1>1. /\ Stored(rows') = Stored(rows) \cup {n}
      /\ n \notin Stored(rows)
      /\ \A s \in Stored(rows) : s # t => rows'[s] = rows[s]
  BY RowTypes, RotatedRows
<1>2. /\ rows'[n].family = rows[t].family
      /\ rows'[n].created = now
      /\ ~IsRevoked(rows'[n])
  BY RotatedRows
<1>3. /\ rows'[t].family = rows[t].family
      /\ rows'[t].created = rows[t].created
      /\ rows'[t].revoked = now
      /\ IsRevoked(rows'[t])
  BY RotatedRows
<1>4. \A s \in Stored(rows) : /\ rows'[s].family = rows[s].family
                              /\ rows'[s].created = rows[s].created
  BY <1>1, <1>3
<1>5. \A f : /\ FamilyRows(rows, f) \subseteq Stored(rows)
             /\ FamilyRows(rows, f) \subseteq FamilyRows(rows', f)
  BY <1>1, <1>4, FamilyStored
<1> SUFFICES ASSUME NEW s \in Stored(rows'), IsRevoked(rows'[s]),
                    LiveRows(rows', rows'[s].family) # {}
             PROVE  \E m \in FamilyRows(rows', rows'[s].family) \ {s} :
                       rows'[m].created = rows'[s].revoked
  BY DEF Unbroken
<1>6. CASE s = t
  <2>1. n \in FamilyRows(rows', rows[t].family) /\ n # t
    BY <1>1, <1>2, FamilyStored
  <2> QED
    BY <1>2, <1>3, <1>6, <2>1
<1>7. CASE s # t
  <2>1. s \in Stored(rows) /\ rows'[s] = rows[s]
    BY <1>1, <1>2, <1>7
  <2>2. LiveRows(rows, rows[s].family) # {}
    <3>1. CASE rows[s].family = rows[t].family
      BY <3>1, FamilyStored DEF LiveRows, Rotatable
    <3>2. CASE rows[s].family # rows[t].family
      <4>1. PICK l : l \in Stored(rows') /\ rows'[l].family = rows[s].family
                     /\ ~IsRevoked(rows'[l])
        BY <2>1, FamilyStored DEF LiveRows
      <4>2. l \in Stored(rows) /\ l # t
        BY <1>1, <1>2, <1>3, <3>2, <4>1
      <4> QED
        BY <1>1, <4>1, <4>2, FamilyStored DEF LiveRows
    <3> QED
      BY <3>1, <3>2
  <2>3. PICK m \in FamilyRows(rows, rows[s].family) \ {s} :
           rows[m].created = rows[s].revoked
    BY <2>1, <2>2 DEF Unbroken
  <2> QED
    BY <1>4, <1>5, <2>1, <2>3
<1> QED
  BY <1>6, <1>7

LEMMA NextUnbroken ==
    ASSUME StrongInv, Unbroken, [Next]_vars
    PROVE  Unbroken'
<1>0. /\ IndInv /\ TypeOK /\ FamilyInv /\ OneLivePerFamily
      /\ req \in [Proc -> Request]
  BY StrongParts DEF IndInv, TypeOK
<1>1. ASSUME rows' = rows PROVE Unbroken'
  BY <1>1 DEF Unbroken, Stored, LiveRows, FamilyRows, IsRevoked
<1>2. ASSUME NEW p \in Proc, Server(p) PROVE Unbroken'
  <2> DEFINE r == req[p]
  <2>0. r.at \in Nat
    BY <1>0 DEF Request
  <2>1. CASE Create(p)
    <3>1. /\ r.new \in Token /\ rows[r.new] = NoRow /\ r.user \in User
          /\ rows' = CreateRefreshToken(rows, r.new, NewRefreshToken(r.new, r.user, r.at))
      BY <1>0, <2>1 DEF Create, IndInv, ArgumentsInv, DrawnInv
    <3> QED
      BY <1>0, <2>0, <3>1, UnbrokenCreate
  <2>2. CASE RotateCommit(p)
    <3>1. /\ r.new \in Token /\ rows[r.new] = NoRow
          /\ r.tok \in Stored(rows)
          /\ Rotatable(rows[r.tok], r.at)
          /\ rows' = Rotate(rows, r.tok, r.new, rows[r.tok].user, r.at)
      BY <1>0, <2>2 DEF RotateCommit, IndInv, ArgumentsInv, DrawnInv, LockInv
    <3> QED
      BY <1>0, <2>0, <3>1, UnbrokenRotate
  <2>3. CASE RevokeByTokenHash(p)
    BY <1>0, <2>0, <2>3, UnbrokenRevoke DEF RevokeByTokenHash
  <2>4. CASE RevokeFamilyApply(p)
    BY <1>0, <2>0, <2>4, UnbrokenRevoke DEF RevokeFamilyApply
  <2>5. CASE SignInCheck(p) \/ IssueSession(p) \/ FindToken(p) \/ FindUser(p)
             \/ RotateLock(p) \/ ListSessions(p) \/ RevokeSession(p)
             \/ RevokeFamilyBegin(p)
    BY <2>5, <1>1 DEF SignInCheck, IssueSession, FindToken, FindUser, RotateLock,
       ListSessions, RevokeSession, RevokeFamilyBegin, Reject
  <2> QED
    BY <1>2, <2>1, <2>2, <2>3, <2>4, <2>5 DEF Server
<1>3. CASE UNCHANGED vars
  BY <1>1, <1>3 DEF vars
<1>4. CASE Next
  BY <1>1, <1>2, <1>4, ClientFrame DEF Next, Fail, SetUser, Tick
<1> QED
  BY <1>3, <1>4

\* A replay names the family of the token it was given.
Named(p) ==
    pc[p] \in {"familyBegin", "familyApply"} /\ req[p].op = "refresh" =>
        req[p].fam = rows[req[p].tok].family

LEMMA ServerNamed ==
    ASSUME StrongInv, Kept, NEW p \in Proc, Server(p), Named(p)
    PROVE  Named(p)'
<1>0. /\ TypeOK /\ Progress(p) /\ req[p] \in Request
      /\ pc \in [Proc -> PC] /\ req \in [Proc -> Request]
  BY StrongParts DEF IndInv, TypeOK
<1>1. CASE FindToken(p)
  <2>1. CASE pc'[p] = "familyBegin"
    <3>1. /\ rows' = rows
          /\ req' = [req EXCEPT ![p] = [@ EXCEPT !.fam = rows[req[p].tok].family]]
      BY <1>0, <1>1, <2>1 DEF FindToken, Reject, Answer, Goto
    <3>2. req'[p].fam = rows[req[p].tok].family /\ req'[p].tok = req[p].tok
      BY <1>0, <3>1 DEF Request
    <3> QED
      BY <3>1, <3>2 DEF Named
  <2>2. CASE pc'[p] # "familyBegin"
    <3>1. pc'[p] # "familyApply"
      BY <1>0, <1>1 DEF FindToken, Reject, Answer, Goto
    <3> QED
      BY <2>2, <3>1 DEF Named
  <2> QED
    BY <2>1, <2>2
<1>2. CASE RevokeFamilyBegin(p)
  <2>1. /\ rows' = rows /\ pc[p] = "familyBegin"
        /\ req' = [req EXCEPT ![p] = [@ EXCEPT !.targets = LiveRows(rows, req[p].fam)]]
    BY <1>2 DEF RevokeFamilyBegin
  <2>2. /\ req'[p].fam = req[p].fam /\ req'[p].tok = req[p].tok
        /\ req'[p].op = req[p].op
    BY <1>0, <2>1 DEF Request
  <2> QED
    BY <2>1, <2>2 DEF Named
<1>3. CASE RevokeSession(p)
  <2>1. req[p].op = "revoke" /\ req'[p].op = req[p].op
    BY <1>0, <1>3 DEF RevokeSession, Reject, Request
  <2> QED
    BY <2>1 DEF Named
<1>4. CASE pc'[p] \notin {"familyBegin", "familyApply"}
  BY <1>4 DEF Named
<1>5. CASE SignInCheck(p) \/ IssueSession(p) \/ Create(p) \/ FindUser(p) \/ RotateLock(p)
           \/ RotateCommit(p) \/ RevokeByTokenHash(p) \/ ListSessions(p)
           \/ RevokeFamilyApply(p)
  <2>1. pc'[p] \notin {"familyBegin", "familyApply"}
    BY <1>0, <1>5 DEF SignInCheck, IssueSession, Create, FindUser, RotateLock,
       RotateCommit, RevokeByTokenHash, ListSessions, RevokeFamilyApply, Reject,
       Committed, Answer, Goto
  <2> QED
    BY <1>4, <2>1
<1> QED
  BY <1>1, <1>2, <1>3, <1>5 DEF Server

LEMMA NextNamed ==
    ASSUME StrongInv, [Next]_vars, NEW q \in Proc, Named(q)
    PROVE  Named(q)'
<1>1. /\ TypeOK /\ Kept /\ Progress(q)
      /\ pc \in [Proc -> PC]
  BY StepKeeps, StrongParts DEF IndInv, TypeOK
<1>2. ASSUME req'[q] = req[q], pc'[q] = pc[q] PROVE Named(q)'
  BY <1>1, <1>2 DEF Named, Progress, Kept
<1>3. ASSUME NEW p \in Proc, Server(p) \/ Client(p) \/ Fail(p)
      PROVE  Named(q)'
  <2>1. CASE p # q
    BY <1>1, <1>2, <1>3, <2>1, OneMoves
  <2>2. CASE p = q /\ Server(p)
    BY <1>1, <2>2, ServerNamed
  <2>3. CASE p = q /\ ~Server(p)
    <3>1. pc'[q] \in {"idle", "done", "findByEmail", "findToken", "logout",
                      "listSessions"}
      BY <1>1, <1>3, <2>3 DEF Client, Fail, Answer, StartSignIn, StartRefresh,
         StartLogout, StartListSessions, StartRevokeSession, Start, Deliver, Lose, Reset
    <3> QED
      BY <3>1 DEF Named
  <2> QED
    BY <2>1, <2>2, <2>3
<1>4. CASE UNCHANGED vars \/ Tick \/ \E u \in User, s \in AdminStates : SetUser(u, s)
  BY <1>2, <1>4 DEF vars, Tick, SetUser
<1> QED
  BY <1>3, <1>4 DEF Next

\* A refresh that ends a live session was given a token that had been exchanged
\* (Refresh's "reuse detected"): one whose rotation never took effect is still good.
THEOREM ReplayWasExchangedHolds == Spec => []ReplayWasExchanged
<1> DEFINE Inv == Unbroken /\ \A p \in Proc : Named(p)
<1>1. Init => Inv
  BY DEF Init, Unbroken, Named, Stored, EmptyTable
<1>2. StrongInv /\ Inv /\ [Next]_vars => Inv'
  BY NextUnbroken, NextNamed
<1>3. StrongInv /\ Inv => ReplayWasExchanged
  BY StrongParts DEF ReplayWasExchanged, Unbroken, Named, Progress
<1> QED
  BY <1>1, <1>2, <1>3, StrongInvHolds, PTL DEF Spec

\* The request that answers from a statement is the one that made the step.
LEMMA Answered ==
    ASSUME IndInv, [Next]_vars, NEW p \in Proc, pc[p] \notin {"idle", "done"},
           pc'[p] = "done"
    PROVE  Server(p) \/ Fail(p)
<1>1. TypeOK
  BY DEF IndInv
<1>2. pc'[p] # pc[p]
  OBVIOUS
<1>3. CASE UNCHANGED vars \/ Tick \/ \E u \in User, s \in AdminStates : SetUser(u, s)
  BY <1>2, <1>3 DEF vars, Tick, SetUser
<1>4. ASSUME NEW q \in Proc, Server(q) \/ Client(q) \/ Fail(q)
      PROVE  Server(p) \/ Fail(p)
  <2>1. q = p
    BY <1>1, <1>2, <1>4, OneMoves
  <2>2. ~Client(p)
    BY DEF Client, StartSignIn, StartRefresh, StartLogout, StartListSessions,
       StartRevokeSession, Start, Deliver, Lose, Reset
  <2> QED
    BY <1>4, <2>1, <2>2
<1> QED
  BY <1>3, <1>4 DEF Next

\* The step from pc = l is the statement named l, or it fails.
LEMMA FromFamilyApply ==
    ASSUME NEW p \in Proc, Server(p), pc[p] = "familyApply"
    PROVE  RevokeFamilyApply(p)
  BY DEF Server, SignInCheck, IssueSession, Create, FindToken, FindUser, RotateLock,
     RotateCommit, RevokeByTokenHash, ListSessions, RevokeSession, RevokeFamilyBegin

LEMMA FromLogout ==
    ASSUME NEW p \in Proc, Server(p), pc[p] = "logout"
    PROVE  RevokeByTokenHash(p)
  BY DEF Server, SignInCheck, IssueSession, Create, FindToken, FindUser, RotateLock,
     RotateCommit, ListSessions, RevokeSession, RevokeFamilyBegin, RevokeFamilyApply

\* RevokeSession revokes rows of the authenticated account only: a session never
\* changes hands between the listing and the UPDATE.
THEOREM RevokesOwnSessionsHolds == Spec => RevokesOwnSessions
<1> DEFINE Own == \A p \in Proc, t \in Token :
                     /\ pc[p] = "familyApply" /\ req[p].op = "revoke"
                     /\ pc'[p] = "done" /\ rows'[t] # rows[t]
                     => rows[t].user = req[p].user
<1>1. ASSUME StrongInv, [Next]_vars PROVE Own
  <2> SUFFICES ASSUME NEW p \in Proc, NEW t \in Token,
                      pc[p] = "familyApply", req[p].op = "revoke",
                      pc'[p] = "done", rows'[t] # rows[t]
               PROVE  rows[t].user = req[p].user
    OBVIOUS
  <2>1. IndInv /\ TypeOK /\ History /\ Progress(p)
    BY <1>1, StrongParts DEF IndInv
  <2>2. ~Fail(p)
    BY DEF Fail
  <2>3. RevokeFamilyApply(p)
    BY <1>1, <2>1, <2>2, Answered, FromFamilyApply
  <2>4. rows' = Revoke(rows, req[p].targets, req[p].at) /\ req[p].at \in Nat
    BY <2>1, <2>3 DEF RevokeFamilyApply, TypeOK, Request
  <2>5. t \in req[p].targets
    BY <2>1, <2>4, RowTypes, RevokeFacts
  <2>6. t \in Stored(rows) /\ rows[t].family = req[p].fam
    BY <2>1, <2>5, FamilyStored DEF Progress
  <2>7. rows[req[p].fam].user = req[p].user
    BY <2>1 DEF Progress
  <2>8. rows[rows[t].family].user = rows[t].user
    BY <2>1, <2>6 DEF History
  <2> QED
    BY <2>6, <2>7, <2>8
<1>2. StrongInv /\ [Next]_vars => [Own]_vars
  BY <1>1
<1> QED
  BY <1>2, StrongInvHolds, PTL DEF Spec, RevokesOwnSessions

\* A logout given the token its session goes on with ends the session.
THEOREM LogoutEndsSessionHolds == Spec => LogoutEndsSession
<1> DEFINE Ends == \A p \in Proc :
                      /\ pc[p] = "logout" /\ req[p].tok \in Stored(rows)
                      /\ ~IsRevoked(rows[req[p].tok])
                      /\ pc'[p] = "done" /\ res'[p] = "ok"
                      => LiveRows(rows', rows[req[p].tok].family) = {}
<1>1. ASSUME IndInv, [Next]_vars PROVE Ends
  <2> SUFFICES ASSUME NEW p \in Proc, pc[p] = "logout", req[p].tok \in Stored(rows),
                      ~IsRevoked(rows[req[p].tok]),
                      pc'[p] = "done", res'[p] = "ok"
               PROVE  LiveRows(rows', rows[req[p].tok].family) = {}
    OBVIOUS
  <2> DEFINE t == req[p].tok
             f == rows[t].family
  <2>1. TypeOK
    BY <1>1 DEF IndInv
  <2>2. ~Fail(p)
    BY <2>1 DEF Fail, Answer, TypeOK
  <2>3. RevokeByTokenHash(p)
    BY <1>1, <2>2, Answered, FromLogout
  <2>4. rows' = Revoke(rows, {t}, req[p].at) /\ req[p].at \in Nat
    BY <2>1, <2>3 DEF RevokeByTokenHash, TypeOK, Request
  <2>5. /\ Stored(rows') = Stored(rows)
        /\ IsRevoked(rows'[t])
        /\ \A s \in Stored(rows) : /\ rows'[s].family = rows[s].family
                                   /\ IsRevoked(rows[s]) => IsRevoked(rows'[s])
    <3>1. /\ Stored(rows') = Stored(rows)
          /\ \A s \in Stored(rows) : /\ s \in {t} => IsRevoked(rows'[s])
                                     /\ IsRevoked(rows[s]) => rows'[s] = rows[s]
                                     /\ rows'[s].family = rows[s].family
      BY <2>1, <2>4, RowTypes, RevokeFacts
    <3> QED
      BY <3>1
  <2>6. f \in Token /\ t \in LiveRows(rows, f)
    BY <2>1, RowTypes, FamilyStored DEF LiveRows
  <2>7. \A s \in LiveRows(rows, f) : s = t
    BY <1>1, <2>6 DEF IndInv, OneLivePerFamily
  <2>8. LiveRows(rows', f) \subseteq LiveRows(rows, f)
    BY <2>5, FamilyStored DEF LiveRows
  <2>9. t \notin LiveRows(rows', f)
    BY <2>5 DEF LiveRows
  <2> QED
    BY <2>7, <2>8, <2>9
<1>2. IndInv /\ [Next]_vars => [Ends]_vars
  BY <1>1
<1> QED
  BY <1>2, IndInvHolds, PTL DEF Spec, LogoutEndsSession

-----------------------------------------------------------------------------
(***************************************************************************)
(* AuthService implements Sessions: every change of the table opens,       *)
(* rotates or closes one session, or changes no holder.                    *)
(***************************************************************************)

\* The refinement mapping of Abs, by name.
Holder == [f \in Token |-> LiveRows(rows, f)]

\* The abstract state changes in one session at most.
LEMMA HolderChange ==
    ASSUME NEW f \in Token, NEW s,
           LiveRows(rows', f) = s,
           \A g \in Token : g # f => LiveRows(rows', g) = LiveRows(rows, g)
    PROVE  Holder' = [Holder EXCEPT ![f] = s]
  BY DEF Holder

LEMMA MapSame ==
    ASSUME rows' = rows
    PROVE  UNCHANGED <<Holder, Stored(rows)>>
  BY DEF Holder, Stored, LiveRows, FamilyRows

\* A sign-in opens the session named by the token it stores.
LEMMA MapCreate ==
    ASSUME TypeOK, FamilyInv, NEW n \in Token, rows[n] = NoRow,
           NEW u \in User, NEW now \in Nat,
           rows' = CreateRefreshToken(rows, n, NewRefreshToken(n, u, now))
    PROVE  Abs!Open(n)
<1>1. /\ Stored(rows') = Stored(rows) \cup {n}
      /\ n \notin Stored(rows)
      /\ rows'[n] = NewRefreshToken(n, u, now)
      /\ \A t \in Stored(rows) : rows'[t] = rows[t]
  <2>1. NewRefreshToken(n, u, now) \in Row
    BY NewRowFacts
  <2>2. \A t \in Stored(rows) : t # n /\ t \in Token
    BY DEF Stored
  <2> QED
    BY <2>1, <2>2, RowTypes, InsertFacts
<1>2. rows'[n].family = n /\ ~IsRevoked(rows'[n])
  BY <1>1, NewRowFacts DEF NewRefreshToken, IsRevoked
<1>3. LiveRows(rows', n) = {n}
  <2>1. \A t \in Stored(rows) : rows[t].family # n
    BY <1>1 DEF FamilyInv
  <2> QED
    BY <1>1, <1>2, <2>1, FamilyStored DEF LiveRows
<1>4. \A g \in Token : g # n => LiveRows(rows', g) = LiveRows(rows, g)
  BY <1>1, <1>2, FamilyStored DEF LiveRows
<1>5. Holder' = [Holder EXCEPT ![n] = {n}]
  BY <1>3, <1>4, HolderChange
<1> QED
  BY <1>1, <1>5 DEF Abs!Open, Holder

\* A rotation hands the session to the new token.
LEMMA MapRotate ==
    ASSUME TypeOK, OneLivePerFamily,
           NEW t \in Stored(rows), NEW now \in Nat, Rotatable(rows[t], now),
           NEW n \in Token, rows[n] = NoRow,
           rows' = Rotate(rows, t, n, rows[t].user, now)
    PROVE  Abs!Rotate(rows[t].family, t, n)
<1> DEFINE f == rows[t].family
<1>1. /\ Stored(rows') = Stored(rows) \cup {n}
      /\ n \notin Stored(rows)
      /\ \A s \in Stored(rows) : s # t => rows'[s] = rows[s]
  BY RowTypes, RotatedRows
<1>2. /\ rows'[n].family = f
      /\ rows'[n].user = rows[t].user
      /\ rows'[n].created = now
      /\ ~IsRevoked(rows'[n])
  BY RotatedRows
<1>3. rows'[t].family = f /\ IsRevoked(rows'[t])
  BY RotatedRows
<1>4. f \in Token /\ rows[t].family = f
  BY RowTypes
<1> HIDE DEF f
<1>5. LiveRows(rows, f) = {t}
  <2>1. t \in LiveRows(rows, f)
    BY <1>4, FamilyStored DEF LiveRows, Rotatable
  <2> QED
    BY <1>4, <2>1 DEF OneLivePerFamily
<1>6. LiveRows(rows', f) = {n}
  <2>1. \A s \in Stored(rows) : s # t /\ rows[s].family = f => IsRevoked(rows[s])
    BY <1>5, FamilyStored DEF LiveRows
  <2>2. LiveRows(rows', f) \subseteq {n}
    BY <1>1, <1>3, <2>1, FamilyStored DEF LiveRows
  <2> QED
    BY <1>1, <1>2, <2>2, FamilyStored DEF LiveRows
<1>7. \A g \in Token : g # f => LiveRows(rows', g) = LiveRows(rows, g)
  BY <1>1, <1>2, <1>3, <1>4, FamilyStored DEF LiveRows
<1>8. Holder' = [Holder EXCEPT ![f] = {n}]
  BY <1>4, <1>6, <1>7, HolderChange
<1>9. Holder[f] = {t}
  BY <1>4, <1>5 DEF Holder
<1>10. Abs!Rotate(f, t, n)
  BY <1>1, <1>8, <1>9 DEF Abs!Rotate, Holder
<1> QED
  BY <1>10 DEF f

\* A revocation within one family closes its session or changes no holder.
LEMMA MapRevoke ==
    ASSUME TypeOK, OneLivePerFamily, NEW ts, NEW now \in Nat, NEW f \in Token,
           rows' = Revoke(rows, ts, now),
           \A t \in ts : t \in Stored(rows) => rows[t].family = f
    PROVE  Abs!Close(f) \/ UNCHANGED <<Holder, Stored(rows)>>
<1>1. /\ Stored(rows') = Stored(rows)
      /\ \A t \in Stored(rows) : /\ t \in ts => IsRevoked(rows'[t])
                                 /\ IsRevoked(rows[t]) => rows'[t] = rows[t]
                                 /\ rows'[t].family = rows[t].family
  BY RowTypes, RevokeFacts
<1>2. \A t \in Stored(rows) : rows[t].family # f => rows'[t] = rows[t]
  BY RowTypes, RevokeFacts
<1>3. \A g \in Token : g # f => LiveRows(rows', g) = LiveRows(rows, g)
  BY <1>1, <1>2, FamilyStored DEF LiveRows
<1>4. LiveRows(rows', f) \subseteq LiveRows(rows, f)
  BY <1>1, FamilyStored DEF LiveRows
<1>5. LiveRows(rows', f) = LiveRows(rows, f) \/ LiveRows(rows', f) = {}
  BY <1>4 DEF OneLivePerFamily
<1>6. CASE LiveRows(rows', f) = LiveRows(rows, f)
  <2>1. Holder' = Holder
    BY <1>3, <1>6 DEF Holder
  <2> QED
    BY <1>1, <2>1
<1>7. CASE LiveRows(rows', f) = {} /\ LiveRows(rows, f) # {}
  <2>1. Holder' = [Holder EXCEPT ![f] = {}]
    BY <1>3, <1>7, HolderChange
  <2>2. Holder[f] # {}
    BY <1>7 DEF Holder
  <2> QED
    BY <1>1, <2>1, <2>2 DEF Abs!Close, Holder
<1> QED
  BY <1>5, <1>6, <1>7

LEMMA MapStep ==
    ASSUME StrongInv, [Next]_vars
    PROVE  [Abs!Next]_(Abs!vars)
<1>0. /\ IndInv /\ History /\ TypeOK /\ FamilyInv /\ OneLivePerFamily
      /\ \A p \in Proc : Progress(p)
  BY StrongParts DEF IndInv
<1>1. ASSUME UNCHANGED <<Holder, Stored(rows)>> PROVE [Abs!Next]_(Abs!vars)
  BY <1>1 DEF Abs!vars, Holder
<1>2. ASSUME rows' = rows PROVE [Abs!Next]_(Abs!vars)
  BY <1>1, <1>2, MapSame
<1>3. ASSUME NEW ts, NEW now \in Nat, NEW f \in Token, rows' = Revoke(rows, ts, now),
             \A t \in ts : t \in Stored(rows) => rows[t].family = f
      PROVE  [Abs!Next]_(Abs!vars)
  BY <1>0, <1>1, <1>3, MapRevoke DEF Abs!Next
<1>4. ASSUME NEW p \in Proc, Server(p) PROVE [Abs!Next]_(Abs!vars)
  <2> DEFINE r == req[p]
  <2>0. r \in Request /\ r.at \in Nat /\ r.tok \in Token \cup {NoToken}
    BY <1>0 DEF TypeOK, Request
  <2>1. CASE Create(p)
    <3>1. /\ r.new \in Token /\ rows[r.new] = NoRow /\ r.user \in User
          /\ rows' = CreateRefreshToken(rows, r.new, NewRefreshToken(r.new, r.user, r.at))
      BY <1>0, <2>1 DEF Create, IndInv, ArgumentsInv, DrawnInv
    <3>2. Abs!Open(r.new)
      BY <1>0, <2>0, <3>1, MapCreate
    <3> QED
      BY <3>1, <3>2 DEF Abs!Next
  <2>2. CASE RotateCommit(p)
    <3>1. /\ r.new \in Token /\ rows[r.new] = NoRow
          /\ r.tok \in Stored(rows)
          /\ Rotatable(rows[r.tok], r.at)
          /\ rows' = Rotate(rows, r.tok, r.new, rows[r.tok].user, r.at)
      BY <1>0, <2>2 DEF RotateCommit, IndInv, ArgumentsInv, DrawnInv, LockInv
    <3>2. Abs!Rotate(rows[r.tok].family, r.tok, r.new)
      BY <1>0, <2>0, <3>1, MapRotate
    <3>3. rows[r.tok].family \in Token /\ r.tok \in Holder[rows[r.tok].family]
      BY <1>0, <3>1, RowTypes, FamilyStored DEF Holder, LiveRows, Rotatable
    <3> QED
      BY <3>1, <3>2, <3>3 DEF Abs!Next, Holder
  <2>3. CASE RevokeByTokenHash(p)
    <3>1. rows' = Revoke(rows, {r.tok}, r.at)
      BY <2>3 DEF RevokeByTokenHash
    <3>2. CASE r.tok \in Stored(rows)
      <4>1. rows[r.tok].family \in Token
        BY <1>0, <3>2, RowTypes
      <4> QED
        BY <1>3, <2>0, <3>1, <4>1
    <3>3. CASE r.tok \notin Stored(rows)
      <4>1. rows' = rows
        BY <1>0, <3>1, <3>3, RowTypes DEF Revoke, SetRevoked, Table
      <4> QED
        BY <1>2, <4>1
    <3> QED
      BY <3>2, <3>3
  <2>4. CASE RevokeFamilyApply(p)
    <3>1. pc[p] = "familyApply" /\ rows' = Revoke(rows, r.targets, r.at)
      BY <2>4 DEF RevokeFamilyApply
    <3>2. r.fam \in Token
      BY <1>0, <3>1 DEF Progress, Stored
    <3>3. \A t \in r.targets : rows[t].family = r.fam
      BY <1>0, FamilyStored DEF Progress
    <3> QED
      BY <1>3, <2>0, <3>1, <3>2, <3>3
  <2>5. CASE SignInCheck(p) \/ IssueSession(p) \/ FindToken(p) \/ FindUser(p)
             \/ RotateLock(p) \/ ListSessions(p) \/ RevokeSession(p)
             \/ RevokeFamilyBegin(p)
    BY <2>5, <1>2 DEF SignInCheck, IssueSession, FindToken, FindUser, RotateLock,
       ListSessions, RevokeSession, RevokeFamilyBegin, Reject
  <2> QED
    BY <1>4, <2>1, <2>2, <2>3, <2>4, <2>5 DEF Server
<1>5. CASE UNCHANGED vars
  BY <1>2, <1>5 DEF vars
<1>6. CASE Next
  BY <1>2, <1>4, <1>6, ClientFrame DEF Next, Fail, SetUser, Tick
<1> QED
  BY <1>5, <1>6

\* The service implements Sessions: whatever requests run concurrently, a session
\* is opened once, is handed from one token to the next, and once closed is never
\* reopened (SignIn, Refresh, Logout, RevokeSession over refresh_tokens).
THEOREM Refines == Spec => ImplementsSessions
<1>1. Init => Abs!Init
  <2> SUFFICES ASSUME Init PROVE Abs!Init
    OBVIOUS
  <2>1. Stored(rows) = {}
    BY DEF Init, Stored, EmptyTable
  <2>2. \A f \in Token : LiveRows(rows, f) = {}
    BY <2>1, FamilyStored DEF LiveRows
  <2> QED
    BY <2>1, <2>2 DEF Abs!Init
<1>2. StrongInv /\ [Next]_vars => [Abs!Next]_(Abs!vars)
  BY MapStep
<1> QED
  BY <1>1, <1>2, StrongInvHolds, PTL DEF Spec, ImplementsSessions, Abs!Spec
=============================================================================
