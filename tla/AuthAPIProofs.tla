--------------------------- MODULE AuthAPIProofs ---------------------------
(***************************************************************************)
(* Proofs about AuthAPI: for how long access tokens speak for a session    *)
(* and an account.                                                         *)
(***************************************************************************)
EXTENDS AuthAPI, AuthAnswersProofs

\* How long a session was alive and an account was entitled to one.
Times ==
    /\ \A f \in Token : /\ lastLive[f] \in Nat /\ lastLive[f] =< clock
                        /\ Alive(f) => lastLive[f] = clock
    /\ \A u \in User : /\ lastEntitled[u] \in Nat /\ lastEntitled[u] =< clock
                       /\ Entitled(u) => lastEntitled[u] = clock

\* A row is dated to a time when its account was entitled and, unless it opened
\* its session, to one when the session was alive.
Dated(t) == /\ rows[t].expires = rows[t].created + RefreshTTL
            /\ rows[t].family = t \/ rows[t].created =< lastLive[rows[t].family]
            /\ rows[t].created =< lastEntitled[rows[t].user]

\* A refresh that may still succeed read the clock while its session was alive,
\* also when the session has expired since.
Held(p) ==
    LET r == req[p] IN
    /\ pc[p] \in {"findToken", "findUser", "rotateLock", "rotateCommit"}
    /\ r.tok \in Stored(rows) /\ Rotatable(rows[r.tok], r.at)
    => r.at =< lastLive[rows[r.tok].family]

\* An answer that carries tokens carries those of the row just stored.
Carried(p) ==
    LET r == req[p] IN
    /\ pc[p] \in {"create", "rotateLock", "rotateCommit"} => r.at =< lastEntitled[r.user]
    /\ pc[p] = "done" /\ r.op = "signin" =>
          res[p] \in {"ok", "credentials", "inactive", "error"}
    /\ pc[p] = "done" /\ r.op = "refresh" =>
          res[p] \in {"ok", "invalid", "inactive", "error"}
    /\ pc[p] = "done" /\ res[p] = "ok" /\ r.op \in {"signin", "refresh"} =>
          /\ r.new \in Stored(rows)
          /\ rows[r.new].user = r.user
          /\ rows[r.new].created = r.at

\* An access token says what the row it was handed out with says.
Faithful(t) == access[t] # NoAccess =>
                  /\ t \in Stored(rows)
                  /\ access[t] = generateAccessToken(rows[t].user, rows[t].created)

APIInv == /\ StrongInv
          /\ APITypeOK
          /\ Times
          /\ \A t \in Stored(rows) : Dated(t)
          /\ \A p \in Proc : Carried(p) /\ Held(p)
          /\ \A t \in Token : Faithful(t)

LEMMA RoundsDown ==
    ASSUME NEW t \in Nat
    PROVE  NewNumericDate(t) \in Nat /\ NewNumericDate(t) =< t
<1>1. t % Second \in Nat /\ t % Second =< t
  BY AccessAssumption, SMTT(30)
<1> QED
  BY <1>1 DEF NewNumericDate

LEMMA TokenFacts ==
    ASSUME NEW u \in User, NEW now \in Nat
    PROVE  /\ generateAccessToken(u, now) \in AccessToken
           /\ generateAccessToken(u, now).sub = u
           /\ generateAccessToken(u, now).exp \in Nat
           /\ generateAccessToken(u, now).exp =< now + AccessTTL
<1>1. now + AccessTTL \in Nat
  BY AccessAssumption
<1> QED
  BY <1>1, RoundsDown DEF generateAccessToken, AccessToken

\* The session endpoints are opened by accounts that exist.
LEMMA BearersExist ==
    ASSUME TypeOK, \A t \in Token : Faithful(t)
    PROVE  RequireBearerAuth \subseteq User
<1> SUFFICES ASSUME NEW t \in Token, access[t] # NoAccess PROVE access[t].sub \in User
  BY DEF RequireBearerAuth, Accepted
<1> QED
  BY RowTypes, TokenFacts DEF Faithful

\* Behind HTTP a request makes the steps it makes without it.
LEMMA APIStep ==
    ASSUME APIInv, [APINext]_apiVars
    PROVE  [Next]_vars
<1>1. RequireBearerAuth \subseteq User
  BY BearersExist DEF APIInv, StrongInv, IndInv
<1>2. CASE UNCHANGED apiVars
  BY <1>2 DEF apiVars
<1>3. ASSUME NEW p \in Proc, APIDeliver(p) PROVE Next
  BY <1>3 DEF APIDeliver, Next, Client
<1>4. ASSUME NEW p \in Proc, Public(p) PROVE Next
  BY <1>4 DEF Public, Next, Client
<1>5. ASSUME NEW p \in Proc, Authenticated(p) PROVE Next
  BY <1>1, <1>5 DEF Authenticated, Next, Client
<1>6. ASSUME NEW p \in Proc, Server(p) \/ Fail(p) \/ Lose(p) PROVE Next
  BY <1>6 DEF Next, Client
<1>7. CASE Tick \/ \E u \in User, s \in AdminStates : SetUser(u, s)
  BY <1>7 DEF Next
<1> QED
  BY <1>2, <1>3, <1>4, <1>5, <1>6, <1>7 DEF APINext, Unanswered

\* The history variables only go forward.
LEMMA TimesStep ==
    ASSUME APIInv, TypeOK', Kept, [APINext]_apiVars
    PROVE  /\ Times'
           /\ \A f \in Token : lastLive[f] =< lastLive'[f]
           /\ \A u \in User : lastEntitled[u] =< lastEntitled'[u]
           /\ lastLive' \in [Token -> 0..MaxTime]
           /\ lastEntitled' \in [User -> 0..MaxTime]
<1>1. /\ Times /\ APITypeOK
      /\ clock \in 0..MaxTime /\ clock' \in 0..MaxTime /\ clock =< clock'
      /\ MaxTime \in Nat
  BY SlotAssumption DEF APIInv, StrongInv, IndInv, TypeOK, Kept
<1>2. CASE UNCHANGED apiVars
  BY <1>1, <1>2 DEF apiVars, vars, Times, APITypeOK, Entitled, Alive
<1>3. CASE APINext
  <2>1. /\ lastLive' = [f \in Token |-> IF Alive(f)' THEN clock' ELSE lastLive[f]]
        /\ lastEntitled' = [u \in User |-> IF Entitled(u)' THEN clock'
                                                           ELSE lastEntitled[u]]
    BY <1>3 DEF APINext, Remember
  <2>2. \A f \in Token : /\ lastLive'[f] \in 0..MaxTime
                         /\ lastLive'[f] =< clock'
                         /\ lastLive[f] =< lastLive'[f]
                         /\ Alive(f)' => lastLive'[f] = clock'
    BY <1>1, <2>1 DEF Times, APITypeOK
  <2>3. \A u \in User : /\ lastEntitled'[u] \in 0..MaxTime
                        /\ lastEntitled'[u] =< clock'
                        /\ lastEntitled[u] =< lastEntitled'[u]
                        /\ Entitled(u)' => lastEntitled'[u] = clock'
    BY <1>1, <2>1 DEF Times, APITypeOK
  <2> QED
    BY <2>1, <2>2, <2>3 DEF Times
<1> QED
  BY <1>2, <1>3

\* Row t has just been stored by request p, which opens or continues a session.
StoredBy(t, p) ==
    LET r == req[p] IN
    /\ \/ pc[p] = "create" /\ rows'[t].family = t
       \/ /\ pc[p] = "rotateCommit"
          /\ r.tok \in Stored(rows) /\ Rotatable(rows[r.tok], r.at)
          /\ rows'[t].family = rows[r.tok].family
    /\ r.user \in User
    /\ rows'[t].user = r.user
    /\ rows'[t].created = r.at
    /\ rows'[t].expires = r.at + RefreshTTL

\* Where a row comes from.
LEMMA NewRow ==
    ASSUME StrongInv, [Next]_vars, NEW t \in Stored(rows'), t \notin Stored(rows)
    PROVE  \E p \in Proc : StoredBy(t, p)
<1>0. IndInv /\ TypeOK /\ \A p \in Proc : Progress(p)
  BY StrongParts DEF IndInv
<1>1. rows' # rows
  OBVIOUS
<1>2. ASSUME NEW p \in Proc, Server(p)
      PROVE  \/ Create(p) /\ t = req[p].new
             \/ RotateCommit(p) /\ t = req[p].new
  <2>0. req[p].at \in Nat
    BY <1>0 DEF TypeOK, Request
  <2>1. CASE Create(p)
    BY <2>1 DEF Create, CreateRefreshToken, Stored
  <2>2. CASE RotateCommit(p)
    BY <2>2 DEF RotateCommit, Rotate, SetRevoked, CreateRefreshToken, Stored
  <2>3. CASE RevokeByTokenHash(p)
    <3>1. Stored(rows') = Stored(rows)
      BY <1>0, <2>0, <2>3, RowTypes, RevokeFacts DEF RevokeByTokenHash
    <3> QED
      BY <3>1
  <2>4. CASE RevokeFamilyApply(p)
    <3>1. Stored(rows') = Stored(rows)
      BY <1>0, <2>0, <2>4, RowTypes, RevokeFacts DEF RevokeFamilyApply
    <3> QED
      BY <3>1
  <2>5. CASE SignInCheck(p) \/ IssueSession(p) \/ FindToken(p) \/ FindUser(p)
             \/ RotateLock(p) \/ ListSessions(p) \/ RevokeSession(p)
             \/ RevokeFamilyBegin(p)
    BY <1>1, <2>5 DEF SignInCheck, IssueSession, FindToken, FindUser, RotateLock,
       ListSessions, RevokeSession, RevokeFamilyBegin, Reject
  <2> QED
    BY <1>2, <2>1, <2>2, <2>3, <2>4, <2>5 DEF Server
<1>3. ASSUME NEW p \in Proc, Create(p), t = req[p].new
      PROVE  StoredBy(t, p)
  <2> DEFINE r == req[p]
  <2>1. /\ pc[p] = "create" /\ r.user \in User /\ r.at \in Nat /\ t \in Token
        /\ rows[t] = NoRow
        /\ rows' = CreateRefreshToken(rows, t, NewRefreshToken(t, r.user, r.at))
    BY <1>0, <1>3 DEF Create, IndInv, ArgumentsInv, DrawnInv, TypeOK, Request
  <2>2. NewRefreshToken(t, r.user, r.at) \in Row
    BY <2>1, NewRowFacts
  <2>3. rows'[t] = NewRefreshToken(t, r.user, r.at)
    BY <1>0, <2>1, <2>2, RowTypes, InsertFacts
  <2>4. /\ rows'[t].family = t
        /\ rows'[t].user = r.user /\ rows'[t].created = r.at
        /\ rows'[t].expires = r.at + RefreshTTL
    BY <2>3 DEF NewRefreshToken
  <2> QED
    BY <2>1, <2>4 DEF StoredBy
<1>4. ASSUME NEW p \in Proc, RotateCommit(p), t = req[p].new
      PROVE  StoredBy(t, p)
  <2> DEFINE r == req[p]
  <2>1. /\ pc[p] = "rotateCommit" /\ t \in Token /\ rows[t] = NoRow /\ r.at \in Nat
        /\ r.tok \in Stored(rows) /\ r.user = rows[r.tok].user
        /\ Rotatable(rows[r.tok], r.at)
        /\ rows' = Rotate(rows, r.tok, t, rows[r.tok].user, r.at)
    BY <1>0, <1>4 DEF RotateCommit, IndInv, ArgumentsInv, DrawnInv, LockInv, TypeOK,
       Request
  <2> HIDE DEF r
  <2>2. /\ rows'[t].family = rows[r.tok].family
        /\ rows'[t].user = rows[r.tok].user
        /\ rows'[t].created = r.at
        /\ rows'[t].expires = r.at + RefreshTTL
    BY <1>0, <2>1, RotatedRows
  <2>3. r.user \in User
    BY <1>0, <2>1, RowTypes
  <2> QED
    BY <2>1, <2>2, <2>3 DEF StoredBy, r
<1>5. CASE UNCHANGED vars
  BY <1>1, <1>5 DEF vars
<1>6. CASE Next
  <2>1. PICK p \in Proc : Server(p)
    BY <1>1, <1>6, ClientFrame DEF Next, Fail, SetUser, Tick
  <2> QED
    BY <1>2, <1>3, <1>4, <2>1
<1> QED
  BY <1>5, <1>6

LEMMA DatedStep ==
    ASSUME APIInv, TypeOK', Kept, [APINext]_apiVars, NEW t \in Stored(rows')
    PROVE  Dated(t)'
<1>0. /\ StrongInv /\ TypeOK /\ Times /\ \A p \in Proc : Carried(p) /\ Held(p)
      /\ clock \in Nat /\ clock' \in Nat /\ clock =< clock' /\ [Next]_vars
  BY APIStep, SlotAssumption DEF APIInv, StrongInv, IndInv, TypeOK, Kept
<1>1. /\ Times'
      /\ \A f \in Token : lastLive[f] =< lastLive'[f]
      /\ \A u \in User : lastEntitled[u] =< lastEntitled'[u]
  BY TimesStep
<1>2. CASE t \in Stored(rows)
  <2>1. /\ rows'[t].family = rows[t].family /\ rows'[t].user = rows[t].user
        /\ rows'[t].created = rows[t].created /\ rows'[t].expires = rows[t].expires
    BY <1>2 DEF Kept
  <2>2. /\ rows[t].family \in Token /\ rows[t].user \in User /\ rows[t].created \in Nat
    BY <1>0, <1>2, RowTypes
  <2>3. Dated(t)
    BY <1>2 DEF APIInv
  <2>4. /\ lastLive[rows[t].family] \in Nat /\ lastLive'[rows[t].family] \in Nat
        /\ lastEntitled[rows[t].user] \in Nat /\ lastEntitled'[rows[t].user] \in Nat
        /\ lastLive[rows[t].family] =< lastLive'[rows[t].family]
        /\ lastEntitled[rows[t].user] =< lastEntitled'[rows[t].user]
    BY <1>0, <1>1, <2>2 DEF Times
  <2> QED
    BY <2>1, <2>2, <2>3, <2>4 DEF Dated
<1>3. CASE t \notin Stored(rows)
  <2>1. PICK p \in Proc : StoredBy(t, p)
    BY <1>0, <1>3, NewRow
  <2> DEFINE r == req[p]
  <2>2. r.at \in Nat
    BY <1>0 DEF TypeOK, Request
  <2>3. rows'[t].family = t \/ r.at =< lastLive'[rows'[t].family]
    <3> SUFFICES ASSUME rows'[t].family # t
                 PROVE  r.at =< lastLive'[rows'[t].family]
      OBVIOUS
    <3>1. /\ pc[p] = "rotateCommit"
          /\ r.tok \in Stored(rows) /\ Rotatable(rows[r.tok], r.at)
          /\ rows'[t].family = rows[r.tok].family
      BY <2>1 DEF StoredBy
    <3>2. r.at =< lastLive[rows[r.tok].family]
      BY <1>0, <3>1 DEF Held
    <3>3. rows[r.tok].family \in Token
      BY <1>0, <3>1, RowTypes
    <3> QED
      BY <1>0, <1>1, <2>2, <3>1, <3>2, <3>3 DEF Times
  <2>4. /\ r.user \in User
        /\ rows'[t].user = r.user
        /\ rows'[t].created = r.at
        /\ rows'[t].expires = r.at + RefreshTTL
        /\ pc[p] \in {"create", "rotateCommit"}
    BY <2>1 DEF StoredBy
  <2>5. r.at =< lastEntitled[r.user]
    BY <1>0, <2>4 DEF Carried
  <2>6. /\ lastEntitled[r.user] \in Nat /\ lastEntitled'[r.user] \in Nat
        /\ lastEntitled[r.user] =< lastEntitled'[r.user]
    BY <1>0, <1>1, <2>4 DEF Times
  <2> QED
    BY <2>2, <2>3, <2>4, <2>5, <2>6 DEF Dated
<1> QED
  BY <1>2, <1>3

\* What holds of an answer goes on holding while the request does not move.
LEMMA CarriedKept ==
    ASSUME APIInv, TypeOK', Kept, [APINext]_apiVars, NEW q \in Proc,
           req'[q] = req[q], pc'[q] = pc[q], res'[q] = res[q]
    PROVE  Carried(q)'
<1> DEFINE r == req[q]
<1>0. IndInv /\ TypeOK /\ Times /\ Carried(q) /\ r.at \in Nat
  BY DEF APIInv, StrongInv, IndInv, TypeOK, Request
<1>1. pc[q] \in {"create", "rotateLock", "rotateCommit"} => r.at =< lastEntitled'[r.user]
  <2> SUFFICES ASSUME pc[q] \in {"create", "rotateLock", "rotateCommit"}
               PROVE  r.at =< lastEntitled'[r.user]
    OBVIOUS
  <2>1. r.user \in User
    BY <1>0, RowTypes DEF IndInv, ArgumentsInv
  <2>2. r.at =< lastEntitled[r.user]
    BY <1>0 DEF Carried
  <2>3. /\ lastEntitled[r.user] =< lastEntitled'[r.user]
        /\ lastEntitled[r.user] \in Nat /\ lastEntitled'[r.user] \in Nat
    BY <1>0, <2>1, TimesStep DEF Times
  <2> QED
    BY <1>0, <2>2, <2>3
<1>2. r.new \in Stored(rows) => /\ r.new \in Stored(rows')
                                /\ rows'[r.new].user = rows[r.new].user
                                /\ rows'[r.new].created = rows[r.new].created
  BY DEF Kept
<1> QED
  BY <1>0, <1>1, <1>2 DEF Carried

LEMMA CarriedServer ==
    ASSUME APIInv, TypeOK', Kept, [APINext]_apiVars, NEW p \in Proc, Server(p)
    PROVE  Carried(p)'
<1> DEFINE r == req[p]
<1>0. /\ IndInv /\ TypeOK /\ Times /\ Carried(p) /\ Progress(p)
      /\ r \in Request /\ r.at \in Nat /\ clock \in Nat /\ r.at =< clock
      /\ pc \in [Proc -> PC] /\ req \in [Proc -> Request] /\ res \in [Proc -> Answers]
  BY StrongParts, SlotAssumption DEF APIInv, IndInv, TypeOK, Request, Progress
<1>1. \A u \in User : /\ lastEntitled[u] \in Nat /\ lastEntitled'[u] \in Nat
                      /\ lastEntitled[u] =< lastEntitled'[u]
                      /\ Entitled(u) => clock =< lastEntitled'[u]
  BY <1>0, TimesStep DEF Times
\* Answers without tokens, and moves to statements that draw no token.
<1>2. ASSUME NEW x, NEW l, NEW a, req'[p] = x, pc'[p] = l, res'[p] = a,
             l \notin {"create", "rotateLock", "rotateCommit"},
             l = "done" /\ x.op = "signin" => a \in {"credentials", "inactive", "error"},
             l = "done" /\ x.op = "refresh" => a \in {"invalid", "inactive", "error"}
      PROVE  Carried(p)'
  BY <1>2 DEF Carried
\* Moves that have drawn one.
<1>3. ASSUME NEW x, NEW l, req'[p] = x, pc'[p] = l,
             l \in {"create", "rotateLock", "rotateCommit"},
             x.user \in User, x.at =< lastEntitled'[x.user]
      PROVE  Carried(p)'
  BY <1>3 DEF Carried
<1>4. CASE SignInCheck(p)
  <2>1. /\ pc[p] = "findByEmail" /\ r.op = "signin" /\ req'[p] = r
        /\ \/ pc'[p] = "done" /\ res'[p] \in {"credentials", "inactive"}
           \/ pc'[p] = "issueSession"
    BY <1>0, <1>4 DEF SignInCheck, Reject, Answer, Goto, Progress
  <2> QED
    BY <1>2, <2>1
<1>5. CASE IssueSession(p)
  <2>1. pc[p] = "issueSession" /\ r.op = "signin" /\ r.user \in User
    BY <1>0, <1>5 DEF IssueSession, Progress, IndInv, ArgumentsInv
  <2>2. CASE Reject(p, "error")
    <3>1. req'[p] = r /\ pc'[p] = "done" /\ res'[p] = "error"
      BY <1>0, <2>2 DEF Reject, Answer
    <3> QED
      BY <1>2, <3>1
  <2>3. ASSUME NEW n \in FreshTokens,
               req' = [req EXCEPT ![p] = [@ EXCEPT !.at = clock, !.new = n]],
               Goto(p, "create")
        PROVE  Carried(p)'
    <3> DEFINE x == [r EXCEPT !.at = clock, !.new = n]
    <3>1. req'[p] = x /\ pc'[p] = "create"
      BY <1>0, <2>3 DEF Goto
    <3>2. x.user = r.user /\ x.at = clock
      BY <1>0 DEF Request
    <3>3. Entitled(r.user)
      BY <2>1 DEF Entitled
    <3> HIDE DEF x
    <3> QED
      BY <1>1, <1>3, <2>1, <3>1, <3>2, <3>3
  <2> QED
    BY <1>5, <2>2, <2>3 DEF IssueSession
<1>6. CASE FindUser(p)
  <2>1. pc[p] = "findUser" /\ r.op = "refresh" /\ r.user \in User
    BY <1>0, <1>6, RowTypes DEF FindUser, Progress, IndInv, ArgumentsInv
  <2>2. CASE \E a \in {"invalid", "inactive", "error"} : Reject(p, a)
    <3>1. /\ req'[p] = r /\ pc'[p] = "done"
          /\ res'[p] \in {"invalid", "inactive", "error"}
      BY <1>0, <2>2 DEF Reject, Answer
    <3> QED
      BY <1>2, <2>1, <3>1
  <2>3. ASSUME NEW n \in FreshTokens, users[r.user] = "active",
               req' = [req EXCEPT ![p] = [@ EXCEPT !.new = n]],
               Goto(p, "rotateLock")
        PROVE  Carried(p)'
    <3> DEFINE x == [r EXCEPT !.new = n]
    <3>1. req'[p] = x /\ pc'[p] = "rotateLock"
      BY <1>0, <2>3 DEF Goto
    <3>2. x.user = r.user /\ x.at = r.at
      BY <1>0 DEF Request
    <3>3. r.at =< lastEntitled'[r.user]
      BY <1>0, <1>1, <2>1, <2>3 DEF Entitled
    <3> HIDE DEF x
    <3> QED
      BY <1>3, <2>1, <3>1, <3>2, <3>3
  <2> QED
    BY <1>6, <2>2, <2>3 DEF FindUser
<1>7. CASE RotateLock(p)
  <2>1. pc[p] = "rotateLock" /\ r.op = "refresh" /\ r.user \in User
    BY <1>0, <1>7, RowTypes DEF RotateLock, Progress, IndInv, ArgumentsInv
  <2>2. CASE Reject(p, "invalid")
    <3>1. req'[p] = r /\ pc'[p] = "done" /\ res'[p] = "invalid"
      BY <1>0, <2>2 DEF Reject, Answer
    <3> QED
      BY <1>2, <2>1, <3>1
  <2>3. CASE Goto(p, "rotateCommit") /\ UNCHANGED req
    <3>1. req'[p] = r /\ pc'[p] = "rotateCommit"
      BY <1>0, <2>3 DEF Goto
    <3>2. r.at =< lastEntitled[r.user]
      BY <1>0, <2>1 DEF Carried
    <3>3. r.at =< lastEntitled'[r.user]
      BY <1>0, <1>1, <2>1, <3>2
    <3> QED
      BY <1>3, <2>1, <3>1, <3>3
  <2> QED
    BY <1>7, <2>2, <2>3 DEF RotateLock
<1>8. ASSUME pc'[p] = "done", req'[p] = r, res'[p] \in {"ok", "error"},
             r.op \in {"signin", "refresh"}, r.new \in Stored(rows'),
             rows'[r.new].user = r.user, rows'[r.new].created = r.at
      PROVE  Carried(p)'
  BY <1>8 DEF Carried
<1>9. CASE Create(p)
  <2>1. /\ pc[p] = "create" /\ r.op = "signin" /\ r.user \in User /\ r.new \in Token
        /\ rows[r.new] = NoRow
        /\ rows' = CreateRefreshToken(rows, r.new, NewRefreshToken(r.new, r.user, r.at))
        /\ pc'[p] = "done" /\ req'[p] = r /\ res'[p] \in {"ok", "error"}
    BY <1>0, <1>9 DEF Create, Committed, Answer, Progress, IndInv, ArgumentsInv, DrawnInv
  <2>2. NewRefreshToken(r.new, r.user, r.at) \in Row
    BY <1>0, <2>1, NewRowFacts
  <2>3. /\ rows'[r.new] = NewRefreshToken(r.new, r.user, r.at)
        /\ r.new \in Stored(rows')
    BY <1>0, <2>1, <2>2, RowTypes, InsertFacts
  <2>4. rows'[r.new].user = r.user /\ rows'[r.new].created = r.at
    BY <2>3 DEF NewRefreshToken
  <2> QED
    BY <1>8, <2>1, <2>3, <2>4
<1>10. CASE RotateCommit(p)
  <2>1. /\ pc[p] = "rotateCommit" /\ r.op = "refresh" /\ r.new \in Token
        /\ rows[r.new] = NoRow
        /\ r.tok \in Stored(rows) /\ r.user = rows[r.tok].user
        /\ Rotatable(rows[r.tok], r.at)
        /\ rows' = Rotate(rows, r.tok, r.new, rows[r.tok].user, r.at)
        /\ pc'[p] = "done" /\ req'[p] = r /\ res'[p] \in {"ok", "error"}
    BY <1>0, <1>10 DEF RotateCommit, Committed, Answer, Progress, IndInv, ArgumentsInv,
       DrawnInv, LockInv
  <2> HIDE DEF r
  <2>2. /\ Stored(rows') = Stored(rows) \cup {r.new}
        /\ rows'[r.new].user = rows[r.tok].user
        /\ rows'[r.new].created = r.at
    BY <1>0, <2>1, RotatedRows
  <2> QED
    BY <1>8, <2>1, <2>2
<1>11. CASE FindToken(p)
  <2>1. pc[p] = "findToken" /\ r.op = "refresh"
    BY <1>0, <1>11 DEF FindToken, Progress
  <2>2. CASE Reject(p, "invalid")
    <3>1. req'[p] = r /\ pc'[p] = "done" /\ res'[p] = "invalid"
      BY <1>0, <2>2 DEF Reject, Answer
    <3> QED
      BY <1>2, <2>1, <3>1
  <2>3. CASE Goto(p, "familyBegin") \/ Goto(p, "findUser")
    <3>1. pc'[p] \in {"familyBegin", "findUser"}
      BY <1>0, <2>3 DEF Goto
    <3> QED
      BY <1>2, <3>1
  <2> QED
    BY <1>11, <2>2, <2>3 DEF FindToken
<1>12. CASE RevokeByTokenHash(p)
  <2>1. r.op = "logout" /\ req'[p] = r /\ pc'[p] = "done"
    BY <1>0, <1>12 DEF RevokeByTokenHash, Committed, Answer, IndInv, AnswerInv
  <2> QED
    BY <1>2, <2>1
<1>13. CASE ListSessions(p)
  <2>1. r.op = "list" /\ req'[p] = r /\ pc'[p] = "done"
    BY <1>0, <1>13 DEF ListSessions, Reject, Answer
  <2> QED
    BY <1>2, <2>1
<1>14. CASE RevokeSession(p)
  <2>1. \/ r.op = "revoke" /\ req'[p] = r /\ pc'[p] = "done"
        \/ pc'[p] = "familyBegin"
    BY <1>0, <1>14 DEF RevokeSession, Reject, Answer, Goto
  <2> QED
    BY <1>2, <2>1
<1>15. CASE RevokeFamilyBegin(p)
  <2>1. pc'[p] = "familyApply"
    BY <1>0, <1>15 DEF RevokeFamilyBegin, Goto
  <2> QED
    BY <1>2, <2>1
<1>16. CASE RevokeFamilyApply(p)
  <2>1. /\ r.op \in {"refresh", "revoke"} /\ req'[p] = r /\ pc'[p] = "done"
        /\ r.op = "refresh" => res'[p] \in {"invalid", "error"}
    BY <1>0, <1>16 DEF RevokeFamilyApply, Committed, Answer, Progress
  <2> QED
    BY <1>2, <2>1
<1> QED
  BY <1>4, <1>5, <1>6, <1>7, <1>9, <1>10, <1>11, <1>12, <1>13, <1>14, <1>15, <1>16
     DEF Server

LEMMA CarriedStep ==
    ASSUME APIInv, TypeOK', Kept, [APINext]_apiVars, NEW q \in Proc
    PROVE  Carried(q)'
<1>1. TypeOK /\ [Next]_vars
  BY APIStep DEF APIInv, StrongInv, IndInv
<1>2. CASE UNCHANGED vars \/ Tick \/ \E u \in User, s \in AdminStates : SetUser(u, s)
  BY <1>2, CarriedKept DEF vars, Tick, SetUser
<1>3. ASSUME NEW p \in Proc, Server(p) \/ Client(p) \/ Fail(p)
      PROVE  Carried(q)'
  <2>1. CASE p # q
    BY <1>1, <1>3, <2>1, OneMoves, CarriedKept
  <2>2. CASE p = q /\ Server(q)
    BY <2>2, CarriedServer
  <2>3. CASE p = q /\ Client(q)
    <3>1. pc'[q] \in {"idle", "findByEmail", "findToken", "logout", "listSessions"}
      BY <1>1, <2>3 DEF Client, StartSignIn, StartRefresh, StartLogout,
         StartListSessions, StartRevokeSession, Start, Deliver, Lose, Reset, TypeOK
    <3> QED
      BY <3>1 DEF Carried
  <2>4. CASE p = q /\ Fail(q)
    <3>1. pc'[q] = "done" /\ res'[q] = "error"
      BY <1>1, <2>4 DEF Fail, Answer, TypeOK
    <3> QED
      BY <3>1 DEF Carried
  <2> QED
    BY <1>3, <2>1, <2>2, <2>3, <2>4
<1> QED
  BY <1>1, <1>2, <1>3 DEF Next

LEMMA HeldKept ==
    ASSUME APIInv, TypeOK', Kept, [APINext]_apiVars, NEW q \in Proc,
           pc[q] \in {"findToken", "findUser", "rotateLock", "rotateCommit"},
           req'[q].tok = req[q].tok, req'[q].at = req[q].at
    PROVE  Held(q)'
<1> DEFINE r == req[q]
<1>1. TypeOK /\ Times /\ Held(q) /\ Progress(q) /\ r.at \in Nat
  BY StrongParts DEF APIInv, StrongInv, IndInv, TypeOK, Request
<1> SUFFICES ASSUME r.tok \in Stored(rows'), Rotatable(rows'[r.tok], r.at)
             PROVE  r.at =< lastLive'[rows'[r.tok].family]
  BY DEF Held
<1>2. r.tok \in Stored(rows)
  BY <1>1, SlotAssumption DEF Progress, Stored
<1>3. /\ rows'[r.tok].family = rows[r.tok].family
      /\ Rotatable(rows[r.tok], r.at)
  BY <1>2 DEF Kept, Rotatable, IsExpired
<1>4. r.at =< lastLive[rows[r.tok].family]
  BY <1>1, <1>2, <1>3 DEF Held
<1>5. rows[r.tok].family \in Token
  BY <1>1, <1>2, RowTypes
<1> QED
  BY <1>1, <1>3, <1>4, <1>5, TimesStep DEF Times

\* A refresh starts with a session that is alive, or is refused.
LEMMA HeldStart ==
    ASSUME APIInv, TypeOK', Kept, [APINext]_apiVars, NEW q \in Proc, NEW t,
           StartRefresh(q, t)
    PROVE  Held(q)'
<1>1. TypeOK /\ Times /\ clock \in Nat
  BY SlotAssumption DEF APIInv, StrongInv, IndInv, TypeOK
<1>2. /\ rows' = rows /\ clock' = clock
      /\ req'[q].tok = t /\ req'[q].at = clock
  <2> DEFINE x == [NoRequest EXCEPT !.op = "refresh", !.tok = t, !.at = clock]
  <2>1. x.tok = t /\ x.at = clock
    BY DEF NoRequest
  <2> HIDE DEF x
  <2> QED
    BY <1>1, <2>1 DEF StartRefresh, Start, TypeOK, x
<1> SUFFICES ASSUME t \in Stored(rows), Rotatable(rows[t], clock)
             PROVE  clock =< lastLive'[rows[t].family]
  BY <1>2 DEF Held
<1>3. rows[t].family \in Token
  BY <1>1, RowTypes
<1>4. Alive(rows[t].family)
  BY FamilyStored DEF Alive, LiveRows, Rotatable
<1>5. lastLive[rows[t].family] = clock
  BY <1>1, <1>3, <1>4 DEF Times
<1> QED
  BY <1>1, <1>3, <1>5, TimesStep DEF Times

LEMMA HeldStep ==
    ASSUME APIInv, TypeOK', Kept, [APINext]_apiVars, NEW q \in Proc
    PROVE  Held(q)'
<1> DEFINE Rotating == {"findToken", "findUser", "rotateLock", "rotateCommit"}
<1>1. /\ TypeOK /\ [Next]_vars /\ req[q] \in Request
      /\ pc \in [Proc -> PC] /\ req \in [Proc -> Request]
  BY APIStep DEF APIInv, StrongInv, IndInv, TypeOK
<1>2. CASE pc'[q] \notin Rotating
  BY <1>2 DEF Held
<1>3. ASSUME pc[q] \in Rotating, req'[q].tok = req[q].tok, req'[q].at = req[q].at
      PROVE  Held(q)'
  BY <1>3, HeldKept
<1>4. ASSUME pc'[q] = pc[q], req'[q] = req[q] PROVE Held(q)'
  BY <1>2, <1>3, <1>4
<1>5. CASE UNCHANGED vars \/ Tick \/ \E u \in User, s \in AdminStates : SetUser(u, s)
  BY <1>4, <1>5 DEF vars, Tick, SetUser
<1>6. ASSUME NEW p \in Proc, Server(p) \/ Client(p) \/ Fail(p)
      PROVE  Held(q)'
  <2>1. CASE p # q
    BY <1>1, <1>4, <1>6, <2>1, OneMoves
  <2>2. CASE FindToken(q)
    <3>1. /\ pc[q] = "findToken"
          /\ \/ req'[q] = req[q]
             \/ req'[q] = [req[q] EXCEPT !.fam = rows[req[q].tok].family]
             \/ req'[q] = [req[q] EXCEPT !.user = rows[req[q].tok].user]
      BY <1>1, <2>2 DEF FindToken, Reject
    <3>2. req'[q].tok = req[q].tok /\ req'[q].at = req[q].at
      BY <1>1, <3>1 DEF Request
    <3> QED
      BY <1>3, <3>1, <3>2
  <2>3. CASE FindUser(q)
    <3>1. /\ pc[q] = "findUser"
          /\ \/ req'[q] = req[q]
             \/ \E n \in FreshTokens : req'[q] = [req[q] EXCEPT !.new = n]
      BY <1>1, <2>3 DEF FindUser, Reject
    <3>2. req'[q].tok = req[q].tok /\ req'[q].at = req[q].at
      BY <1>1, <3>1 DEF Request
    <3> QED
      BY <1>3, <3>1, <3>2
  <2>4. CASE RotateLock(q)
    <3>1. pc[q] = "rotateLock" /\ req'[q] = req[q]
      BY <2>4 DEF RotateLock, Reject
    <3> QED
      BY <1>3, <3>1
  <2>5. CASE SignInCheck(q) \/ IssueSession(q) \/ Create(q) \/ RotateCommit(q)
             \/ RevokeByTokenHash(q) \/ ListSessions(q) \/ RevokeSession(q)
             \/ RevokeFamilyBegin(q) \/ RevokeFamilyApply(q) \/ Fail(q)
    <3>1. pc'[q] \notin Rotating
      BY <1>1, <2>5 DEF SignInCheck, IssueSession, Create, RotateCommit,
         RevokeByTokenHash, ListSessions, RevokeSession, RevokeFamilyBegin,
         RevokeFamilyApply, Fail, Reject, Committed, Answer, Goto
    <3> QED
      BY <1>2, <3>1
  <2>6. CASE Client(q)
    <3>1. CASE \E t \in delivered \cup {NoToken} : StartRefresh(q, t)
      BY <3>1, HeldStart
    <3>2. CASE ~\E t \in delivered \cup {NoToken} : StartRefresh(q, t)
      <4>1. pc'[q] \notin Rotating
        BY <1>1, <2>6, <3>2 DEF Client, StartSignIn, StartLogout, StartListSessions,
           StartRevokeSession, Start, Deliver, Lose, Reset
      <4> QED
        BY <1>2, <4>1
    <3> QED
      BY <3>1, <3>2
  <2> QED
    BY <1>6, <2>1, <2>2, <2>3, <2>4, <2>5, <2>6 DEF Server
<1> QED
  BY <1>1, <1>5, <1>6 DEF Next

\* Only a sign-in or a refresh that succeeded answers with 200 and tokens.
LEMMA TokensOnSuccess ==
    ASSUME NEW p \in Proc, Carried(p), pc[p] = "done",
           req[p].op \in {"signin", "refresh"}, Status(p) = 200
    PROVE  res[p] = "ok"
<1>1. CASE req[p].op = "signin"
  BY <1>1 DEF Carried, Status, SignInStatus
<1>2. CASE req[p].op = "refresh"
  BY <1>2 DEF Carried, Status, RefreshStatus
<1> QED
  BY <1>1, <1>2

LEMMA FaithfulStep ==
    ASSUME APIInv, TypeOK', Kept, [APINext]_apiVars
    PROVE  /\ \A t \in Token : Faithful(t)'
           /\ access' \in [Token -> AccessToken \cup {NoAccess}]
<1>0. /\ IndInv /\ TypeOK /\ \A t \in Token : Faithful(t)
      /\ access \in [Token -> AccessToken \cup {NoAccess}]
  BY DEF APIInv, StrongInv, IndInv, APITypeOK
<1>1. ASSUME NEW t \in Token, access'[t] = access[t] PROVE Faithful(t)'
  <2>1. t \in Stored(rows) => /\ t \in Stored(rows')
                              /\ rows'[t].user = rows[t].user
                              /\ rows'[t].created = rows[t].created
    BY DEF Kept
  <2> QED
    BY <1>0, <1>1, <2>1 DEF Faithful, generateAccessToken, NewNumericDate
<1>2. ASSUME NEW p \in Proc, Deliver(p), access' = TokenPair(p), Status(p) = 200,
             req[p].op \in {"signin", "refresh"}
      PROVE  /\ \A t \in Token : Faithful(t)'
             /\ access' \in [Token -> AccessToken \cup {NoAccess}]
  <2> DEFINE r == req[p]
             a == generateAccessToken(r.user, r.at)
  <2>1. pc[p] = "done" /\ rows' = rows
    BY <1>2 DEF Deliver, Reset
  <2>2. r.new \in Stored(rows) /\ rows[r.new].user = r.user /\ rows[r.new].created = r.at
    BY <1>2, <2>1, TokensOnSuccess DEF APIInv, Carried
  <2>3. r.user \in User /\ r.at \in Nat /\ r.new \in Token
    BY <1>0, <2>2, RowTypes
  <2>4. access' = [access EXCEPT ![r.new] = a]
    BY <1>2 DEF TokenPair
  <2>5. a \in AccessToken
    BY <2>3, TokenFacts
  <2>6. ASSUME NEW t \in Token, t = r.new PROVE Faithful(t)'
    <3>1. a = generateAccessToken(rows'[r.new].user, rows'[r.new].created)
      BY <2>1, <2>2
    <3> HIDE DEF a, r
    <3>2. access'[r.new] = a
      BY <1>0, <2>3, <2>4
    <3>3. r.new \in Stored(rows')
      BY <2>1, <2>2
    <3> QED
      BY <2>6, <3>1, <3>2, <3>3 DEF Faithful, generateAccessToken, NewNumericDate
  <2>7. ASSUME NEW t \in Token, t # r.new PROVE Faithful(t)'
    BY <1>0, <1>1, <2>4, <2>7
  <2> HIDE DEF a, r
  <2>8. access' \in [Token -> AccessToken \cup {NoAccess}]
    BY <1>0, <2>3, <2>4, <2>5
  <2> QED
    BY <2>6, <2>7, <2>8
<1>3. CASE access' = access
  BY <1>0, <1>1, <1>3
<1> QED
  BY <1>2, <1>3 DEF APINext, APIDeliver, apiVars

LEMMA NextAPIInv ==
    ASSUME APIInv, [APINext]_apiVars
    PROVE  APIInv'
<1>1. StrongInv /\ [Next]_vars
  BY APIStep DEF APIInv
<1>2. StrongInv' /\ TypeOK' /\ Kept
  BY <1>1, NextStrongInv, StepKeeps DEF StrongInv, IndInv
<1>3. /\ Times'
      /\ lastLive' \in [Token -> 0..MaxTime]
      /\ lastEntitled' \in [User -> 0..MaxTime]
  BY <1>2, TimesStep
<1>4. \A t \in Stored(rows') : Dated(t)'
  BY <1>2, DatedStep
<1>5. \A p \in Proc : Carried(p)' /\ Held(p)'
  BY <1>2, CarriedStep, HeldStep
<1>6. /\ \A t \in Token : Faithful(t)'
      /\ access' \in [Token -> AccessToken \cup {NoAccess}]
  BY <1>2, FaithfulStep
<1> QED
  BY <1>2, <1>3, <1>4, <1>5, <1>6 DEF APIInv, APITypeOK

\* The invariant behind the access tokens, for any number of requests, sessions
\* and accounts, any lifetimes and any length of a second.
THEOREM APIInvHolds == APISpec => []APIInv
<1>1. ASSUME APIInit PROVE APIInv
  <2>1. StrongInv /\ Stored(rows) = {} /\ clock = 0
    BY <1>1, InitStrongInv DEF APIInit, Init, Stored, EmptyTable
  <2>2. APITypeOK
    BY <1>1, SlotAssumption DEF APIInit, APITypeOK
  <2>3. Times
    BY <1>1, <2>1, FamilyStored DEF APIInit, Times, Alive, LiveRows
  <2>4. \A p \in Proc : Carried(p) /\ Held(p)
    BY <1>1 DEF APIInit, Init, Carried, Held
  <2>5. \A t \in Token : Faithful(t)
    BY <1>1 DEF APIInit, Faithful
  <2> QED
    BY <2>1, <2>2, <2>3, <2>4, <2>5 DEF APIInv
<1>2. APIInv /\ [APINext]_apiVars => APIInv'
  BY NextAPIInv
<1> QED
  BY <1>1, <1>2, PTL DEF APISpec

\* The typing of the access tokens and histories.
THEOREM APITyping == APISpec => []APITypeOK
<1>1. APIInv => APITypeOK
  BY DEF APIInv
<1> QED
  BY <1>1, APIInvHolds, PTL

\* What an access token says of its row.
LEMMA AccessFacts ==
    ASSUME APIInv, NEW t \in Token, access[t] # NoAccess
    PROVE  /\ t \in Stored(rows) /\ Dated(t)
           /\ rows[t].family \in Token /\ rows[t].user \in User
           /\ rows[t].created \in Nat /\ rows[t].expires \in Nat
           /\ access[t].sub = rows[t].user
           /\ access[t].exp \in Nat
           /\ access[t].exp =< rows[t].created + AccessTTL
<1>1. /\ t \in Stored(rows) /\ Dated(t) /\ TypeOK
      /\ access[t] = generateAccessToken(rows[t].user, rows[t].created)
  BY DEF APIInv, Faithful, StrongInv, IndInv
<1>2. /\ rows[t].family \in Token /\ rows[t].user \in User
      /\ rows[t].created \in Nat /\ rows[t].expires \in Nat
  BY <1>1, RowTypes
<1> QED
  BY <1>1, <1>2, TokenFacts

\* An access token speaks for a session for less than AccessTTL after the session
\* was last alive, neither revoked nor expired; only a session that had expired when
\* its sign-in answered is counted from the sign-in (generateAccessToken,
\* RequireBearerAuth).
THEOREM AccessEndsWithSessionHolds == APISpec => []AccessEndsWithSession
<1>1. ASSUME APIInv, NEW t \in Token, Accepted(access[t])
      PROVE  \/ clock < lastLive[rows[t].family] + AccessTTL
             \/ clock < rows[rows[t].family].created + AccessTTL
  <2>1. access[t] # NoAccess /\ clock < access[t].exp
    BY <1>1 DEF Accepted
  <2>2. lastLive[rows[t].family] \in Nat /\ clock \in Nat
    BY <1>1, <2>1, AccessFacts, SlotAssumption
       DEF APIInv, Times, StrongInv, IndInv, TypeOK
  <2>3. clock < rows[t].created + AccessTTL
    BY <1>1, <2>1, <2>2, AccessFacts, AccessAssumption
  <2>4. CASE rows[t].family = t
    BY <2>3, <2>4
  <2>5. CASE rows[t].created =< lastLive[rows[t].family]
    BY <1>1, <2>1, <2>2, <2>3, <2>5, AccessFacts, AccessAssumption
  <2> QED
    BY <1>1, <2>1, <2>4, <2>5, AccessFacts DEF Dated
<1>2. APIInv => AccessEndsWithSession
  BY <1>1 DEF AccessEndsWithSession
<1> QED
  BY <1>2, APIInvHolds, PTL

\* Nor for an account for AccessTTL after the account was last good for a token
\* (SignIn, Refresh, RequireBearerAuth).
THEOREM AccessEndsWithAccountHolds == APISpec => []AccessEndsWithAccount
<1>1. ASSUME APIInv, NEW t \in Token, Accepted(access[t])
      PROVE  clock < lastEntitled[access[t].sub] + AccessTTL
  <2>1. access[t] # NoAccess /\ clock < access[t].exp
    BY <1>1 DEF Accepted
  <2>2. lastEntitled[rows[t].user] \in Nat /\ clock \in Nat
    BY <1>1, <2>1, AccessFacts, SlotAssumption
       DEF APIInv, Times, StrongInv, IndInv, TypeOK
  <2> QED
    BY <1>1, <2>1, <2>2, AccessFacts, AccessAssumption DEF Dated
<1>2. APIInv => AccessEndsWithAccount
  BY <1>1 DEF AccessEndsWithAccount
<1> QED
  BY <1>2, APIInvHolds, PTL

\* An access token belongs to the owner of the session it came with and does not
\* outlive the refresh token beside it (TokenPair, NewNumericDate).
THEOREM AccessMatchesRefreshHolds == APISpec => []AccessMatchesRefresh
<1>1. ASSUME APIInv, NEW t \in Token, access[t] # NoAccess
      PROVE  /\ t \in Stored(rows)
             /\ access[t].sub = rows[t].user
             /\ AccessTTL =< RefreshTTL => access[t].exp =< rows[t].expires
  BY <1>1, AccessFacts, AccessAssumption, TTLAssumption DEF Dated
<1>2. APIInv => AccessMatchesRefresh
  BY <1>1 DEF AccessMatchesRefresh
<1> QED
  BY <1>2, APIInvHolds, PTL

\* Behind HTTP, where only the bearer of an access token lists and revokes sessions,
\* requests make the steps of AuthService and no others, so what is proved of
\* AuthService holds of the endpoints (RequireBearerAuth, handlers.go).
THEOREM APIImplements == APISpec => Spec
<1>1. APIInit => Init
  BY DEF APIInit
<1>2. APIInv /\ [APINext]_apiVars => [Next]_vars
  BY APIStep
<1> QED
  BY <1>1, <1>2, APIInvHolds, PTL DEF APISpec, Spec

\* A request changes rows of the account its access token names, and no others
\* (RevokeSession behind RequireBearerAuth).
THEOREM BearersRevokeOwnSessions == APISpec => RevokesOwnSessions
  BY APIImplements, RevokesOwnSessionsHolds, PTL

\* Clients see sessions that are opened once, handed from one token to the next,
\* and once closed never reopened (the auth endpoints).
THEOREM APIRefines == APISpec => ImplementsSessions
  BY APIImplements, Refines, PTL
=============================================================================
