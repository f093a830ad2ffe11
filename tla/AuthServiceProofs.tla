------------------------- MODULE AuthServiceProofs -------------------------
(***************************************************************************)
(* Proofs about AuthService, for every number of tokens, accounts and      *)
(* request slots and every bound on the clock.                             *)
(***************************************************************************)
EXTENDS AuthService, TLAPS

-----------------------------------------------------------------------------
(***************************************************************************)
(* What the statements do to the table.                                    *)
(***************************************************************************)

\* The rows of a family are among the stored ones.
LEMMA FamilyStored ==
    \A tab, f : FamilyRows(tab, f) = {t \in Stored(tab) : tab[t].family = f}
  BY DEF FamilyRows, Stored

\* A revocation changes revoked_at, in the rows it is given that are stored
\* and not revoked, and nothing else (BuildRevokeRefreshTokenFamilySQL,
\* BuildRevokeRefreshTokenByTokenHashSQL).
LEMMA RevokeFacts ==
    ASSUME NEW tab \in Table, NEW ts, NEW now \in Nat
    PROVE  /\ Revoke(tab, ts, now) \in Table
           /\ Stored(Revoke(tab, ts, now)) = Stored(tab)
           /\ \A t \in Token :
                 ~(t \in ts /\ t \in Stored(tab) /\ ~IsRevoked(tab[t]))
                    => Revoke(tab, ts, now)[t] = tab[t]
           /\ \A t \in Stored(tab) :
                 /\ t \in ts => IsRevoked(Revoke(tab, ts, now)[t])
                 /\ IsRevoked(tab[t]) => Revoke(tab, ts, now)[t] = tab[t]
                 /\ Revoke(tab, ts, now)[t].family = tab[t].family
                 /\ Revoke(tab, ts, now)[t].user = tab[t].user
                 /\ Revoke(tab, ts, now)[t].created = tab[t].created
                 /\ Revoke(tab, ts, now)[t].expires = tab[t].expires
<1> DEFINE hit == {t \in ts \cap Stored(tab) : ~IsRevoked(tab[t])}
           new == Revoke(tab, ts, now)
<1>1. new = [t \in Token |-> IF t \in hit /\ t \in Stored(tab)
                               THEN [tab[t] EXCEPT !.revoked = now]
                               ELSE tab[t]]
  BY DEF Revoke, SetRevoked
<1>2. \A t \in Token : t \in hit => tab[t] \in Row
  BY DEF Stored, Table
<1>3. \A t \in Token : t \in hit => /\ new[t] \in Row
                                    /\ new[t].revoked = now
                                    /\ new[t].family = tab[t].family
                                    /\ new[t].user = tab[t].user
                                    /\ new[t].created = tab[t].created
                                    /\ new[t].expires = tab[t].expires
  BY <1>1, <1>2 DEF Row, Stored
<1>4. \A t \in Token : t \notin hit => new[t] = tab[t]
  BY <1>1
<1>5. new \in Table
  <2>1. \A t \in Token : new[t] \in Row \cup {NoRow}
    BY <1>3, <1>4 DEF Table
  <2> QED
    BY <2>1, <1>1 DEF Table
<1>6. Stored(new) = Stored(tab)
  <2>1. \A t \in Token : t \in hit => new[t] # NoRow /\ tab[t] # NoRow
    BY <1>3, <1>2, NullAssumption
  <2> QED
    BY <2>1, <1>4 DEF Stored
<1>7. \A t \in Stored(tab) : t \in ts => IsRevoked(new[t])
  <2> SUFFICES ASSUME NEW t \in Stored(tab), t \in ts PROVE IsRevoked(new[t])
    OBVIOUS
  <2>1. t \in Token
    BY DEF Stored
  <2>2. CASE t \in hit
    BY <2>1, <2>2, <1>3, NullAssumption DEF IsRevoked
  <2>3. CASE t \notin hit
    BY <2>1, <2>3, <1>4
  <2> QED
    BY <2>2, <2>3
<1>8. \A t \in Token : t \in hit <=> (t \in ts /\ t \in Stored(tab) /\ ~IsRevoked(tab[t]))
  OBVIOUS
<1>9. \A t \in Stored(tab) : t \in Token
  BY DEF Stored
<1> HIDE DEF hit
<1>10. \A t \in Stored(tab) : /\ new[t].family = tab[t].family
                              /\ new[t].user = tab[t].user
                              /\ new[t].created = tab[t].created
                              /\ new[t].expires = tab[t].expires
  BY <1>3, <1>4, <1>9
<1> QED
  BY <1>4, <1>5, <1>6, <1>7, <1>8, <1>9, <1>10

\* A new row can be inserted where there is none, and leaves the others alone
\* (BuildCreateRefreshTokenSQL).
LEMMA InsertFacts ==
    ASSUME NEW tab \in Table, NEW n \in Token, NEW row \in Row, tab[n] = NoRow
    PROVE  /\ CreateRefreshToken(tab, n, row) \in Table
           /\ Stored(CreateRefreshToken(tab, n, row)) = Stored(tab) \cup {n}
           /\ n \notin Stored(tab)
           /\ CreateRefreshToken(tab, n, row)[n] = row
           /\ \A t \in Token : t # n => CreateRefreshToken(tab, n, row)[t] = tab[t]
<1>1. row # NoRow
  BY NullAssumption
<1> QED
  BY <1>1 DEF CreateRefreshToken, Table, Stored

LEMMA NewRowFacts ==
    ASSUME NEW n \in Token, NEW u \in User, NEW f \in Token, NEW now \in Nat
    PROVE  /\ NewRefreshToken(n, u, now) \in Row
           /\ [NewRefreshToken(n, u, now) EXCEPT !.family = f] \in Row
           /\ [NewRefreshToken(n, u, now) EXCEPT !.family = f].family = f
           /\ [NewRefreshToken(n, u, now) EXCEPT !.family = f].user = u
           /\ [NewRefreshToken(n, u, now) EXCEPT !.family = f].created = now
           /\ [NewRefreshToken(n, u, now) EXCEPT !.family = f].expires = now + RefreshTTL
           /\ ~IsRevoked([NewRefreshToken(n, u, now) EXCEPT !.family = f])
           /\ [NewRefreshToken(n, u, now) EXCEPT !.family = n] = NewRefreshToken(n, u, now)
  BY TTLAssumption DEF NewRefreshToken, Row, IsRevoked

\* A rotation revokes the exchanged row, adds its successor to the same family
\* and leaves the other rows alone (Rotate in repositories/auth.go).
LEMMA RotateFacts ==
    ASSUME NEW tab \in Table, NEW t \in Stored(tab), ~IsRevoked(tab[t]),
           NEW n \in Token, tab[n] = NoRow, NEW u \in User, NEW now \in Nat
    PROVE  /\ Rotate(tab, t, n, u, now) \in Table
           /\ Stored(Rotate(tab, t, n, u, now)) = Stored(tab) \cup {n}
           /\ n \notin Stored(tab)
           /\ Rotate(tab, t, n, u, now)[t] = [tab[t] EXCEPT !.revoked = now]
           /\ Rotate(tab, t, n, u, now)[n]
                = [NewRefreshToken(n, u, now) EXCEPT !.family = tab[t].family]
           /\ \A s \in Token : s # n /\ s # t => Rotate(tab, t, n, u, now)[s] = tab[s]
<1> DEFINE mid == SetRevoked(tab, {t}, now)
<1>1. t \in Token /\ tab[t] \in Row /\ t # n
  BY DEF Stored, Table
<1>2. mid = [s \in Token |-> IF s \in {t} /\ s \in Stored(tab)
                               THEN [tab[s] EXCEPT !.revoked = now]
                               ELSE tab[s]]
  BY DEF SetRevoked
<1>3. mid[t] = [tab[t] EXCEPT !.revoked = now] /\ mid[t] \in Row
  BY <1>1, <1>2 DEF Row
<1>4. \A s \in Token : s # t => mid[s] = tab[s]
  BY <1>2
<1>5. mid \in Table
  <2>1. \A s \in Token : mid[s] \in Row \cup {NoRow}
    BY <1>3, <1>4 DEF Table
  <2> QED
    BY <2>1, <1>2 DEF Table
<1>6. Stored(mid) = Stored(tab)
  <2>1. mid[t] # NoRow /\ tab[t] # NoRow
    BY <1>1, <1>3, NullAssumption
  <2> QED
    BY <2>1, <1>4 DEF Stored
<1>7. mid[n] = NoRow
  BY <1>1, <1>4
<1>8. tab[t].family \in Token
  BY <1>1 DEF Row
<1>9. [NewRefreshToken(n, u, now) EXCEPT !.family = tab[t].family] \in Row
  BY <1>8, NewRowFacts
<1> HIDE DEF mid
<1>10. Rotate(tab, t, n, u, now)
         = CreateRefreshToken(mid, n,
             [NewRefreshToken(n, u, now) EXCEPT !.family = tab[t].family])
  BY DEF Rotate, mid
<1> QED
  BY <1>1, <1>3, <1>4, <1>5, <1>6, <1>7, <1>9, <1>10, InsertFacts

-----------------------------------------------------------------------------
(***************************************************************************)
(* The parts of the invariant that speak of the table alone.               *)
(***************************************************************************)

TableInv == FamilyInv /\ OneLivePerFamily /\ RotationChain

LEMMA RowTypes ==
    ASSUME TypeOK
    PROVE  /\ rows \in Table
           /\ \A t \in Stored(rows) : /\ t \in Token
                                      /\ rows[t] \in Row
                                      /\ rows[t].family \in Token
                                      /\ rows[t].user \in User
                                      /\ rows[t].created \in Nat
                                      /\ rows[t].expires \in Nat
                                      /\ rows[t].revoked \in Nat \cup {NotRevoked}
  BY DEF TypeOK, Stored, Table, Row

LEMMA TableUnchanged ==
    ASSUME TableInv, rows' = rows
    PROVE  TableInv'
  BY FamilyStored DEF TableInv, FamilyInv, OneLivePerFamily, RotationChain, Stored,
                      LiveRows, IsRevoked

\* Revoking rows keeps every family's root, its owner and its chain.
LEMMA TableRevoke ==
    ASSUME TypeOK, TableInv, NEW ts, NEW now \in Nat, rows' = Revoke(rows, ts, now)
    PROVE  TableInv'
<1> USE RowTypes
<1>1. /\ Stored(rows') = Stored(rows)
      /\ \A t \in Stored(rows) : /\ IsRevoked(rows[t]) => rows'[t] = rows[t]
                                 /\ rows'[t].family = rows[t].family
                                 /\ rows'[t].user = rows[t].user
                                 /\ rows'[t].created = rows[t].created
                                 /\ rows'[t].expires = rows[t].expires
  BY RevokeFacts
<1>2. FamilyInv'
  BY <1>1 DEF TableInv, FamilyInv
<1>3. OneLivePerFamily'
  BY <1>1, FamilyStored DEF TableInv, OneLivePerFamily, LiveRows
<1>4. RotationChain'
  <2> SUFFICES ASSUME NEW t \in Stored(rows), rows[t].family # t
               PROVE  \E s \in FamilyRows(rows', rows'[t].family) \ {t} :
                         /\ rows'[s].user = rows'[t].user
                         /\ rows'[s].revoked = rows'[t].created
                         /\ rows'[t].created < rows'[s].expires
    BY <1>1 DEF RotationChain
  <2>1. PICK s \in FamilyRows(rows, rows[t].family) \ {t} :
                         /\ rows[s].user = rows[t].user
                         /\ rows[s].revoked = rows[t].created
                         /\ rows[t].created < rows[s].expires
    BY DEF TableInv, RotationChain
  <2>2. s \in Stored(rows) /\ IsRevoked(rows[s])
    BY <2>1, NullAssumption, FamilyStored DEF IsRevoked
  <2> QED
    BY <1>1, <2>1, <2>2, FamilyStored
<1> QED
  BY <1>2, <1>3, <1>4 DEF TableInv

\* A first row of a new family joins no other family.
LEMMA TableCreate ==
    ASSUME TypeOK, TableInv, NEW n \in Token, rows[n] = NoRow,
           NEW u \in User, NEW now \in Nat,
           rows' = CreateRefreshToken(rows, n, NewRefreshToken(n, u, now))
    PROVE  TableInv'
<1> USE RowTypes
<1>1. /\ Stored(rows') = Stored(rows) \cup {n}
      /\ n \notin Stored(rows)
      /\ rows'[n] = NewRefreshToken(n, u, now)
      /\ \A t \in Stored(rows) : rows'[t] = rows[t]
  <2>1. NewRefreshToken(n, u, now) \in Row
    BY NewRowFacts
  <2>2. \A t \in Stored(rows) : t # n
    BY DEF Stored
  <2> QED
    BY <2>1, <2>2, InsertFacts
<1>2. rows'[n].family = n
  BY <1>1 DEF NewRefreshToken
<1>3. FamilyInv'
  BY <1>1, <1>2 DEF TableInv, FamilyInv
<1>4. OneLivePerFamily'
  BY <1>1, <1>2, FamilyStored DEF TableInv, FamilyInv, OneLivePerFamily, LiveRows
<1>5. RotationChain'
  BY <1>1, <1>2, FamilyStored DEF TableInv, RotationChain
<1> QED
  BY <1>3, <1>4, <1>5 DEF TableInv

\* What a rotation makes of the two rows it touches.
LEMMA RotatedRows ==
    ASSUME TypeOK,
           NEW t \in Stored(rows), NEW now \in Nat, Rotatable(rows[t], now),
           NEW n \in Token, rows[n] = NoRow,
           rows' = Rotate(rows, t, n, rows[t].user, now)
    PROVE  /\ Stored(rows') = Stored(rows) \cup {n}
           /\ n \notin Stored(rows)
           /\ rows'[n].family = rows[t].family
           /\ rows'[n].user = rows[t].user
           /\ rows'[n].created = now
           /\ rows'[n].expires = now + RefreshTTL
           /\ ~IsRevoked(rows'[n])
           /\ rows'[t].family = rows[t].family
           /\ rows'[t].user = rows[t].user
           /\ rows'[t].created = rows[t].created
           /\ rows'[t].expires = rows[t].expires
           /\ rows'[t].revoked = now
           /\ IsRevoked(rows'[t])
           /\ \A s \in Token : s # n /\ s # t => rows'[s] = rows[s]
<1> USE RowTypes
<1> DEFINE f == rows[t].family
<1>1. /\ Stored(rows') = Stored(rows) \cup {n}
      /\ n \notin Stored(rows)
      /\ rows'[t] = [rows[t] EXCEPT !.revoked = now]
      /\ rows'[n] = [NewRefreshToken(n, rows[t].user, now) EXCEPT !.family = f]
      /\ \A s \in Token : s # n /\ s # t => rows'[s] = rows[s]
  BY RotateFacts DEF Rotatable
<1>2. /\ rows'[n].family = f
      /\ rows'[n].user = rows[t].user
      /\ rows'[n].created = now
      /\ rows'[n].expires = now + RefreshTTL
      /\ ~IsRevoked(rows'[n])
  BY <1>1, NewRowFacts
<1>3. /\ rows'[t].family = f
      /\ rows'[t].user = rows[t].user
      /\ rows'[t].created = rows[t].created
      /\ rows'[t].expires = rows[t].expires
      /\ rows'[t].revoked = now
      /\ IsRevoked(rows'[t])
  BY <1>1, NullAssumption DEF Row, IsRevoked
<1> QED
  BY <1>1, <1>2, <1>3

\* Rotating a live and unexpired row hands the session to its successor.
LEMMA TableRotate ==
    ASSUME TypeOK, TableInv,
           NEW t \in Stored(rows), NEW now \in Nat, Rotatable(rows[t], now),
           NEW n \in Token, rows[n] = NoRow,
           rows' = Rotate(rows, t, n, rows[t].user, now)
    PROVE  TableInv'
<1> USE RowTypes
<1> DEFINE f == rows[t].family
<1>1. /\ Stored(rows') = Stored(rows) \cup {n}
      /\ n \notin Stored(rows)
      /\ \A s \in Stored(rows) : s # t => rows'[s] = rows[s]
  BY RotatedRows
<1>2. /\ rows'[n].family = f
      /\ rows'[n].user = rows[t].user
      /\ rows'[n].created = now
  BY RotatedRows
<1>3. /\ rows'[t].family = f
      /\ rows'[t].user = rows[t].user
      /\ rows'[t].created = rows[t].created
      /\ rows'[t].expires = rows[t].expires
      /\ rows'[t].revoked = now
      /\ IsRevoked(rows'[t])
  BY RotatedRows
<1>4. FamilyInv'
  BY <1>1, <1>2, <1>3 DEF TableInv, FamilyInv
<1>5. OneLivePerFamily'
  <2>1. \A s \in LiveRows(rows, f) : s = t
    BY FamilyStored DEF TableInv, OneLivePerFamily, LiveRows, Rotatable
  <2>2. LiveRows(rows', f) \subseteq {n}
    BY <2>1, <1>1, <1>3, FamilyStored DEF LiveRows
  <2>3. \A g \in Token : g # f => LiveRows(rows', g) = LiveRows(rows, g)
    BY <1>1, <1>2, <1>3, FamilyStored DEF LiveRows
  <2> QED
    BY <2>2, <2>3 DEF TableInv, OneLivePerFamily
<1>6. RotationChain'
  <2> SUFFICES ASSUME NEW s \in Stored(rows'), rows'[s].family # s
               PROVE  \E r \in FamilyRows(rows', rows'[s].family) \ {s} :
                         /\ rows'[r].user = rows'[s].user
                         /\ rows'[r].revoked = rows'[s].created
                         /\ rows'[s].created < rows'[r].expires
    BY DEF RotationChain
  <2>1. CASE s = n
    <3>1. now < rows[t].expires
      BY DEF Rotatable, IsExpired
    <3>2. t # n /\ t \in Stored(rows')
      BY <1>1
    <3>3. t \in FamilyRows(rows', f) \ {n}
      BY <3>2, <1>3, FamilyStored
    <3> HIDE DEF f
    <3> QED
      BY <2>1, <3>1, <3>3, <1>2, <1>3
  <2>2. CASE s # n
    <3>1. s \in Stored(rows) /\ rows[s].family # s
      BY <2>2, <1>1, <1>3
    <3>2. PICK r \in FamilyRows(rows, rows[s].family) \ {s} :
                         /\ rows[r].user = rows[s].user
                         /\ rows[r].revoked = rows[s].created
                         /\ rows[s].created < rows[r].expires
      BY <3>1 DEF TableInv, RotationChain
    <3>3. r \in Stored(rows) /\ r # t
      BY <3>1, <3>2, NullAssumption, FamilyStored DEF Rotatable, IsRevoked
    <3>4. rows'[r] = rows[r] /\ rows'[s].created = rows[s].created
          /\ rows'[s].user = rows[s].user /\ rows'[s].family = rows[s].family
      BY <3>1, <3>3, <1>1, <1>3
    <3> QED
      BY <3>2, <3>3, <3>4, <1>1, FamilyStored
  <2> QED
    BY <2>1, <2>2
<1> QED
  BY <1>4, <1>5, <1>6 DEF TableInv

-----------------------------------------------------------------------------
(***************************************************************************)
(* Types.  TypeOK is not inductive by itself: the rows inserted take their *)
(* account and token from what the request holds.                          *)
(***************************************************************************)

LEMMA InitTyping == Init => TypeOK
<1> SUFFICES ASSUME Init PROVE TypeOK
  OBVIOUS
<1>1. rows \in Table
  BY DEF Init, EmptyTable, Table
<1>2. NoRequest \in Request
  BY DEF NoRequest, Request, Op
<1>3. req \in [Proc -> Request]
  BY <1>2 DEF Init
<1>4. clock \in 0..MaxTime
  BY SlotAssumption DEF Init
<1> QED
  BY <1>1, <1>3, <1>4 DEF Init, TypeOK, PC, Answers

\* The values requests are given and rewritten with are requests.
LEMMA RequestTypes ==
    /\ NoRequest \in Request
    /\ \A u \in User : [NoRequest EXCEPT !.op = "signin", !.user = u] \in Request
    /\ \A t \in Token \cup {NoToken}, n \in Nat :
          /\ [NoRequest EXCEPT !.op = "refresh", !.tok = t, !.at = n] \in Request
          /\ [NoRequest EXCEPT !.op = "logout", !.tok = t, !.at = n] \in Request
    /\ \A u \in User, n \in Nat :
          /\ [NoRequest EXCEPT !.op = "list", !.user = u, !.at = n] \in Request
          /\ \A f \in Token \cup {NoToken} :
                [NoRequest EXCEPT !.op = "revoke", !.user = u, !.fam = f, !.at = n] \in Request
    /\ \A r \in Request :
          /\ \A n \in Nat, t \in Token :
                [r EXCEPT !.at = n, !.new = t] \in Request
          /\ \A f \in Token : [r EXCEPT !.fam = f] \in Request
          /\ \A u \in User : [r EXCEPT !.user = u] \in Request
          /\ \A t \in Token : [r EXCEPT !.new = t] \in Request
          /\ \A n \in Nat : [r EXCEPT !.at = n] \in Request
          /\ \A ts \in SUBSET Token : [r EXCEPT !.targets = ts] \in Request
<1>1. NoRequest \in Request
  BY DEF NoRequest, Request, Op
<1>2. /\ \A u \in User : [NoRequest EXCEPT !.op = "signin", !.user = u] \in Request
      /\ \A t \in Token \cup {NoToken}, n \in Nat :
            /\ [NoRequest EXCEPT !.op = "refresh", !.tok = t, !.at = n] \in Request
            /\ [NoRequest EXCEPT !.op = "logout", !.tok = t, !.at = n] \in Request
  BY <1>1 DEF Request, Op
<1>3. \A u \in User, n \in Nat :
         /\ [NoRequest EXCEPT !.op = "list", !.user = u, !.at = n] \in Request
         /\ \A f \in Token \cup {NoToken} :
               [NoRequest EXCEPT !.op = "revoke", !.user = u, !.fam = f, !.at = n]
                  \in Request
  BY <1>1 DEF Request, Op
<1>4. \A r \in Request, n \in Nat, t \in Token : [r EXCEPT !.at = n, !.new = t] \in Request
  BY DEF Request
<1>5. \A r \in Request :
         /\ \A f \in Token : [r EXCEPT !.fam = f] \in Request
         /\ \A u \in User : [r EXCEPT !.user = u] \in Request
         /\ \A t \in Token : [r EXCEPT !.new = t] \in Request
         /\ \A n \in Nat : [r EXCEPT !.at = n] \in Request
         /\ \A ts \in SUBSET Token : [r EXCEPT !.targets = ts] \in Request
  BY DEF Request
<1> QED
  BY <1>1, <1>2, <1>3, <1>4, <1>5, Zenon

LEMMA StartTyping ==
    ASSUME TypeOK, NEW p \in Proc, NEW r \in Request, NEW l \in PC, Start(p, r, l)
    PROVE  TypeOK'
  BY DEF TypeOK, Start

LEMMA ClientTyping ==
    ASSUME TypeOK, AnswerInv, NEW p \in Proc, Client(p)
    PROVE  TypeOK'
<1>0. clock \in Nat /\ delivered \subseteq Token
  BY SlotAssumption DEF TypeOK
<1> USE RequestTypes
<1>1. CASE \E u \in User : StartSignIn(p, u)
  BY <1>1, StartTyping DEF StartSignIn, PC
<1>2. CASE \E t \in delivered \cup {NoToken} : StartRefresh(p, t)
  <2>1. PICK t \in delivered \cup {NoToken} : StartRefresh(p, t)
    BY <1>2
  <2>2. [NoRequest EXCEPT !.op = "refresh", !.tok = t, !.at = clock] \in Request
    BY <1>0
  <2> QED
    BY <2>1, <2>2, StartTyping DEF StartRefresh, PC
<1>3. CASE \E t \in delivered \cup {NoToken} : StartLogout(p, t)
  <2>1. PICK t \in delivered \cup {NoToken} : StartLogout(p, t)
    BY <1>3
  <2>2. [NoRequest EXCEPT !.op = "logout", !.tok = t, !.at = clock] \in Request
    BY <1>0
  <2> QED
    BY <2>1, <2>2, StartTyping DEF StartLogout, PC
<1>4. CASE \E u \in User, f \in SessionIds : StartRevokeSession(p, u, f)
  <2>1. SessionIds \subseteq Token \cup {NoToken}
    BY RowTypes DEF SessionIds
  <2> QED
    BY <1>0, <1>4, <2>1, StartTyping DEF StartRevokeSession, PC
<1>5. CASE Deliver(p)
  <2>1. /\ pc[p] = "done" /\ res[p] = "ok" /\ req[p].op \in {"signin", "refresh"}
        => req[p].new \in Token
    BY DEF AnswerInv, Stored
  <2>2. delivered' \in SUBSET Token
    BY <1>0, <1>5, <2>1 DEF Deliver, Reset
  <2> QED
    BY <1>5, <2>2 DEF Deliver, Reset, TypeOK, PC, Answers
<1>6. CASE Lose(p)
  BY <1>6 DEF Lose, Reset, TypeOK, PC, Answers
<1>7. CASE \E u \in User : StartListSessions(p, u)
  BY <1>0, <1>7, StartTyping DEF StartListSessions, PC
<1> QED
  BY <1>1, <1>2, <1>3, <1>4, <1>5, <1>6, <1>7 DEF Client

LEMMA ServerTyping ==
    ASSUME TypeOK, ArgumentsInv, DrawnInv, LockInv, NEW p \in Proc, Server(p)
    PROVE  TypeOK'
<1> DEFINE r == req[p]
<1>0. /\ clock \in Nat /\ rows \in Table
      /\ r \in Request /\ r.at \in Nat
      /\ FreshTokens \subseteq Token
  BY SlotAssumption DEF TypeOK, Request, FreshTokens
<1>1. ASSUME NEW a \in Answers, Reject(p, a) PROVE TypeOK'
  BY <1>1 DEF TypeOK, Reject, Answer, PC
<1>2. ASSUME NEW x \in Request, NEW l \in PC,
             req' = [req EXCEPT ![p] = x], Goto(p, l),
             UNCHANGED <<rows, lock, users, clock, delivered, res>>
      PROVE  TypeOK'
  BY <1>2 DEF TypeOK, Goto
<1>3. ASSUME NEW a \in Answers, Committed(p, a), rows' \in Table,
             lock' \in [Token -> Proc \cup {NoProc}],
             UNCHANGED <<users, clock, delivered, req>>
      PROVE  TypeOK'
  BY <1>3 DEF TypeOK, Committed, Answer, PC, Answers
<1>4. CASE SignInCheck(p)
  <2>1. CASE \E a \in Answers : Reject(p, a)
    BY <2>1, <1>1
  <2>2. CASE /\ Goto(p, "issueSession")
             /\ UNCHANGED <<rows, lock, users, clock, delivered, req, res>>
    BY <2>2 DEF TypeOK, Goto, PC
  <2> QED
    BY <1>4, <2>1, <2>2 DEF SignInCheck, Answers
<1>14. CASE IssueSession(p)
  <2>1. CASE \E a \in Answers : Reject(p, a)
    BY <2>1, <1>1
  <2>2. CASE \E n \in FreshTokens :
               /\ req' = [req EXCEPT ![p] = [@ EXCEPT !.at = clock, !.new = n]]
               /\ Goto(p, "create")
               /\ UNCHANGED <<rows, lock, users, clock, delivered, res>>
    <3>1. PICK n \in FreshTokens :
               /\ req' = [req EXCEPT ![p] = [@ EXCEPT !.at = clock, !.new = n]]
               /\ Goto(p, "create")
               /\ UNCHANGED <<rows, lock, users, clock, delivered, res>>
      BY <2>2
    <3>2. [r EXCEPT !.at = clock, !.new = n] \in Request
      BY <1>0, RequestTypes
    <3> QED
      BY <3>1, <3>2, <1>2 DEF PC
  <2> QED
    BY <1>14, <2>1, <2>2 DEF IssueSession, Answers
<1>5. CASE Create(p)
  <2>1. /\ r.user \in User /\ r.new \in Token /\ rows[r.new] = NoRow
    BY <1>5 DEF Create, ArgumentsInv, DrawnInv
  <2>2. rows' \in Table
    BY <1>5, <1>0, <2>1, NewRowFacts, InsertFacts DEF Create
  <2> QED
    BY <1>5, <2>2, <1>3 DEF Create, Answers, TypeOK
<1>6. CASE FindToken(p)
  <2>1. CASE \E a \in Answers : Reject(p, a)
    BY <2>1, <1>1
  <2>2. CASE \E x \in Request, l \in PC :
               /\ req' = [req EXCEPT ![p] = x]
               /\ Goto(p, l)
               /\ UNCHANGED <<rows, lock, users, clock, delivered, res>>
    BY <2>2, <1>2
  <2>3. r.tok \in Stored(rows) => /\ [r EXCEPT !.fam = rows[r.tok].family] \in Request
                                  /\ [r EXCEPT !.user = rows[r.tok].user] \in Request
    BY <1>0, RowTypes, RequestTypes
  <2> QED
    BY <1>6, <2>1, <2>2, <2>3 DEF FindToken, Answers, PC
<1>7. CASE FindUser(p)
  <2>1. CASE \E a \in Answers : Reject(p, a)
    BY <2>1, <1>1
  <2>2. CASE \E n \in FreshTokens :
               /\ req' = [req EXCEPT ![p] = [@ EXCEPT !.new = n]]
               /\ Goto(p, "rotateLock")
               /\ UNCHANGED <<rows, lock, users, clock, delivered, res>>
    BY <2>2, <1>0, <1>2, RequestTypes DEF PC
  <2> QED
    BY <1>7, <2>1, <2>2 DEF FindUser, Answers
<1>8. CASE RotateLock(p)
  <2>1. CASE Reject(p, "invalid")
    BY <2>1, <1>1 DEF Answers
  <2>2. CASE /\ lock' = [lock EXCEPT ![req[p].tok] = p]
             /\ Goto(p, "rotateCommit")
             /\ UNCHANGED <<rows, users, clock, delivered, req, res>>
    BY <2>2 DEF TypeOK, Goto, PC
  <2> QED
    BY <1>8, <2>1, <2>2 DEF RotateLock
<1>9. CASE RotateCommit(p)
  <2>1. /\ r.tok \in Stored(rows) /\ r.user \in User /\ ~IsRevoked(rows[r.tok])
        /\ r.new \in Token /\ rows[r.new] = NoRow
    BY <1>9, RowTypes DEF RotateCommit, ArgumentsInv, DrawnInv, LockInv, Rotatable
  <2>2. rows' \in Table
    BY <1>9, <1>0, <2>1, RotateFacts DEF RotateCommit
  <2>3. lock' \in [Token -> Proc \cup {NoProc}]
    BY <1>9 DEF RotateCommit, TypeOK
  <2> QED
    BY <1>9, <2>2, <2>3, <1>3 DEF RotateCommit, Answers
<1>10. CASE RevokeByTokenHash(p)
  BY <1>10, <1>0, <1>3, RevokeFacts DEF RevokeByTokenHash, Answers, TypeOK
<1>11. CASE RevokeSession(p)
  BY <1>11, <1>0, <1>1, <1>2, RequestTypes DEF RevokeSession, Answers, PC
<1>12. CASE RevokeFamilyBegin(p)
  <2>1. LiveRows(rows, r.fam) \in SUBSET Token
    BY FamilyStored DEF LiveRows, Stored
  <2> QED
    BY <1>12, <1>0, <2>1, <1>2, RequestTypes DEF RevokeFamilyBegin, PC
<1>13. CASE RevokeFamilyApply(p)
  BY <1>13, <1>0, <1>3, RevokeFacts DEF RevokeFamilyApply, Answers, TypeOK
<1>15. CASE ListSessions(p)
  BY <1>15, <1>1 DEF ListSessions, Answers
<1> QED
  BY <1>4, <1>5, <1>6, <1>7, <1>8, <1>9, <1>10, <1>11, <1>12, <1>13, <1>14, <1>15
     DEF Server

LEMMA OtherTyping ==
    ASSUME TypeOK,
           \/ \E p \in Proc : Fail(p)
           \/ \E u \in User, s \in AdminStates : SetUser(u, s)
           \/ Tick
    PROVE  TypeOK'
<1>1. ASSUME NEW p \in Proc, Fail(p) PROVE TypeOK'
  <2>1. lock' \in [Token -> Proc \cup {NoProc}]
    BY <1>1 DEF Fail, TypeOK
  <2> QED
    BY <1>1, <2>1 DEF Fail, Answer, TypeOK, PC, Answers
<1>2. ASSUME NEW u \in User, NEW s \in AdminStates, SetUser(u, s) PROVE TypeOK'
  BY <1>2, SlotAssumption DEF SetUser, TypeOK
<1>3. ASSUME Tick PROVE TypeOK'
  BY <1>3, SlotAssumption DEF Tick, TypeOK
<1> QED
  BY <1>1, <1>2, <1>3

-----------------------------------------------------------------------------
(***************************************************************************)
(* The inductive invariant.                                                *)
(***************************************************************************)

RequestInv == ArgumentsInv /\ AnswerInv /\ DrawnInv /\ LockInv

LEMMA IndInvParts == IndInv <=> TypeOK /\ RequestInv /\ TableInv
  BY DEF IndInv, RequestInv, TableInv

\* A step of one request that reads the table at most.
LEMMA LocalStep ==
    ASSUME IndInv, TypeOK', NEW p \in Proc, rows' = rows, lock' = lock,
           delivered' \subseteq Stored(rows),
           \A q \in Proc \ {p} : pc'[q] = pc[q] /\ req'[q] = req[q] /\ res'[q] = res[q],
           pc[p] # "rotateCommit", pc'[p] # "rotateCommit",
           pc'[p] \in {"findByEmail", "issueSession", "create"} => req'[p].user \in User,
           pc'[p] \in {"findUser", "rotateLock"} =>
              /\ req'[p].tok \in Stored(rows)
              /\ req'[p].user = rows[req'[p].tok].user,
           pc'[p] = "logout" => req'[p].op = "logout",
           /\ pc'[p] = "done" /\ res'[p] = "ok" /\ req'[p].op \in {"signin", "refresh"}
           => req'[p].new \in Stored(rows),
           pc'[p] \in {"create", "rotateLock"} =>
              req'[p].new \in Token /\ rows[req'[p].new] = NoRow,
           req'[p].new \in Token => \A q \in Proc \ {p} : req[q].new # req'[p].new
    PROVE  IndInv'
<1> USE IndInvParts
<1>1. TableInv'
  BY TableUnchanged
<1>2. ArgumentsInv'
  BY DEF RequestInv, ArgumentsInv, Stored
<1>3. AnswerInv'
  BY DEF RequestInv, AnswerInv, Stored
<1>4. DrawnInv'
  BY DEF RequestInv, DrawnInv
<1>5. LockInv'
  <2>1. \A q \in Proc : pc'[q] = "rotateCommit" =>
           /\ lock'[req'[q].tok] = q
           /\ Rotatable(rows'[req'[q].tok], req'[q].at)
    BY DEF RequestInv, LockInv, Rotatable, IsRevoked, IsExpired
  <2>2. \A t \in Token : lock'[t] # NoProc => /\ pc'[lock'[t]] = "rotateCommit"
                                              /\ req'[lock'[t]].tok = t
    BY DEF RequestInv, LockInv, TypeOK
  <2> QED
    BY <2>1, <2>2 DEF LockInv
<1> QED
  BY <1>1, <1>2, <1>3, <1>4, <1>5 DEF IndInv, TableInv

LEMMA RejectStep ==
    ASSUME IndInv, TypeOK', NEW p \in Proc, NEW a \in Answers, Reject(p, a),
           a = "ok" => req[p].op \notin {"signin", "refresh"},
           pc[p] # "rotateCommit"
    PROVE  IndInv'
<1>1. /\ pc'[p] = "done" /\ res'[p] = a /\ req' = req
      /\ rows' = rows /\ lock' = lock /\ delivered' = delivered
      /\ \A q \in Proc \ {p} : pc'[q] = pc[q] /\ res'[q] = res[q]
  BY DEF Reject, Answer, IndInv, TypeOK
<1>2. req[p].new \in Token => \A q \in Proc \ {p} : req[q].new # req[p].new
  BY DEF IndInv, DrawnInv
<1>3. delivered' \subseteq Stored(rows)
  BY <1>1 DEF IndInv, AnswerInv
<1> QED
  BY <1>1, <1>2, <1>3, LocalStep

LEMMA StartStep ==
    ASSUME IndInv, TypeOK', NEW p \in Proc, NEW r \in Request, NEW l \in PC,
           Start(p, r, l), r.new = NoToken,
           l \in {"findByEmail", "findToken", "logout", "listSessions"},
           l = "findByEmail" => r.user \in User,
           l = "logout" => r.op = "logout"
    PROVE  IndInv'
<1>1. /\ pc[p] = "idle" /\ pc'[p] = l /\ req'[p] = r /\ res' = res
      /\ rows' = rows /\ lock' = lock /\ delivered' = delivered
      /\ \A q \in Proc \ {p} : pc'[q] = pc[q] /\ req'[q] = req[q]
  BY DEF Start, IndInv, TypeOK
<1>2. delivered' \subseteq Stored(rows)
  BY <1>1 DEF IndInv, AnswerInv
<1>3. req'[p].new \notin Token
  BY <1>1, SlotAssumption
<1> QED
  BY <1>1, <1>2, <1>3, LocalStep

\* A revocation, by token or by family: it leaves locked rows alone, so no
\* rotation loses the row it holds.
LEMMA RevokeStep ==
    ASSUME IndInv, TypeOK', NEW p \in Proc, NEW ts, NEW a \in Answers,
           rows' = Revoke(rows, ts, req[p].at),
           \A t \in ts : t \in Token => lock[t] = NoProc,
           pc[p] \in {"logout", "familyApply"},
           Committed(p, a),
           a = "ok" => req[p].op \notin {"signin", "refresh"},
           UNCHANGED <<lock, users, clock, delivered, req>>
    PROVE  IndInv'
<1> USE IndInvParts, RowTypes
<1>1. /\ rows \in Table /\ req[p].at \in Nat /\ TableInv /\ TypeOK
  BY DEF TypeOK, Request
<1>2. /\ Stored(rows') = Stored(rows)
      /\ \A t \in Token : t \notin ts => rows'[t] = rows[t]
      /\ \A t \in Stored(rows) : rows'[t].user = rows[t].user
      /\ \A t \in Token : t \notin Stored(rows) => rows'[t] = rows[t]
  BY <1>1, RevokeFacts
<1>3. /\ pc'[p] = "done"
      /\ res'[p] = "ok" => req[p].op \notin {"signin", "refresh"}
      /\ \A q \in Proc \ {p} : pc'[q] = pc[q] /\ res'[q] = res[q]
  BY DEF Committed, Answer, TypeOK
<1>4. TableInv'
  BY <1>1, TableRevoke
<1>5. ArgumentsInv'
  BY <1>2, <1>3 DEF RequestInv, ArgumentsInv
<1>6. AnswerInv'
  BY <1>2, <1>3 DEF RequestInv, AnswerInv
<1>7. DrawnInv'
  BY <1>2, <1>3 DEF RequestInv, DrawnInv, Stored
<1>8. LockInv'
  <2>1. ASSUME NEW q \in Proc, pc'[q] = "rotateCommit"
        PROVE  /\ lock'[req'[q].tok] = q
               /\ Rotatable(rows'[req'[q].tok], req'[q].at)
    <3>1. pc[q] = "rotateCommit" /\ req'[q] = req[q]
      BY <2>1, <1>3
    <3>2. req[q].tok \in Token /\ lock[req[q].tok] = q
      BY <3>1 DEF RequestInv, ArgumentsInv, LockInv, Stored
    <3>3. rows'[req[q].tok] = rows[req[q].tok]
      BY <3>2, <1>2, SlotAssumption
    <3> QED
      BY <3>1, <3>2, <3>3 DEF RequestInv, LockInv
  <2>2. \A t \in Token : lock'[t] # NoProc => /\ pc'[lock'[t]] = "rotateCommit"
                                              /\ req'[lock'[t]].tok = t
    BY <1>3 DEF RequestInv, LockInv, TypeOK
  <2> QED
    BY <2>1, <2>2 DEF LockInv
<1> QED
  BY <1>4, <1>5, <1>6, <1>7, <1>8 DEF IndInv, TableInv

\* Insertion of the first row of a session.
LEMMA CreateStep ==
    ASSUME IndInv, TypeOK', NEW p \in Proc, Create(p)
    PROVE  IndInv'
<1> USE IndInvParts, RowTypes
<1> DEFINE n == req[p].new
<1>1. /\ n \in Token /\ rows[n] = NoRow
      /\ req[p].user \in User /\ req[p].at \in Nat
      /\ rows \in Table /\ TableInv /\ TypeOK
  BY DEF Create, RequestInv, ArgumentsInv, DrawnInv, TypeOK, Request
<1>2. rows' = CreateRefreshToken(rows, n, NewRefreshToken(n, req[p].user, req[p].at))
  BY DEF Create
<1>3. NewRefreshToken(n, req[p].user, req[p].at) \in Row
  BY <1>1, NewRowFacts
<1>4. /\ Stored(rows') = Stored(rows) \cup {n}
      /\ \A t \in Token : t # n => rows'[t] = rows[t]
      /\ n \notin Stored(rows)
  BY <1>1, <1>2, <1>3, InsertFacts
<1>5. /\ pc[p] = "create" /\ pc'[p] = "done"
      /\ \A q \in Proc \ {p} : pc'[q] = pc[q] /\ res'[q] = res[q]
      /\ req' = req /\ lock' = lock /\ delivered' = delivered
  BY DEF Create, Committed, Answer, TypeOK
<1>6. TableInv'
  BY <1>1, <1>2, TableCreate
<1>7. ArgumentsInv'
  BY <1>4, <1>5 DEF RequestInv, ArgumentsInv, Stored
<1>8. AnswerInv'
  BY <1>4, <1>5 DEF RequestInv, AnswerInv
<1>9. DrawnInv'
  BY <1>1, <1>4, <1>5 DEF RequestInv, DrawnInv
<1>10. LockInv'
  <2>1. \A q \in Proc : pc'[q] = "rotateCommit" => rows'[req[q].tok] = rows[req[q].tok]
    BY <1>4, <1>5 DEF RequestInv, ArgumentsInv
  <2> QED
    BY <2>1, <1>5 DEF RequestInv, LockInv, TypeOK
<1> QED
  BY <1>6, <1>7, <1>8, <1>9, <1>10 DEF IndInv, TableInv

\* The rotation commits and gives its lock back.
LEMMA RotateCommitStep ==
    ASSUME IndInv, TypeOK', NEW p \in Proc, RotateCommit(p)
    PROVE  IndInv'
<1> USE IndInvParts, RowTypes
<1> DEFINE n == req[p].new
           t == req[p].tok
<1>1. /\ n \in Token /\ rows[n] = NoRow
      /\ t \in Stored(rows) /\ req[p].user = rows[t].user /\ rows[t].user \in User
      /\ req[p].at \in Nat /\ Rotatable(rows[t], req[p].at) /\ lock[t] = p
      /\ rows \in Table /\ TableInv /\ TypeOK
  BY DEF RotateCommit, RequestInv, ArgumentsInv, DrawnInv, LockInv, TypeOK, Request
<1>2. rows' = Rotate(rows, t, n, rows[t].user, req[p].at)
  BY <1>1 DEF RotateCommit
<1>3. /\ Stored(rows') = Stored(rows) \cup {n}
      /\ n \notin Stored(rows)
      /\ rows'[t].user = rows[t].user
      /\ \A s \in Token : s # n /\ s # t => rows'[s] = rows[s]
  <2> HIDE IndInvParts, RowTypes
  <2>1. ASSUME NEW x \in Stored(rows), NEW now \in Nat, Rotatable(rows[x], now),
               NEW m \in Token, rows[m] = NoRow,
               rows' = Rotate(rows, x, m, rows[x].user, now)
        PROVE  /\ Stored(rows') = Stored(rows) \cup {m}
               /\ m \notin Stored(rows)
               /\ rows'[x].user = rows[x].user
               /\ \A s \in Token : s # m /\ s # x => rows'[s] = rows[s]
    BY <1>1, <2>1, RotatedRows
  <2> QED
    BY <1>1, <1>2, <2>1
<1>4. \A s \in Stored(rows) : rows'[s].user = rows[s].user
  BY <1>3 DEF Stored
<1>5. /\ pc[p] = "rotateCommit" /\ pc'[p] = "done"
      /\ \A q \in Proc \ {p} : pc'[q] = pc[q] /\ res'[q] = res[q]
      /\ req' = req /\ delivered' = delivered
      /\ lock'[t] = NoProc /\ \A s \in Token \ {t} : lock'[s] = lock[s]
  BY <1>1 DEF RotateCommit, Committed, Answer, TypeOK
<1>6. TableInv'
  BY <1>1, <1>2, TableRotate
<1>7. ArgumentsInv'
  <2>1. \A q \in Proc : pc'[q] \in {"findByEmail", "issueSession", "create", "findUser",
                                     "rotateLock", "rotateCommit"}
                         => pc'[q] = pc[q] /\ req'[q] = req[q]
    BY <1>5
  <2> QED
    BY <2>1, <1>3, <1>4 DEF RequestInv, ArgumentsInv
<1>8. AnswerInv'
  BY <1>3, <1>5 DEF RequestInv, AnswerInv
<1>9. DrawnInv'
  BY <1>1, <1>3, <1>5 DEF RequestInv, DrawnInv, Stored
<1>10. LockInv'
  <2>1. ASSUME NEW q \in Proc, pc'[q] = "rotateCommit"
        PROVE  /\ q # p /\ pc[q] = "rotateCommit"
               /\ lock[req[q].tok] = q /\ req[q].tok \in Stored(rows)
               /\ req[q].tok # t
    BY <2>1, <1>1, <1>5 DEF RequestInv, ArgumentsInv, LockInv
  <2>2. \A q \in Proc : pc'[q] = "rotateCommit" =>
           /\ lock'[req'[q].tok] = q
           /\ Rotatable(rows'[req'[q].tok], req'[q].at)
    BY <2>1, <1>3, <1>5 DEF RequestInv, LockInv
  <2>3. \A s \in Token : lock'[s] # NoProc => /\ pc'[lock'[s]] = "rotateCommit"
                                              /\ req'[lock'[s]].tok = s
    BY <1>1, <1>5 DEF RequestInv, LockInv, TypeOK
  <2> QED
    BY <2>2, <2>3 DEF LockInv
<1> QED
  BY <1>6, <1>7, <1>8, <1>9, <1>10 DEF IndInv, TableInv

\* A transaction takes the row it is about to rotate.
LEMMA RotateLockStep ==
    ASSUME IndInv, TypeOK', NEW p \in Proc, RotateLock(p)
    PROVE  IndInv'
<1> USE IndInvParts, RowTypes
<1> DEFINE t == req[p].tok
<1>1. CASE Reject(p, "invalid")
  BY <1>1, RejectStep DEF RotateLock, Answers
<1>2. CASE /\ Rotatable(rows[t], req[p].at)
           /\ lock' = [lock EXCEPT ![t] = p]
           /\ Goto(p, "rotateCommit")
           /\ UNCHANGED <<rows, users, clock, delivered, req, res>>
  <2>1. t \in Token /\ lock[t] = NoProc /\ pc[p] = "rotateLock"
    BY DEF RotateLock, Unlocked, RequestInv, ArgumentsInv, Stored
  <2>2. /\ pc'[p] = "rotateCommit"
        /\ \A q \in Proc \ {p} : pc'[q] = pc[q]
        /\ lock'[t] = p /\ \A s \in Token \ {t} : lock'[s] = lock[s]
    BY <1>2, <2>1 DEF Goto, TypeOK
  <2>3. TableInv'
    BY <1>2, TableUnchanged
  <2>4. ArgumentsInv'
    BY <1>2, <2>1, <2>2 DEF RequestInv, ArgumentsInv, Stored
  <2>5. AnswerInv'
    BY <1>2, <2>2 DEF RequestInv, AnswerInv, Stored
  <2>6. DrawnInv'
    BY <1>2, <2>1, <2>2 DEF RequestInv, DrawnInv
  <2>7. LockInv'
    <3>1. \A q \in Proc \ {p} : pc[q] = "rotateCommit" =>
             req[q].tok \in Token /\ req[q].tok # t
      BY <2>1, SlotAssumption DEF RequestInv, ArgumentsInv, LockInv, Stored
    <3>2. \A q \in Proc : pc'[q] = "rotateCommit" =>
             /\ lock'[req'[q].tok] = q
             /\ Rotatable(rows'[req'[q].tok], req'[q].at)
      BY <3>1, <1>2, <2>2 DEF RequestInv, LockInv, Rotatable, IsRevoked, IsExpired
    <3>3. \A s \in Token : lock'[s] # NoProc => /\ pc'[lock'[s]] = "rotateCommit"
                                                /\ req'[lock'[s]].tok = s
      BY <1>2, <2>1, <2>2 DEF RequestInv, LockInv, TypeOK
    <3> QED
      BY <3>2, <3>3 DEF LockInv
  <2> QED
    BY <2>3, <2>4, <2>5, <2>6, <2>7 DEF IndInv, TableInv
<1> QED
  BY <1>1, <1>2 DEF RotateLock

\* A failing request gives its lock back.
LEMMA FailStep ==
    ASSUME IndInv, TypeOK', NEW p \in Proc, Fail(p)
    PROVE  IndInv'
<1> USE IndInvParts
<1>1. /\ pc'[p] = "done" /\ res'[p] = "error"
      /\ \A q \in Proc \ {p} : pc'[q] = pc[q] /\ res'[q] = res[q]
      /\ rows' = rows /\ req' = req /\ delivered' = delivered
      /\ lock' = [t \in Token |-> IF lock[t] = p THEN NoProc ELSE lock[t]]
  BY DEF Fail, Answer, TypeOK
<1>2. TableInv'
  BY <1>1, TableUnchanged
<1>3. ArgumentsInv'
  BY <1>1 DEF RequestInv, ArgumentsInv, Stored
<1>4. AnswerInv'
  BY <1>1 DEF RequestInv, AnswerInv, Stored
<1>5. DrawnInv'
  BY <1>1 DEF RequestInv, DrawnInv
<1>6. LockInv'
  <2>1. \A q \in Proc : pc'[q] = "rotateCommit" =>
           q # p /\ pc[q] = "rotateCommit" /\ req[q].tok \in Token
    BY <1>1 DEF RequestInv, ArgumentsInv, Stored
  <2>2. \A q \in Proc : pc'[q] = "rotateCommit" =>
           /\ lock'[req'[q].tok] = q
           /\ Rotatable(rows'[req'[q].tok], req'[q].at)
    BY <2>1, <1>1 DEF RequestInv, LockInv, Rotatable, IsRevoked, IsExpired
  <2>3. \A s \in Token : lock'[s] # NoProc => /\ pc'[lock'[s]] = "rotateCommit"
                                              /\ req'[lock'[s]].tok = s
    BY <1>1 DEF RequestInv, LockInv, TypeOK
  <2> QED
    BY <2>2, <2>3 DEF LockInv
<1> QED
  BY <1>2, <1>3, <1>4, <1>5, <1>6 DEF IndInv, TableInv

LEMMA ClientStep ==
    ASSUME IndInv, TypeOK', NEW p \in Proc, Client(p)
    PROVE  IndInv'
<1>0. /\ clock \in Nat /\ delivered \subseteq Token /\ delivered \subseteq Stored(rows)
      /\ req[p] \in Request /\ TypeOK
  BY SlotAssumption DEF IndInv, TypeOK, AnswerInv
<1>1. ASSUME NEW u \in User, StartSignIn(p, u) PROVE IndInv'
  <2> DEFINE x == [NoRequest EXCEPT !.op = "signin", !.user = u]
  <2>1. x \in Request /\ x.new = NoToken /\ x.user = u
    BY RequestTypes DEF NoRequest
  <2> QED
    BY <1>1, <2>1, StartStep DEF StartSignIn, PC
<1>2. ASSUME NEW t \in delivered \cup {NoToken}, StartRefresh(p, t) PROVE IndInv'
  <2> DEFINE x == [NoRequest EXCEPT !.op = "refresh", !.tok = t, !.at = clock]
  <2>1. x \in Request /\ x.new = NoToken
    BY <1>0, RequestTypes DEF NoRequest
  <2> QED
    BY <1>2, <2>1, StartStep DEF StartRefresh, PC
<1>3. ASSUME NEW t \in delivered \cup {NoToken}, StartLogout(p, t) PROVE IndInv'
  <2> DEFINE x == [NoRequest EXCEPT !.op = "logout", !.tok = t, !.at = clock]
  <2>1. x \in Request /\ x.new = NoToken /\ x.op = "logout"
    BY <1>0, RequestTypes DEF NoRequest
  <2> QED
    BY <1>3, <2>1, StartStep DEF StartLogout, PC
<1>4. ASSUME NEW u \in User, NEW f \in SessionIds, StartRevokeSession(p, u, f)
      PROVE  IndInv'
  <2> DEFINE x == [NoRequest EXCEPT !.op = "revoke", !.user = u, !.fam = f, !.at = clock]
  <2>1. f \in Token \cup {NoToken}
    BY <1>0, RowTypes DEF SessionIds
  <2>2. x \in Request /\ x.new = NoToken
    BY <1>0, <2>1, RequestTypes DEF NoRequest
  <2> QED
    BY <1>4, <2>2, StartStep DEF StartRevokeSession, PC
<1>8. ASSUME NEW u \in User, StartListSessions(p, u) PROVE IndInv'
  <2> DEFINE x == [NoRequest EXCEPT !.op = "list", !.user = u, !.at = clock]
  <2>1. x \in Request /\ x.new = NoToken
    BY <1>0, RequestTypes DEF NoRequest
  <2> QED
    BY <1>8, <2>1, StartStep DEF StartListSessions, PC
<1>5. ASSUME Reset(p), delivered' \subseteq Stored(rows) PROVE IndInv'
  <2>1. /\ pc[p] = "done" /\ pc'[p] = "idle" /\ req'[p] = NoRequest
        /\ rows' = rows /\ lock' = lock
        /\ \A q \in Proc \ {p} : pc'[q] = pc[q] /\ req'[q] = req[q] /\ res'[q] = res[q]
    BY <1>0, <1>5 DEF Reset, TypeOK
  <2>2. req'[p].new \notin Token
    BY <2>1, SlotAssumption DEF NoRequest
  <2> QED
    BY <1>5, <2>1, <2>2, LocalStep
<1>6. CASE Deliver(p)
  <2>1. delivered' \subseteq Stored(rows)
    BY <1>0, <1>6 DEF Deliver, Reset, IndInv, AnswerInv
  <2> QED
    BY <1>5, <1>6, <2>1 DEF Deliver
<1>7. CASE Lose(p)
  BY <1>0, <1>5, <1>7 DEF Lose
<1> QED
  BY <1>1, <1>2, <1>3, <1>4, <1>6, <1>7, <1>8 DEF Client

LEMMA ServerStep ==
    ASSUME IndInv, TypeOK', NEW p \in Proc, Server(p)
    PROVE  IndInv'
<1> DEFINE r == req[p]
<1>0. /\ clock \in Nat /\ r \in Request /\ r.at \in Nat /\ TypeOK
      /\ delivered \subseteq Stored(rows)
      /\ r.new \in Token => \A q \in Proc \ {p} : req[q].new # r.new
  BY SlotAssumption DEF IndInv, TypeOK, AnswerInv, DrawnInv, Request
\* A step that only moves the request on, having changed its variables to x.
<1>1. ASSUME NEW x, NEW l,
             pc[p] # "rotateCommit", l \notin {"rotateCommit", "findByEmail", "logout", "done"},
             req' = [req EXCEPT ![p] = x], Goto(p, l),
             UNCHANGED <<rows, lock, users, clock, delivered, res>>,
             l \in {"issueSession", "create"} => x.user \in User,
             l \in {"findUser", "rotateLock"} =>
                /\ x.tok \in Stored(rows)
                /\ x.user = rows[x.tok].user,
             l \in {"create", "rotateLock"} => x.new \in Token /\ rows[x.new] = NoRow,
             x.new \in Token => \A q \in Proc \ {p} : req[q].new # x.new
      PROVE  IndInv'
  <2>1. /\ pc'[p] = l /\ req'[p] = x
        /\ \A q \in Proc \ {p} : pc'[q] = pc[q] /\ req'[q] = req[q] /\ res'[q] = res[q]
        /\ delivered' \subseteq Stored(rows)
    BY <1>0, <1>1 DEF Goto, TypeOK
  <2> QED
    BY <1>1, <2>1, LocalStep
<1>2. ASSUME NEW n \in FreshTokens
      PROVE  n \in Token /\ rows[n] = NoRow /\ \A q \in Proc : req[q].new # n
  BY DEF FreshTokens
<1>3. CASE SignInCheck(p)
  <2>1. pc[p] = "findByEmail" /\ r.user \in User
    BY <1>3 DEF SignInCheck, IndInv, ArgumentsInv
  <2>2. CASE \E a \in Answers \ {"ok"} : Reject(p, a)
    BY <2>1, <2>2, RejectStep
  <2>3. CASE /\ Goto(p, "issueSession")
             /\ UNCHANGED <<rows, lock, users, clock, delivered, req, res>>
    <3>1. req' = [req EXCEPT ![p] = r]
      BY <1>0, <2>3 DEF TypeOK
    <3> QED
      BY <1>0, <1>1, <2>1, <2>3, <3>1
  <2> QED
    BY <1>3, <2>2, <2>3 DEF SignInCheck, Answers
<1>10. CASE IssueSession(p)
  <2>1. pc[p] = "issueSession" /\ r.user \in User
    BY <1>10 DEF IssueSession, IndInv, ArgumentsInv
  <2>2. CASE \E a \in Answers \ {"ok"} : Reject(p, a)
    BY <2>1, <2>2, RejectStep
  <2>3. ASSUME NEW n \in FreshTokens,
               req' = [req EXCEPT ![p] = [@ EXCEPT !.at = clock, !.new = n]],
               Goto(p, "create"),
               UNCHANGED <<rows, lock, users, clock, delivered, res>>
        PROVE  IndInv'
    <3> DEFINE x == [r EXCEPT !.at = clock, !.new = n]
    <3>1. x.new = n /\ x.user = r.user
      BY <1>0 DEF Request
    <3>2. req' = [req EXCEPT ![p] = x]
      BY <2>3
    <3> HIDE DEF x
    <3> QED
      BY <1>1, <1>2, <2>1, <2>3, <3>1, <3>2
  <2> QED
    BY <1>10, <2>2, <2>3 DEF IssueSession, Answers
<1>4. CASE FindToken(p)
  <2>1. pc[p] = "findToken"
    BY <1>4 DEF FindToken
  <2>2. CASE \E a \in Answers \ {"ok"} : Reject(p, a)
    BY <2>1, <2>2, RejectStep
  <2>3. CASE /\ r.tok \in Stored(rows)
             /\ req' = [req EXCEPT ![p] = [@ EXCEPT !.fam = rows[r.tok].family]]
             /\ Goto(p, "familyBegin")
             /\ UNCHANGED <<rows, lock, users, clock, delivered, res>>
    <3> DEFINE x == [r EXCEPT !.fam = rows[r.tok].family]
    <3>1. x.new = r.new
      BY <1>0 DEF Request
    <3> QED
      BY <1>0, <1>1, <2>1, <2>3, <3>1
  <2>4. CASE /\ r.tok \in Stored(rows)
             /\ req' = [req EXCEPT ![p] = [@ EXCEPT !.user = rows[r.tok].user]]
             /\ Goto(p, "findUser")
             /\ UNCHANGED <<rows, lock, users, clock, delivered, res>>
    <3> DEFINE x == [r EXCEPT !.user = rows[r.tok].user]
    <3>1. x.new = r.new /\ x.tok = r.tok /\ x.user = rows[r.tok].user
      BY <1>0 DEF Request
    <3> QED
      BY <1>0, <1>1, <2>1, <2>4, <3>1
  <2> QED
    BY <1>4, <2>2, <2>3, <2>4 DEF FindToken, Answers
<1>5. CASE FindUser(p)
  <2>1. pc[p] = "findUser" /\ r.tok \in Stored(rows) /\ r.user = rows[r.tok].user
    BY <1>5 DEF FindUser, IndInv, ArgumentsInv
  <2>2. CASE \E a \in Answers \ {"ok"} : Reject(p, a)
    BY <2>1, <2>2, RejectStep
  <2>3. ASSUME NEW n \in FreshTokens,
               req' = [req EXCEPT ![p] = [@ EXCEPT !.new = n]],
               Goto(p, "rotateLock"),
               UNCHANGED <<rows, lock, users, clock, delivered, res>>
        PROVE  IndInv'
    <3> DEFINE x == [r EXCEPT !.new = n]
    <3>1. x.new = n /\ x.user = r.user /\ x.tok = r.tok
      BY <1>0 DEF Request
    <3>2. req' = [req EXCEPT ![p] = x]
      BY <2>3
    <3> HIDE DEF x
    <3> QED
      BY <1>1, <1>2, <2>1, <2>3, <3>1, <3>2
  <2> QED
    BY <1>5, <2>2, <2>3 DEF FindUser, Answers
<1>6. CASE RevokeByTokenHash(p)
  <2>1. pc[p] = "logout" /\ r.op = "logout"
    BY <1>6 DEF RevokeByTokenHash, IndInv, AnswerInv
  <2> QED
    BY <1>6, <2>1, RevokeStep DEF RevokeByTokenHash, Unlocked, Answers
<1>7. CASE RevokeSession(p)
  <2>1. pc[p] = "listSessions"
    BY <1>7 DEF RevokeSession
  <2>2. CASE Reject(p, "notfound")
    BY <2>1, <2>2, RejectStep DEF Answers
  <2>3. CASE /\ req' = [req EXCEPT ![p] = [@ EXCEPT !.at = clock]]
             /\ Goto(p, "familyBegin")
             /\ UNCHANGED <<rows, lock, users, clock, delivered, res>>
    <3> DEFINE x == [r EXCEPT !.at = clock]
    <3>1. x.new = r.new
      BY <1>0 DEF Request
    <3> QED
      BY <1>0, <1>1, <2>1, <2>3, <3>1
  <2> QED
    BY <1>7, <2>2, <2>3 DEF RevokeSession
<1>8. CASE RevokeFamilyBegin(p)
  <2> DEFINE x == [r EXCEPT !.targets = LiveRows(rows, r.fam)]
  <2>1. x.new = r.new
    BY <1>0 DEF Request
  <2> QED
    BY <1>0, <1>1, <1>8, <2>1 DEF RevokeFamilyBegin
<1>9. CASE RevokeFamilyApply(p)
  <2>1. \A t \in r.targets : t \in Token => lock[t] = NoProc
    BY <1>9 DEF RevokeFamilyApply, Unlocked
  <2>2. CASE r.op = "revoke"
    BY <1>9, <2>1, <2>2, RevokeStep DEF RevokeFamilyApply, Answers
  <2>3. CASE r.op # "revoke"
    BY <1>9, <2>1, <2>3, RevokeStep DEF RevokeFamilyApply, Answers
  <2> QED
    BY <2>2, <2>3
<1>11. CASE ListSessions(p)
  <2>1. Reject(p, "ok") /\ r.op = "list" /\ pc[p] = "listSessions"
    BY <1>11 DEF ListSessions
  <2> QED
    BY <2>1, RejectStep DEF Answers
<1> QED
  BY <1>3, <1>4, <1>5, <1>6, <1>7, <1>8, <1>9, <1>10, <1>11, CreateStep,
     RotateLockStep, RotateCommitStep DEF Server

LEMMA InitIndInv == Init => IndInv
<1> SUFFICES ASSUME Init PROVE IndInv
  OBVIOUS
<1>1. /\ Stored(rows) = {} /\ delivered = {}
      /\ \A t \in Token : lock[t] = NoProc
      /\ \A p \in Proc : pc[p] = "idle" /\ req[p].new \notin Token
  BY SlotAssumption DEF Init, Stored, EmptyTable, NoRequest
<1>2. TypeOK
  BY InitTyping
<1>3. ArgumentsInv /\ AnswerInv /\ DrawnInv /\ LockInv
  BY <1>1 DEF ArgumentsInv, AnswerInv, DrawnInv, LockInv
<1>4. FamilyInv /\ OneLivePerFamily /\ RotationChain
  BY <1>1, FamilyStored DEF FamilyInv, OneLivePerFamily, RotationChain, LiveRows
<1> QED
  BY <1>2, <1>3, <1>4 DEF IndInv

LEMMA NextTyping ==
    ASSUME IndInv, [Next]_vars
    PROVE  TypeOK'
<1>1. TypeOK /\ ArgumentsInv /\ AnswerInv /\ DrawnInv /\ LockInv
  BY DEF IndInv
<1>2. CASE UNCHANGED vars
  BY <1>1, <1>2 DEF vars, TypeOK
<1>3. CASE Next
  BY <1>1, <1>3, ClientTyping, ServerTyping, OtherTyping DEF Next
<1> QED
  BY <1>2, <1>3

LEMMA NextIndInv ==
    ASSUME IndInv, [Next]_vars
    PROVE  IndInv'
<1>1. TypeOK'
  BY NextTyping
<1>2. ASSUME UNCHANGED <<rows, lock, delivered, pc, req, res>> PROVE IndInv'
  BY <1>1, <1>2 DEF IndInv, ArgumentsInv, AnswerInv, DrawnInv, LockInv, FamilyInv,
     OneLivePerFamily, RotationChain, Stored, LiveRows, FamilyRows, IsRevoked,
     Rotatable, IsExpired
<1>3. CASE UNCHANGED vars
  BY <1>2, <1>3 DEF vars
<1>4. CASE \E p \in Proc : Server(p) \/ Client(p) \/ Fail(p)
  BY <1>1, <1>4, ServerStep, ClientStep, FailStep
<1>5. CASE \E u \in User, s \in AdminStates : SetUser(u, s)
  BY <1>2, <1>5 DEF SetUser
<1>6. CASE Tick
  BY <1>2, <1>6 DEF Tick
<1> QED
  BY <1>3, <1>4, <1>5, <1>6 DEF Next

\* The inductive invariant holds in every reachable state of the service, for
\* any number of concurrent requests.
THEOREM IndInvHolds == Spec => []IndInv
<1>1. Init => IndInv
  BY InitIndInv
<1>2. IndInv /\ [Next]_vars => IndInv'
  BY NextIndInv
<1> QED
  BY <1>1, <1>2, PTL DEF Spec

-----------------------------------------------------------------------------
(***************************************************************************)
(* What follows from it.                                                   *)
(***************************************************************************)

\* Type correctness of the table, the locks and the requests' local variables.
THEOREM Typing == Spec => []TypeOK
<1>1. IndInv => TypeOK
  BY DEF IndInv
<1> QED
  BY <1>1, IndInvHolds, PTL

\* Concurrent refreshes, logouts and revocations never leave a session with two
\* tokens that can both be exchanged.
THEOREM NoFork == Spec => []OneLivePerFamily
<1>1. IndInv => OneLivePerFamily
  BY DEF IndInv
<1> QED
  BY <1>1, IndInvHolds, PTL

\* Every token that is not the first of its session was minted from an
\* unexpired token of the same session and account, revoked at that time.
THEOREM ChainHolds == Spec => []RotationChain
<1>1. IndInv => RotationChain
  BY DEF IndInv
<1> QED
  BY <1>1, IndInvHolds, PTL

\* Setting a row's revoked_at and back gives the row.
LEMMA RevokedColumn ==
    ASSUME NEW a \in Row, NEW b \in Row,
           a.family = b.family, a.user = b.user,
           a.created = b.created, a.expires = b.expires
    PROVE  [a EXCEPT !.revoked = b.revoked] = b
  BY DEF Row

\* The only change a stored row ever sees is its first revocation.
LEMMA StepOnlyRevokes ==
    ASSUME IndInv, [Next]_vars
    PROVE  OnlyRevoked
<1> USE RowTypes
<1>0. TypeOK /\ rows \in Table
  BY DEF IndInv, TypeOK
<1>1. ASSUME \A t \in Stored(rows) : t \in Stored(rows') /\ rows'[t] = rows[t]
      PROVE  OnlyRevoked
  BY <1>0, <1>1, RevokedColumn DEF OnlyRevoked
<1>2. CASE rows' = rows
  BY <1>1, <1>2
<1>3. ASSUME NEW ts, NEW now \in Nat, rows' = Revoke(rows, ts, now)
      PROVE  OnlyRevoked
  <2>1. /\ rows' \in Table
        /\ Stored(rows') = Stored(rows)
        /\ \A t \in Stored(rows) :
              /\ IsRevoked(rows[t]) => rows'[t] = rows[t]
              /\ rows'[t].family = rows[t].family
              /\ rows'[t].user = rows[t].user
              /\ rows'[t].created = rows[t].created
              /\ rows'[t].expires = rows[t].expires
    BY <1>0, <1>3, RevokeFacts
  <2>2. \A t \in Stored(rows) : rows'[t] \in Row /\ rows[t] \in Row
    BY <1>0, <2>1 DEF Stored, Table
  <2> QED
    BY <2>1, <2>2, RevokedColumn DEF OnlyRevoked
<1>4. ASSUME NEW p \in Proc, Create(p) PROVE OnlyRevoked
  <2>1. /\ req[p].new \in Token /\ rows[req[p].new] = NoRow
        /\ req[p].user \in User /\ req[p].at \in Nat
    BY <1>4 DEF Create, IndInv, ArgumentsInv, DrawnInv, TypeOK, Request
  <2>2. rows' = CreateRefreshToken(rows, req[p].new,
                    NewRefreshToken(req[p].new, req[p].user, req[p].at))
    BY <1>4 DEF Create
  <2>3. NewRefreshToken(req[p].new, req[p].user, req[p].at) \in Row
    BY <2>1, NewRowFacts
  <2>4. \A t \in Stored(rows) : t # req[p].new /\ t \in Stored(rows') /\ rows'[t] = rows[t]
    BY <1>0, <2>1, <2>2, <2>3, InsertFacts
  <2> QED
    BY <2>4, <1>1
<1>5. ASSUME NEW p \in Proc, RotateCommit(p) PROVE OnlyRevoked
  <2>1. /\ req[p].new \in Token /\ rows[req[p].new] = NoRow
        /\ req[p].tok \in Stored(rows) /\ req[p].user = rows[req[p].tok].user
        /\ req[p].at \in Nat /\ Rotatable(rows[req[p].tok], req[p].at)
    BY <1>5 DEF RotateCommit, IndInv, ArgumentsInv, DrawnInv, LockInv, TypeOK, Request
  <2>2. rows' = Rotate(rows, req[p].tok, req[p].new, rows[req[p].tok].user, req[p].at)
    BY <1>5, <2>1 DEF RotateCommit
  <2>3. ASSUME NEW t \in Stored(rows), NEW now \in Nat, Rotatable(rows[t], now),
               NEW n \in Token, rows[n] = NoRow,
               rows' = Rotate(rows, t, n, rows[t].user, now)
        PROVE  OnlyRevoked
    <3>1. /\ Stored(rows') = Stored(rows) \cup {n}
          /\ n \notin Stored(rows)
          /\ \A s \in Stored(rows) : s # t => rows'[s] = rows[s]
          /\ rows'[t].family = rows[t].family
          /\ rows'[t].user = rows[t].user
          /\ rows'[t].created = rows[t].created
          /\ rows'[t].expires = rows[t].expires
          /\ rows'[t].revoked = now
      BY <1>0, <2>3, RotatedRows
    <3>2. rows[t] \in Row /\ ~IsRevoked(rows[t])
      BY <1>0, <2>3 DEF Rotatable
    <3>3. rows'[t] \in Row
      <4>1. rows' \in Table
        BY NextTyping DEF TypeOK
      <4> QED
        BY <4>1, <3>1 DEF Table, Stored
    <3>4. [rows'[t] EXCEPT !.revoked = rows[t].revoked] = rows[t]
      BY <3>1, <3>2, <3>3, RevokedColumn
    <3>5. \A s \in Stored(rows) : s # t =>
             [rows'[s] EXCEPT !.revoked = rows[s].revoked] = rows[s]
      BY <1>0, <3>1, RevokedColumn
    <3> QED
      BY <3>1, <3>2, <3>4, <3>5 DEF OnlyRevoked
  <2> QED
    BY <2>1, <2>2, <2>3
<1>6. \A p \in Proc : req[p].at \in Nat
  BY <1>0 DEF TypeOK, Request
<1>7. ASSUME NEW p \in Proc, Server(p) PROVE OnlyRevoked
  <2>1. CASE RevokeByTokenHash(p)
    BY <2>1, <1>3, <1>6 DEF RevokeByTokenHash
  <2>2. CASE RevokeFamilyApply(p)
    BY <2>2, <1>3, <1>6 DEF RevokeFamilyApply
  <2>3. CASE SignInCheck(p) \/ IssueSession(p) \/ FindToken(p) \/ FindUser(p)
             \/ RotateLock(p) \/ ListSessions(p) \/ RevokeSession(p)
             \/ RevokeFamilyBegin(p)
    BY <2>3, <1>2 DEF SignInCheck, IssueSession, FindToken, FindUser, RotateLock,
       ListSessions, RevokeSession, RevokeFamilyBegin, Reject
  <2> QED
    BY <1>4, <1>5, <1>7, <2>1, <2>2, <2>3 DEF Server
<1>8. ASSUME NEW p \in Proc, Client(p) PROVE OnlyRevoked
  <2>1. rows' = rows
    BY <1>8 DEF Client, StartSignIn, StartRefresh, StartLogout, StartListSessions,
       StartRevokeSession, Start, Deliver, Lose, Reset
  <2> QED
    BY <2>1, <1>2
<1>9. CASE UNCHANGED vars
  BY <1>9, <1>2 DEF vars
<1>10. CASE Next
  BY <1>10, <1>2, <1>7, <1>8 DEF Next, Fail, SetUser, Tick
<1> QED
  BY <1>9, <1>10

\* Rows are never removed or rewritten: the first revocation of a token is the
\* last change its row sees.
THEOREM RevocationIsFinal == Spec => RowsOnlyGetRevoked
<1>1. IndInv /\ [Next]_vars => [OnlyRevoked]_vars
  BY StepOnlyRevokes
<1> QED
  BY <1>1, IndInvHolds, PTL DEF Spec, RowsOnlyGetRevoked
=============================================================================
