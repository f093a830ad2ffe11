---------------------------- MODULE AuthService ----------------------------
(***************************************************************************)
(* The authentication service: concurrent sign-in, refresh, logout and     *)
(* session-revocation requests over the refresh_tokens table.              *)
(*                                                                         *)
(* A request is a process; one of its steps is one SQL statement (or one   *)
(* transaction where nothing can be seen in between) with the Go code up   *)
(* to the next one.  PostgreSQL runs at its default READ COMMITTED level   *)
(* (BeginTx is called with nil options): a statement sees the rows         *)
(* committed when it begins, and an UPDATE that meets a locked row waits   *)
(* and then evaluates its WHERE clause again on the new version of that    *)
(* row, never on rows inserted meanwhile.                                  *)
(***************************************************************************)
EXTENDS RefreshTokens

CONSTANTS Proc,         \* request slots of the server
          MaxTime,      \* bound on the clock, in ticks
          AdminStates,  \* what the accounts' administration may do (bounds a run)
          NoToken,      \* a value no session was ever given
          NoUser, NoProc

ASSUME SlotAssumption == /\ MaxTime \in Nat
                         /\ AdminStates \subseteq {"active", "inactive", "deleted"}
                         /\ NoToken \notin Token
                         /\ NoUser \notin User
                         /\ NoProc \notin Proc

VARIABLES
    rows,       \* the committed table
    lock,       \* lock[t]: the transaction holding t's row FOR UPDATE
    users,      \* users[u]: is_active / deleted_at of the account
    clock,      \* clock.Now()
    delivered,  \* tokens that reached a client
    pc,         \* pc[p]: the next statement of p's request
    req,        \* req[p]: the arguments and local variables of p's request
    res         \* res[p]: the answer

vars == <<rows, lock, users, clock, delivered, pc, req, res>>

Op == {"none", "signin", "refresh", "logout", "list", "revoke"}

Request == [op      : Op,
            tok     : Token \cup {NoToken},   \* the presented token
            user    : User \cup {NoUser},
            fam     : Token \cup {NoToken},   \* the family to revoke
            at      : Nat,                    \* the captured "now"
            new     : Token \cup {NoToken},   \* the token to be stored
            targets : SUBSET Token]           \* rows a revocation has in view

NoRequest == [op |-> "none", tok |-> NoToken, user |-> NoUser, fam |-> NoToken,
              at |-> 0, new |-> NoToken, targets |-> {}]

PC == {"idle", "findByEmail", "issueSession", "create", "findToken", "findUser",
       "rotateLock", "rotateCommit", "logout", "listSessions", "familyBegin",
       "familyApply", "done"}

Answers == {"none", "ok", "credentials", "inactive", "invalid", "notfound",
            "error"}

TypeOK == /\ rows \in Table
          /\ lock \in [Token -> Proc \cup {NoProc}]
          /\ users \in [User -> {"active", "inactive", "deleted"}]
          /\ clock \in 0..MaxTime
          /\ delivered \in SUBSET Token
          /\ pc \in [Proc -> PC]
          /\ req \in [Proc -> Request]
          /\ res \in [Proc -> Answers]

Init == /\ rows = EmptyTable
        /\ lock = [t \in Token |-> NoProc]
        /\ users = [u \in User |-> "active"]
        /\ clock = 0
        /\ delivered = {}
        /\ pc = [p \in Proc |-> "idle"]
        /\ req = [p \in Proc |-> NoRequest]
        /\ res = [p \in Proc |-> "none"]

-----------------------------------------------------------------------------
(***************************************************************************)
(* Helpers.                                                                *)
(***************************************************************************)

Start(p, request, label) ==
    /\ pc[p] = "idle"
    /\ req' = [req EXCEPT ![p] = request]
    /\ pc' = [pc EXCEPT ![p] = label]
    /\ UNCHANGED <<rows, lock, users, clock, delivered, res>>

Goto(p, label) == pc' = [pc EXCEPT ![p] = label]

Answer(p, r) == /\ pc' = [pc EXCEPT ![p] = "done"]
                /\ res' = [res EXCEPT ![p] = r]

\* An answer that leaves everything as it is.
Reject(p, r) == /\ Answer(p, r)
                /\ UNCHANGED <<rows, lock, users, clock, delivered, req>>

\* A statement that commits may still be reported as failed: the connection
\* can break after the server has committed and before the client hears of it.
Committed(p, r) == \/ Answer(p, r)
                   \/ Answer(p, "error")

\* Values no request has drawn yet: random values never repeat.
FreshTokens == {t \in Token : rows[t] = NoRow /\ \A p \in Proc : req[p].new # t}

Unlocked(ts) == \A t \in ts : lock[t] = NoProc

-----------------------------------------------------------------------------
(***************************************************************************)
(* SignIn: the account is looked up, its password and is_active flag are   *)
(* checked; only then, after the slow comparison of the password, is the   *)
(* clock read and the first row of a family inserted.                      *)
(***************************************************************************)

StartSignIn(p, u) ==
    Start(p, [NoRequest EXCEPT !.op = "signin", !.user = u], "findByEmail")

SignInCheck(p) ==
    LET u == req[p].user IN
    /\ pc[p] = "findByEmail"
    /\ \/ Reject(p, "credentials")          \* no such account, or wrong password
       \/ /\ users[u] = "inactive"
          /\ Reject(p, "inactive")
       \/ /\ users[u] = "active"
          /\ Goto(p, "issueSession")
          /\ UNCHANGED <<rows, lock, users, clock, delivered, req, res>>

IssueSession(p) ==
    /\ pc[p] = "issueSession"
    /\ \/ /\ FreshTokens = {}               \* generateOpaqueToken fails
          /\ Reject(p, "error")
       \/ \E n \in FreshTokens :
             /\ req' = [req EXCEPT ![p] = [@ EXCEPT !.at = clock, !.new = n]]
             /\ Goto(p, "create")
             /\ UNCHANGED <<rows, lock, users, clock, delivered, res>>

Create(p) ==
    LET r == req[p] IN
    /\ pc[p] = "create"
    /\ rows' = CreateRefreshToken(rows, r.new, NewRefreshToken(r.new, r.user, r.at))
    /\ Committed(p, "ok")
    /\ UNCHANGED <<lock, users, clock, delivered, req>>

-----------------------------------------------------------------------------
(***************************************************************************)
(* Refresh: "now" is captured first; the token is looked up without a      *)
(* lock; a revoked token revokes its family; otherwise the account is      *)
(* checked and the row is rotated in a transaction that locks the row and  *)
(* checks it again.                                                        *)
(***************************************************************************)

\* A "now" that is never set.
StartRefreshAtZero(p, t) ==
    Start(p, [NoRequest EXCEPT !.op = "refresh", !.tok = t], "findToken")

StartRefresh(p, t) ==
    Start(p, [NoRequest EXCEPT !.op = "refresh", !.tok = t, !.at = clock],
          "findToken")

\* Expiry taken for a replay: the two tests folded into one.
FindTokenUnusable(p) ==
    LET t == req[p].tok IN
    /\ pc[p] = "findToken"
    /\ \/ /\ t \notin Stored(rows)
          /\ Reject(p, "invalid")
       \/ /\ t \in Stored(rows)
          /\ IsRevoked(rows[t]) \/ IsExpired(rows[t], req[p].at)
          /\ req' = [req EXCEPT ![p] = [@ EXCEPT !.fam = rows[t].family]]
          /\ Goto(p, "familyBegin")
          /\ UNCHANGED <<rows, lock, users, clock, delivered, res>>
       \/ /\ t \in Stored(rows)
          /\ ~IsRevoked(rows[t]) /\ ~IsExpired(rows[t], req[p].at)
          /\ req' = [req EXCEPT ![p] = [@ EXCEPT !.user = rows[t].user]]
          /\ Goto(p, "findUser")
          /\ UNCHANGED <<rows, lock, users, clock, delivered, res>>

FindToken(p) ==
    LET t == req[p].tok IN
    /\ pc[p] = "findToken"
    /\ \/ /\ t \notin Stored(rows)
          /\ Reject(p, "invalid")
       \/ /\ t \in Stored(rows)
          /\ IsRevoked(rows[t])
          /\ req' = [req EXCEPT ![p] = [@ EXCEPT !.fam = rows[t].family]]
          /\ Goto(p, "familyBegin")
          /\ UNCHANGED <<rows, lock, users, clock, delivered, res>>
       \/ /\ t \in Stored(rows)
          /\ ~IsRevoked(rows[t])
          /\ IsExpired(rows[t], req[p].at)
          /\ Reject(p, "invalid")
       \/ /\ t \in Stored(rows)
          /\ ~IsRevoked(rows[t])
          /\ ~IsExpired(rows[t], req[p].at)
          /\ req' = [req EXCEPT ![p] = [@ EXCEPT !.user = rows[t].user]]
          /\ Goto(p, "findUser")
          /\ UNCHANGED <<rows, lock, users, clock, delivered, res>>

FindUser(p) ==
    LET u == req[p].user IN
    /\ pc[p] = "findUser"
    /\ \/ /\ users[u] = "deleted"
          /\ Reject(p, "invalid")
       \/ /\ users[u] = "inactive"
          /\ Reject(p, "inactive")
       \/ /\ users[u] = "active"
          /\ FreshTokens = {}               \* generateOpaqueToken fails
          /\ Reject(p, "error")
       \/ \E n \in FreshTokens :
             /\ users[u] = "active"
             /\ req' = [req EXCEPT ![p] = [@ EXCEPT !.new = n]]
             /\ Goto(p, "rotateLock")
             /\ UNCHANGED <<rows, lock, users, clock, delivered, res>>

\* Without the second check of revoked_at under the lock.
RotatableUnchecked(row, now) == ~IsExpired(row, now)

Rotatable(row, now) == ~IsRevoked(row) /\ ~IsExpired(row, now)

\* SELECT ... FOR UPDATE NOWAIT, with the failure taken for sql.ErrNoRows.
RotateLockNoWait(p) ==
    LET t == req[p].tok IN
    /\ pc[p] = "rotateLock"
    /\ \/ /\ ~Unlocked({t}) \/ ~Rotatable(rows[t], req[p].at)
          /\ Reject(p, "invalid")
       \/ /\ Unlocked({t}) /\ Rotatable(rows[t], req[p].at)
          /\ lock' = [lock EXCEPT ![t] = p]
          /\ Goto(p, "rotateCommit")
          /\ UNCHANGED <<rows, users, clock, delivered, req, res>>

\* SELECT ... FOR UPDATE waits for the row, then the row is checked again.  On
\* rejection the transaction is rolled back at once, so no lock is ever seen.
RotateLock(p) ==
    LET t == req[p].tok IN
    /\ pc[p] = "rotateLock"
    /\ Unlocked({t})
    /\ \/ /\ ~Rotatable(rows[t], req[p].at)
          /\ Reject(p, "invalid")
       \/ /\ Rotatable(rows[t], req[p].at)
          /\ lock' = [lock EXCEPT ![t] = p]
          /\ Goto(p, "rotateCommit")
          /\ UNCHANGED <<rows, users, clock, delivered, req, res>>

\* The tokens are dated with the clock as it is when the row has been locked.
RotateCommitRereadsClock(p) ==
    LET r == req[p] IN
    /\ pc[p] = "rotateCommit"
    /\ rows' = Rotate(rows, r.tok, r.new, r.user, clock)
    /\ lock' = [lock EXCEPT ![r.tok] = NoProc]
    /\ req' = [req EXCEPT ![p] = [@ EXCEPT !.at = clock]]
    /\ Committed(p, "ok")
    /\ UNCHANGED <<users, clock, delivered>>

\* UPDATE of the current row, INSERT of its successor, COMMIT.
RotateCommit(p) ==
    LET r == req[p] IN
    /\ pc[p] = "rotateCommit"
    /\ rows' = Rotate(rows, r.tok, r.new, r.user, r.at)
    /\ lock' = [lock EXCEPT ![r.tok] = NoProc]
    /\ Committed(p, "ok")
    /\ UNCHANGED <<users, clock, delivered, req>>

-----------------------------------------------------------------------------
(***************************************************************************)
(* Logout.  FindByTokenHash before the UPDATE decides only what is logged, *)
(* and is no step of its own; when it fails the logout fails (Fail).       *)
(***************************************************************************)

StartLogout(p, t) ==
    Start(p, [NoRequest EXCEPT !.op = "logout", !.tok = t, !.at = clock], "logout")

\* An UPDATE that passes over a locked row instead of waiting for it.
RevokeByTokenHashSkipLocked(p) ==
    LET t == req[p].tok IN
    /\ pc[p] = "logout"
    /\ rows' = IF t \in Token /\ Unlocked({t}) THEN Revoke(rows, {t}, req[p].at)
                                               ELSE rows
    /\ Committed(p, "ok")
    /\ UNCHANGED <<lock, users, clock, delivered, req>>

\* An unknown token updates no row and is reported as success.
RevokeByTokenHash(p) ==
    LET t == req[p].tok IN
    /\ pc[p] = "logout"
    /\ t \in Token => Unlocked({t})
    /\ rows' = Revoke(rows, {t}, req[p].at)
    /\ Committed(p, "ok")
    /\ UNCHANGED <<lock, users, clock, delivered, req>>

-----------------------------------------------------------------------------
(***************************************************************************)
(* ListSessions is one query.  RevokeSession runs it too: the family must  *)
(* be among the user's listed sessions; the clock is read again for the    *)
(* revocation.                                                             *)
(***************************************************************************)

StartListSessions(p, u) ==
    Start(p, [NoRequest EXCEPT !.op = "list", !.user = u, !.at = clock],
          "listSessions")

ListSessions(p) == /\ pc[p] = "listSessions" /\ req[p].op = "list"
                   /\ Reject(p, "ok")

StartRevokeSession(p, u, f) ==
    Start(p, [NoRequest EXCEPT !.op = "revoke", !.user = u, !.fam = f, !.at = clock],
          "listSessions")

RevokeSession(p) ==
    LET r == req[p] IN
    /\ pc[p] = "listSessions" /\ r.op = "revoke"
    /\ \/ /\ r.fam \notin ListedFamilies(rows, r.user, r.at)
          /\ Reject(p, "notfound")
       \/ /\ r.fam \in ListedFamilies(rows, r.user, r.at)
          /\ req' = [req EXCEPT ![p] = [@ EXCEPT !.at = clock]]
          /\ Goto(p, "familyBegin")
          /\ UNCHANGED <<rows, lock, users, clock, delivered, res>>

-----------------------------------------------------------------------------
(***************************************************************************)
(* RevokeFamily, for a replayed token and for RevokeSession.  The UPDATE   *)
(* takes its snapshot, waits for the locked rows in it and evaluates       *)
(* "revoked_at IS NULL" again on each.                                     *)
(***************************************************************************)

RevokeFamilyBegin(p) ==
    /\ pc[p] = "familyBegin"
    /\ req' = [req EXCEPT ![p] =
                 [@ EXCEPT !.targets = LiveRows(rows, req[p].fam)]]
    /\ Goto(p, "familyApply")
    /\ UNCHANGED <<rows, lock, users, clock, delivered, res>>

\* The same with the rows in view that are locked passed over.
RevokeFamilyApplySkipLocked(p) ==
    LET r == req[p] IN
    /\ pc[p] = "familyApply"
    /\ rows' = Revoke(rows, {t \in r.targets : Unlocked({t})}, r.at)
    /\ Committed(p, IF r.op = "revoke" THEN "ok" ELSE "invalid")
    /\ UNCHANGED <<lock, users, clock, delivered, req>>

RevokeFamilyApply(p) ==
    LET r == req[p] IN
    /\ pc[p] = "familyApply"
    /\ Unlocked(r.targets)
    /\ rows' = Revoke(rows, r.targets, r.at)
    /\ Committed(p, IF r.op = "revoke" THEN "ok" ELSE "invalid")
    /\ UNCHANGED <<lock, users, clock, delivered, req>>

-----------------------------------------------------------------------------
(***************************************************************************)
(* What can go wrong, and the environment.                                 *)
(***************************************************************************)

\* An error path without its tx.Rollback().
FailKeepingLock(p) ==
    /\ pc[p] \notin {"idle", "done"}
    /\ Answer(p, "error")
    /\ UNCHANGED <<rows, lock, users, clock, delivered, req>>

\* A statement fails, the request's context ends or the server dies before the
\* statement takes effect.  An open transaction is rolled back.
Fail(p) ==
    /\ pc[p] \notin {"idle", "done"}
    /\ lock' = [t \in Token |-> IF lock[t] = p THEN NoProc ELSE lock[t]]
    /\ Answer(p, "error")
    /\ UNCHANGED <<rows, users, clock, delivered, req>>

Reset(p) == /\ pc[p] = "done"
            /\ pc' = [pc EXCEPT ![p] = "idle"]
            /\ req' = [req EXCEPT ![p] = NoRequest]
            /\ res' = [res EXCEPT ![p] = "none"]
            /\ UNCHANGED <<rows, lock, users, clock>>

\* The answer reaches the client, and with it the token it carries.
Deliver(p) == /\ Reset(p)
              /\ delivered' = IF res[p] = "ok" /\ req[p].op \in {"signin", "refresh"}
                                THEN delivered \cup {req[p].new}
                                ELSE delivered

\* The answer is lost on its way.
Lose(p) == Reset(p) /\ UNCHANGED delivered

\* Accounts are switched off, on, and deleted by code outside the repository.
SetUser(u, s) == /\ users[u] # "deleted"
                 /\ users' = [users EXCEPT ![u] = s]
                 /\ UNCHANGED <<rows, lock, clock, delivered, pc, req, res>>

Tick == /\ clock < MaxTime
        /\ clock' = clock + 1
        /\ UNCHANGED <<rows, lock, users, delivered, pc, req, res>>

Server(p) == \/ SignInCheck(p)
             \/ IssueSession(p)
             \/ Create(p)
             \/ FindToken(p)
             \/ FindUser(p)
             \/ RotateLock(p)
             \/ RotateCommit(p)
             \/ RevokeByTokenHash(p)
             \/ ListSessions(p)
             \/ RevokeSession(p)
             \/ RevokeFamilyBegin(p)
             \/ RevokeFamilyApply(p)

\* The session ids a client may name: those of sessions, and any other value.
SessionIds == {rows[t].family : t \in Stored(rows)} \cup {NoToken}

Client(p) == \/ \E u \in User : StartSignIn(p, u)
             \/ \E t \in delivered \cup {NoToken} : StartRefresh(p, t)
             \/ \E t \in delivered \cup {NoToken} : StartLogout(p, t)
             \/ \E u \in User : StartListSessions(p, u)
             \/ \E u \in User, f \in SessionIds : StartRevokeSession(p, u, f)
             \/ Deliver(p)
             \/ Lose(p)

Next == \/ \E p \in Proc : Server(p) \/ Client(p) \/ Fail(p)
        \/ \E u \in User, s \in AdminStates : SetUser(u, s)
        \/ Tick

Spec == Init /\ [][Next]_vars

-----------------------------------------------------------------------------
(***************************************************************************)
(* Safety properties.                                                      *)
(***************************************************************************)

\* At any time at most one token of a session can be exchanged, whatever
\* refreshes, replays, logouts and revocations run concurrently: the row lock
\* and the second check in Rotate keep a session from forking.
OneLivePerFamily ==
    \A f \in Token : \A s, t \in LiveRows(rows, f) : s = t

\* Every token but the first of its session was minted from another token of
\* the same session and account, which was revoked at that very time and had
\* not expired by then: rotation neither extends an expired session nor leaves
\* the exchanged token usable, and never moves a session to another account.
RotationChain ==
    \A t \in Stored(rows) :
        \/ rows[t].family = t
        \/ \E s \in FamilyRows(rows, rows[t].family) \ {t} :
              /\ rows[s].user = rows[t].user
              /\ rows[s].revoked = rows[t].created
              /\ rows[t].created < rows[s].expires

\* A logout that reported success leaves the token it was given revoked, also
\* when a refresh of the same token was in flight.
LogoutRevokes ==
    \A p \in Proc :
        /\ pc[p] = "done" /\ req[p].op = "logout" /\ res[p] = "ok"
        /\ req[p].tok \in Stored(rows)
        => IsRevoked(rows[req[p].tok])

\* A family revocation that reported success (to RevokeSession, or to a refresh
\* that detected a replay) has revoked every row it had in view when its UPDATE
\* began, also those a concurrent rotation had locked.
RevocationCoversView ==
    \A p \in Proc :
        pc[p] = "done" /\ res[p] # "error" => \A t \in req[p].targets : IsRevoked(rows[t])

\* A refresh token refused with "invalid refresh token" (401) never works again:
\* a client that then throws it away loses nothing.  In particular waiting for
\* the row lock, or a rotation that fails, must not look like a dead token.
RefusedForGood ==
    \A p \in Proc :
        /\ pc[p] = "done" /\ req[p].op = "refresh" /\ res[p] = "invalid"
        /\ req[p].tok \in Stored(rows)
        => LET row == rows[req[p].tok] IN
           IsRevoked(row) \/ IsExpired(row, clock) \/ users[row.user] = "deleted"

\* A refresh is about to end a live session only if the token it was given had been
\* exchanged for another of that session.  A client that repeats a refresh which
\* failed before it took effect is not taken for a replay.
ReplayWasExchanged ==
    \A p \in Proc :
        /\ pc[p] \in {"familyBegin", "familyApply"} /\ req[p].op = "refresh"
        /\ LiveRows(rows, req[p].fam) # {}
        => LET t == req[p].tok IN
           \E n \in FamilyRows(rows, req[p].fam) \ {t} :
               rows[n].created = rows[t].revoked

\* Whenever the clock was read for it, a listing shows a session that is alive
\* with the row that is alive, never with one of its revoked rows, although the
\* query orders by captured times and looks at no revocation.  Only a row that was
\* created at the very same time can be shown in its place.
ListingShowsLive ==
    \A t \in Stored(rows), now \in 0..clock :
        LET row == rows[t] IN
        /\ ~IsRevoked(row) /\ ~IsExpired(row, now)
        /\ \A s \in FamilyRows(rows, row.family) \ {t} : rows[s].created # row.created
        => ListedRows(rows, row.user, row.family, now) = {t}

\* No row of a session is revoked at a time before the session was opened,
\* although every "now" is captured long before it is written.
RevokedAfterOpened ==
    \A t \in Stored(rows) :
        IsRevoked(rows[t]) => rows[t].revoked >= rows[rows[t].family].created

-----------------------------------------------------------------------------
(***************************************************************************)
(* The inductive invariant behind the safety properties.                   *)
(***************************************************************************)

\* A request that has passed a check holds what the check established.
ArgumentsInv ==
    \A p \in Proc :
        /\ pc[p] \in {"findByEmail", "issueSession", "create"} => req[p].user \in User
        /\ pc[p] \in {"findUser", "rotateLock", "rotateCommit"} =>
              /\ req[p].tok \in Stored(rows)
              /\ req[p].user = rows[req[p].tok].user

\* A token is handed out only when its row is stored.
AnswerInv ==
    /\ delivered \subseteq Stored(rows)
    /\ \A p \in Proc :
          /\ pc[p] = "logout" => req[p].op = "logout"
          /\ /\ pc[p] = "done" /\ res[p] = "ok"
             /\ req[p].op \in {"signin", "refresh"}
             => req[p].new \in Stored(rows)

\* A drawn token belongs to one request and is in nobody's row yet.
DrawnInv ==
    /\ \A p \in Proc :
          pc[p] \in {"create", "rotateLock", "rotateCommit"} =>
              req[p].new \in Token /\ rows[req[p].new] = NoRow
    /\ \A p, q \in Proc :
          req[p].new \in Token /\ req[p].new = req[q].new => p = q

\* A row is locked by exactly the transaction about to rotate it, and stays
\* rotatable until that transaction ends.
LockInv ==
    /\ \A p \in Proc :
          pc[p] = "rotateCommit" => /\ lock[req[p].tok] = p
                                    /\ Rotatable(rows[req[p].tok], req[p].at)
    /\ \A t \in Token :
          lock[t] # NoProc => /\ pc[lock[t]] = "rotateCommit"
                              /\ req[lock[t]].tok = t

\* The first row of every family is stored.
FamilyInv == \A t \in Stored(rows) : rows[t].family \in Stored(rows)

\* What one needs to know of a state for OneLivePerFamily and RotationChain to
\* survive the next step: an insertion never meets an existing row, and a row
\* being rotated is not revoked behind the transaction's back.
IndInv == /\ TypeOK
          /\ ArgumentsInv
          /\ AnswerInv
          /\ DrawnInv
          /\ LockInv
          /\ FamilyInv
          /\ OneLivePerFamily
          /\ RotationChain

-----------------------------------------------------------------------------
(***************************************************************************)
(* The strengthening behind what answers and timestamps promise.           *)
(***************************************************************************)

\* What p's request has seen of the clock and the table, and still holds.
Progress(p) ==
    LET r == req[p] IN
    /\ r.at =< clock
    /\ r.tok \in Stored(rows) \cup {NoToken}
    /\ r.op \in {"refresh", "logout"} /\ r.tok \in Stored(rows) =>
          rows[r.tok].created =< r.at
    /\ pc[p] \in {"findByEmail", "issueSession", "create"} => r.op = "signin"
    /\ pc[p] \in {"findToken", "findUser", "rotateLock", "rotateCommit"} =>
          r.op = "refresh"
    /\ pc[p] \notin {"familyApply", "done"} => r.targets = {}
    /\ pc[p] \in {"familyBegin", "familyApply"} =>
          /\ r.fam \in Stored(rows)
          /\ rows[r.fam].created =< r.at
          /\ \/ /\ r.op = "refresh"
                /\ r.tok \in Stored(rows)
                /\ IsRevoked(rows[r.tok])
             \/ /\ r.op = "revoke"
                /\ rows[r.fam].user = r.user
    /\ r.targets \subseteq FamilyRows(rows, r.fam)

\* A session has one owner, its first row is its oldest and its live row its
\* newest, however late the captured times are written.
History ==
    \A t \in Stored(rows) :
        LET first == rows[rows[t].family] IN
        /\ rows[t].created =< clock
        /\ first.user = rows[t].user
        /\ first.created =< rows[t].created
        /\ IsRevoked(rows[t]) => rows[t].revoked >= first.created
        /\ ~IsRevoked(rows[t]) => \A s \in FamilyRows(rows, rows[t].family) :
                                     rows[s].created =< rows[t].created

StrongInv == /\ IndInv
             /\ History
             /\ \A p \in Proc : Progress(p)
             /\ LogoutRevokes
             /\ RevocationCoversView
             /\ RefusedForGood

-----------------------------------------------------------------------------
(***************************************************************************)
(* Action properties.                                                      *)
(***************************************************************************)

\* A stored row stays, its identity never changes, and once it is revoked it
\* never changes at all: revoked_at keeps the time of the first revocation,
\* although the UPDATE of a rotation has no "revoked_at IS NULL" of its own.
OnlyRevoked ==
    \A t \in Stored(rows) :
        /\ t \in Stored(rows')
        /\ IsRevoked(rows[t]) => rows'[t] = rows[t]
        /\ [rows'[t] EXCEPT !.revoked = rows[t].revoked] = rows[t]

RowsOnlyGetRevoked == [][OnlyRevoked]_vars

\* A RevokeSession request revokes rows of the authenticated account only,
\* although the check and the UPDATE are separate statements.
RevokesOwnSessions ==
    [][\A p \in Proc, t \in Token :
         /\ pc[p] = "familyApply" /\ req[p].op = "revoke"
         /\ pc'[p] = "done" /\ rows'[t] # rows[t]
         => rows[t].user = req[p].user]_vars

\* A logout that reports success ends the session when it is given the token
\* the session currently goes on with, whatever refreshes are in flight: none of
\* them may have minted a second one.  (Given a token that a refresh has just
\* exchanged, it revokes nothing and reports success all the same.)
LogoutEndsSession ==
    [][\A p \in Proc :
         /\ pc[p] = "logout" /\ req[p].tok \in Stored(rows)
         /\ ~IsRevoked(rows[req[p].tok])
         /\ pc'[p] = "done" /\ res'[p] = "ok"
         => LiveRows(rows', rows[req[p].tok].family) = {}]_vars

-----------------------------------------------------------------------------
(***************************************************************************)
(* Refinement of Sessions.                                                 *)
(***************************************************************************)

Abs == INSTANCE Sessions WITH holder <- [f \in Token |-> LiveRows(rows, f)],
                              issued <- Stored(rows)

\* The service implements Sessions: in particular a session that has no
\* exchangeable token left never gets one again.
ImplementsSessions == Abs!Spec

-----------------------------------------------------------------------------
(***************************************************************************)
(* What the repository's tests say and concurrent requests do not keep.    *)
(***************************************************************************)

\* auth_test.go:402, "expected all tokens in session family to be revoked":
\* when RevokeSession reports success no token of the session is live.
RevokeEndsSession ==
    [][\A p \in Proc :
         /\ pc[p] = "familyApply" /\ req[p].op = "revoke"
         /\ pc'[p] = "done" /\ res'[p] = "ok"
         => LiveRows(rows', req[p].fam) = {}]_vars

\* auth_test.go:330, "expected active token to be revoked after replay
\* detection": when a refresh is refused because its token has been used, no
\* token of the session is live.
ReuseEndsSession ==
    [][\A p \in Proc :
         /\ pc[p] = "rotateLock" /\ IsRevoked(rows[req[p].tok])
         /\ pc'[p] = "done" /\ res'[p] = "invalid"
         => LiveRows(rows', rows[req[p].tok].family) = {}]_vars
=============================================================================
