------------------------------ MODULE AuthAPI ------------------------------
(***************************************************************************)
(* The HTTP interface of the authentication service: the statuses the      *)
(* handlers answer with, the access tokens (JWTs) handed out beside the    *)
(* refresh tokens, and the session endpoints that an access token opens.   *)
(*                                                                         *)
(* An access token carries its account and its expiry; RequireBearerAuth   *)
(* looks at these alone, never at the session or the account.  Signatures  *)
(* are taken to be unforgeable and the fields nothing reads (iss, iat,     *)
(* email) are left out.                                                    *)
(***************************************************************************)
EXTENDS AuthService

CONSTANTS AccessTTL,    \* accessTokenTTL, in ticks
          Second,       \* ticks in a second
          NoAccess      \* "no access token was handed out"

AccessToken == [sub : User, exp : Nat]

ASSUME AccessAssumption == /\ AccessTTL \in Nat
                           /\ Second \in Nat \ {0}
                           /\ NoAccess \notin AccessToken

VARIABLES
    access,        \* access[t]: the access token handed out with refresh token t
    lastLive,      \* history: when session f was last alive
    lastEntitled   \* history: when account u was last good for a new session

apiVars == <<vars, access, lastLive, lastEntitled>>

APITypeOK == /\ access \in [Token -> AccessToken \cup {NoAccess}]
             /\ lastLive \in [Token -> 0..MaxTime]
             /\ lastEntitled \in [User -> 0..MaxTime]

APIInit == /\ Init
           /\ access = [t \in Token |-> NoAccess]
           /\ lastLive = [f \in Token |-> 0]
           /\ lastEntitled = [u \in User |-> 0]

-----------------------------------------------------------------------------
(***************************************************************************)
(* What a client is told.                                                  *)
(***************************************************************************)

SignInStatus == [ok |-> 200, credentials |-> 401, inactive |-> 403, error |-> 500]

RefreshStatus == [ok |-> 200, invalid |-> 401, inactive |-> 403, error |-> 500]

LogoutStatus == [ok |-> 204, error |-> 500]

ListSessionsStatus == [ok |-> 200, error |-> 500]

RevokeSessionStatus == [ok |-> 204, notfound |-> 404, error |-> 500]

Status(p) == CASE req[p].op = "signin"  -> SignInStatus[res[p]]
               [] req[p].op = "refresh" -> RefreshStatus[res[p]]
               [] req[p].op = "logout"  -> LogoutStatus[res[p]]
               [] req[p].op = "list"    -> ListSessionsStatus[res[p]]
               [] req[p].op = "revoke"  -> RevokeSessionStatus[res[p]]

-----------------------------------------------------------------------------
(***************************************************************************)
(* Access tokens.  A refresh signs its access token before the rotation,   *)
(* with the "now" captured at its start; nobody sees it unless the         *)
(* rotation succeeds.                                                      *)
(***************************************************************************)

\* Rounded up, for a token never to live shorter than promised.
NewNumericDateUp(t) == t + ((Second - (t % Second)) % Second)

\* jwt.NewNumericDate rounds down to seconds.
NewNumericDate(t) == t - (t % Second)

\* Claims without their Subject.
generateAccessTokenForNobody(u, now) ==
    [sub |-> NoUser, exp |-> NewNumericDate(now + AccessTTL)]

generateAccessToken(u, now) == [sub |-> u, exp |-> NewNumericDate(now + AccessTTL)]

\* Signed with the clock as it is when the answer is written.
TokenPairSignedLate(p) ==
    [access EXCEPT ![req[p].new] = generateAccessToken(req[p].user, clock)]

\* The answer to a sign-in or a refresh.
TokenPair(p) ==
    [access EXCEPT ![req[p].new] = generateAccessToken(req[p].user, req[p].at)]

Accepted(a) == a # NoAccess /\ clock < a.exp

\* The accounts somebody can act for.
RequireBearerAuth == {access[t].sub : t \in {s \in Token : Accepted(access[s])}}

-----------------------------------------------------------------------------
(***************************************************************************)
(* The steps: those of AuthService, the session endpoints opened only by   *)
(* an access token.                                                        *)
(***************************************************************************)

\* Until its password comparison ends a sign-in has yet to read the clock.
Entitled(u) == \/ users[u] = "active"
               \/ \E p \in Proc : pc[p] = "issueSession" /\ req[p].user = u

\* Session f has a token that can be exchanged: not revoked and not expired.
Alive(f) == \E t \in LiveRows(rows, f) : ~IsExpired(rows[t], clock)

Remember ==
    /\ lastLive' = [f \in Token |-> IF Alive(f)' THEN clock' ELSE lastLive[f]]
    /\ lastEntitled' = [u \in User |-> IF Entitled(u)' THEN clock' ELSE lastEntitled[u]]

Public(p) == \/ \E u \in User : StartSignIn(p, u)
             \/ \E t \in delivered \cup {NoToken} :
                   StartRefresh(p, t) \/ StartLogout(p, t)

Authenticated(p) ==
    \E u \in RequireBearerAuth :
        \/ StartListSessions(p, u)
        \/ \E f \in SessionIds : StartRevokeSession(p, u, f)

APIDeliver(p) == /\ Deliver(p)
                 /\ access' = IF Status(p) = 200 /\ req[p].op \in {"signin", "refresh"}
                                THEN TokenPair(p)
                                ELSE access

\* No answer reaches a client, so no access token either.
Unanswered == \/ \E p \in Proc : Public(p) \/ Authenticated(p) \/ Server(p)
                                 \/ Fail(p) \/ Lose(p)
              \/ \E u \in User, s \in AdminStates : SetUser(u, s)
              \/ Tick

APINext == /\ \/ \E p \in Proc : APIDeliver(p)
              \/ Unanswered /\ UNCHANGED access
           /\ Remember

APISpec == APIInit /\ [][APINext]_apiVars

-----------------------------------------------------------------------------
(***************************************************************************)
(* Properties.                                                             *)
(***************************************************************************)

\* A session that has ended, be it revoked or expired, cannot be acted for longer
\* than AccessTTL, although the middleware never asks whether it still exists and
\* "now" was read long before, perhaps before the session ended.  Only a sign-in
\* that took until its session had expired is counted from where it read the clock.
AccessEndsWithSession ==
    \A t \in Token : Accepted(access[t]) =>
        LET f == rows[t].family IN
        \/ clock < lastLive[f] + AccessTTL
        \/ clock < rows[f].created + AccessTTL

\* An account that was switched off or deleted cannot be acted for longer than
\* AccessTTL; only a sign-in whose password is being compared adds to that.
AccessEndsWithAccount ==
    \A t \in Token : Accepted(access[t]) =>
        clock < lastEntitled[access[t].sub] + AccessTTL

\* An access token is for the owner of the session it was handed out with, and
\* does not outlive the refresh token beside it, which is dated to the tick and
\* not to the second.
AccessMatchesRefresh ==
    \A t \in Token : access[t] # NoAccess =>
        /\ t \in Stored(rows)
        /\ access[t].sub = rows[t].user
        /\ AccessTTL =< RefreshTTL => access[t].exp =< rows[t].expires
=============================================================================
