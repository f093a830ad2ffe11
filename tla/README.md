# The identity service of omnitat in TLA+

TLA+ modules, TLC models and TLAPS proofs for the Go service under
`services/go/iam/identity` and the libraries under `libs/go` it uses. The
service signs users up and in, hands out a short-lived access token (a JWT) and
a long-lived, opaque, single-use refresh token, exchanges refresh tokens, lists
and revokes sessions, limits the rate of the authentication endpoints, and
migrates its own schema.

All paths below are relative to `services/go/iam/identity` unless they start
with `libs`.

## The system and its parts

| Component | State | Operations | Interacts with |
|---|---|---|---|
| Refresh-token table (`internal/app/auth/repositories`, `models/refresh_token.go`) | `refresh_tokens`: one row per token, with its family, owner, creation, expiry, revocation | Create, FindByTokenHash, RevokeByTokenHash, RevokeFamily, Rotate, ListSessionsByUserID | PostgreSQL: row locks, snapshots, transactions |
| Authentication service (`internal/app/auth/services/auth.go`) | none of its own; every request keeps locals between statements | SignIn, SignUp, Refresh, Logout, ListSessions, RevokeSession | both repositories, the clock |
| Accounts (`internal/app/users`, `SignUp`) | `users`, created outside the repository | CreateUser, SignUp, FindByEmail, FindByID | the authentication service |
| Rate limiter (`internal/http/rate_limit.go`) | a map of visitors under a mutex; the visitors themselves without it | Middleware, visitorFor, allow | the clock, sign-in, sign-up and refresh routes |
| Bearer authentication (`internal/http/auth_middleware.go`) | none; the access token carries its own state | RequireBearerAuth | access tokens from the authentication service |
| HTTP handlers and DTOs | none | decode, validate, call, map errors to statuses | every service |
| Migrate command (`cmd/identity/cmd_migrate.go`) | `schema_migrations`, the schema | runMigration, applyMigration | PostgreSQL: DDL in transactions |
| Configuration (`internal/config`, `libs/go/config`) | environment | Load | server start |
| Database library (`libs/go/database`) | the pool of connections all requests share | NewDatabaseConnection, WithTransaction | both repositories |
| Middleware chain, HTTP, bcrypt and clock helpers (`libs/go`) | none | Chain, ErrorResponseCode, HashPassword, ... | everything |
| Server start and command line (`cmd/identity`) | none | serve, migrate | everything |

Requests share nothing in memory except the rate limiter's visitors; they meet in
the database, and in the pool of connections to it. What makes the system hard, and what each part must keep:

* **Refresh tokens.** A refresh looks its token up without a lock, reads the
  account, and only then opens a transaction, locks the row and looks again.
  Replays, logouts and revocations of the session run in between. The clock is
  read once, at the start. *A session must never fork into two exchangeable
  tokens, a closed session must stay closed, a revocation that reports success
  must have revoked what it saw, and nobody may touch another account's
  session.*
* **Accounts.** A sign-up is two inserts without a transaction, and the three
  ways to an account treat the spelling of an e-mail differently. *One sign-up
  per address; no session on somebody else's account; an account that exists can
  sign in.*
* **Rate limiter.** Only the map is guarded. *Not too many requests through, none
  refused without cause.*
* **Migrations.** Two deployments may migrate at once, and either may die.
  *The record agrees with the schema, and somebody gets the job done.*
* **Access tokens.** They are accepted until they expire, whatever happened to
  the session. *Nobody acts for an ended session or a closed account longer than
  one lifetime of an access token.*
* **Connections.** Requests wait for rows and for connections at once. *Nobody
  waits for ever.*
* **Configuration.** A duration that does not parse ends the process, an integer that
  does not parse is replaced by its default, and outside the local environments the
  default secret is refused. *What a command runs with is what `Load` accepted.*

`PROJECT.json` lists the hazards one by one, with the line where each bites and
the properties that cover it.

## Modules

| Module | What it is |
|---|---|
| `RefreshTokens` | the value of the table and each SQL statement as an operator on it |
| `AuthService` | the authentication service: concurrent requests, one statement per step |
| `Sessions` | what the token store promises, abstractly |
| `AuthAPI` | `AuthService` behind HTTP: statuses, access tokens, the session endpoints they open |
| `ConnectionPool` | `AuthService` on a pool of connections |
| `AuthServiceProofs` | proofs: the inductive invariant of `AuthService`, no fork, the rotation chain |
| `AuthAnswersProofs` | proofs: what answers and timestamps of `AuthService` promise, and that it implements `Sessions` |
| `AuthAPIProofs`, `ConnectionPoolProofs` | proofs about the two compositions |
| `Accounts`, `AccountsProofs` | registration and sign-in over the users table; proofs about them |
| `RateLimiter` | the limiter, one memory access at a time outside the mutex |
| `RateLimiterProofs` | proofs about `RateLimiter` |
| `Migrate` | concurrent, failing and repeated runs of the migrate command |
| `MigrateProofs` | proofs about `Migrate` |
| `Startup`, `StartupProofs` | the identity command: configuration, dispatch, database, command; proofs about it |
| `MCAuthService`, `MCAuthAPI`, `MCConnectionPool`, `MCAccounts`, `MCRateLimiter`, `MCStartup` | symmetry sets and constant definitions for TLC |

### RefreshTokens and AuthService

A token's primary key, its opaque value and the hash of that value are one
member of `Token`: the value is 32 random bytes, and the hash is taken to be
injective on the values drawn. `rows[t]` is the row or `NoRow`; a family is named
by the id of its first row (`NewRefreshToken`), and `revoked` is `NotRevoked` for
NULL. `updated_at`, `last_used_at`, `user_agent` and `ip_address` are written but
never decide anything; they are left out. TIMESTAMPTZ rounds to microseconds what Go
passes in nanoseconds; a tick is at least a microsecond, so that rounding stays below
it. `ListSessionsByUserID` orders by `created_at` alone, so between rows of a session
created at one time PostgreSQL may return either: `ListedRows` is the set of rows it
may return.

A request is a slot `p` in `Proc` with a program counter `pc[p]`, its arguments
and locals `req[p]` and its answer `res[p]`:

| `pc` | the code about to run | action |
|---|---|---|
| `findByEmail` | `FindByEmail`, password, `IsActive` | `SignInCheck` |
| `issueSession` | the clock is read, the token drawn | `IssueSession` |
| `create` | `refreshTokenStore.Create` | `Create` |
| `findToken` | `FindByTokenHash`, revoked / expired tests | `FindToken` |
| `findUser` | `FindByID`, active test, new token drawn | `FindUser` |
| `rotateLock` | `BeginTx`, `SELECT ... FOR UPDATE`, second test | `RotateLock` |
| `rotateCommit` | `UPDATE`, `INSERT`, `Commit` | `RotateCommit` |
| `logout` | `RevokeByTokenHash` | `RevokeByTokenHash` |
| `listSessions` | `ListSessionsByUserID`; for a revocation also the search in its result | `ListSessions`, `RevokeSession` |
| `familyBegin` | the snapshot of `RevokeFamily`'s UPDATE | `RevokeFamilyBegin` |
| `familyApply` | its wait for locked rows and its writes | `RevokeFamilyApply` |

PostgreSQL is modelled at READ COMMITTED, which `BeginTx(ctx, nil)` gives: a
statement sees what was committed when it began; an UPDATE that meets a locked
row waits and evaluates its WHERE clause again on the new version of *that* row,
and never sees rows inserted meanwhile. Hence the two steps of `RevokeFamily`. A
rotation's writes stay invisible until it commits, so its UPDATE, INSERT and
COMMIT are one step under the lock taken by the step before. `Fail` is an error of
any statement, a cancelled context or a dead server before the statement took
effect; the second disjunct of `Committed` is an error reported after it did. The
lookup at the head of `Logout` decides nothing but whether the request fails, so it is
no step of its own: `Fail` at `logout` stands for its error as well.
`Deliver` and `Lose` decide whether an answer, and the token in it, reaches the
client. Clients present tokens they were given and values that never were tokens.
Accounts change by `SetUser`, the clock by `Tick`. One clock is shared by all
servers: skew between machines is not modelled.

### Sessions

`holder[s]` is the set of tokens that can be exchanged in session `s`. A session is
opened once, its token is exchanged for one never issued before, and a closed
session stays closed. `AuthService` implements it with
`holder <- [f |-> LiveRows(rows, f)]`, `issued <- Stored(rows)`.

### AuthAPI

A request begins only as the routes allow: sign-in from anybody, refresh and logout
with a refresh token that reached a client or with a value that never was one
(`NoToken`), the session endpoints for the subject of an access token
`RequireBearerAuth` accepts. `access[t]` is the access token
handed out with refresh token `t`: an account and an expiry. Since `generateAccessToken`
depends on nothing but the account and the captured "now", both of which the
request keeps, it is applied where the answer is written (`APIDeliver`); before
that nobody sees it. A tick is the resolution of the clock and `Second` the ticks
in a second, so that `jwt.NewNumericDate` rounds the expiry down while `expires_at`
keeps the tick. `Status` translates the answers of `AuthService` as the handlers do;
TLC stops on an answer a handler has no status for. `lastLive` and `lastEntitled` are
history: when a session was last alive, that is, had a token neither revoked nor
expired (`Alive`), and when an account was last active or had a sign-in past its
check.

### ConnectionPool

`conns` is the set of requests that hold a connection from one step to the next: an
UPDATE that waits for a row keeps its connection while it waits, a transaction keeps
its own to the end. Statements that wait for no row take and return a connection in
one step, and can run only when one is free. `maxOpen` is `DB_MAX_OPEN_CONNS`, 0
meaning no limit. Clock and accounts stand still here: they decide which requests are
refused, and refused requests wait for nobody.

### Accounts

An e-mail is an address with a spelling: lower case, mixed case or with blanks.
SignUp normalises (`normalizeEmail`), `CreateUser` stores what it is given after
the handler's regular expression has excluded blanks, and the lookup compares in
lower case and takes any one matching row (LIMIT 1 without an order). The users
table is not created by this repository; only `UNIQUE (email)` is assumed, the
least that `isDuplicateKeyError` needs. With no more than that, `CreateUser` can
add a second account of an address in another case, and sign-in then reaches one
of the two, at random: this is why `RefusedOnlyForHomonym` has its exception.
`Insert` may be reported as failed after it took effect, and a sign-up may fail
between its two inserts.

### RateLimiter

`visitorFor` runs under the mutex and is one step, eviction included. `allow`
works on the visitor struct without the mutex; each read and write of
`windowStarted` and `requests` is a step, and the increment may use the value
compared before or read the field again, as a compiler may choose.
`admitted[k]` is the log of the requests of client `k` let through, each with its
`now`, and is history only, as is `refused`, the last refusal.

A client is a value of `r.RemoteAddr`, an address with a port: a connection. `KeysOf`
says which clients a slot may serve, and `OneAtATime(k)` that no two slots serve `k`,
as for a connection that speaks HTTP/1.1. What the limiter promises it promises to
such clients; the requests of others overlap inside `allow` and may lose increments
(`rate_race`), or carry a count across a window that begins, so that it passes the
limit. Neither disturbs a client served one at a time: visitor structs are
not shared.

### Migrate

Object 0 is `schema_migrations`, object 1 the token table, the others its indexes.
`IF NOT EXISTS` is decided on the committed catalog when a statement begins; a
statement that then meets another transaction creating the same object waits,
and fails with a duplicate key if that one commits. So each CREATE is two steps
(`FindLog`/`CreateLog`, `Exec`/`Create`). A transaction's uncommitted object is
`made[p]`, its uncommitted record is `pc[p] = "commit"`.

### Startup

The process environment is drawn anew at each start. A text setting is a word with
flags for white space around it and capitals in it, so that `TrimSpace`, `ToLower` and
exact comparison differ as they do in the code; `JWT_ACCESS_TTL` stands for the four
durations, which refuse to start when they do not parse, `DB_MAX_OPEN_CONNS` for the
integers, which silently fall back.

## Runs

| Run | Question | Bounds |
|---|---|---|
| `auth_chains` | Does any interleaving, failure or lost answer fork or reopen a session (`Sessions`), mint from an expired or foreign token, un-revoke a row, refuse a token that still works, end a session over a token that was never exchanged, or let a logout or revocation report success over a live row it had in view? | 3 tokens, 2 requests, lifetime 1, clock to 1 |
| `auth_expiry` | Is a live session listed with its live row and no other, whatever time the listing was asked for, and is no revocation dated before its session, with stale clocks and an account that is deleted? Does the invariant of the proofs hold? | 2 tokens, 2 requests, lifetime 2, clock to 2 |
| `auth_accounts` | Does RevokeSession touch its own account only, and does an access token belong to the owner of its session and end no later than the refresh token, though one is rounded and the other is not? | 2 accounts, 2 tokens, 2 requests, a second of 2 ticks, clock to 1 |
| `auth_api` | For how long can somebody act for a session that was revoked or has expired, or for an account that was switched off or deleted? | 2 tokens, 2 requests, access lifetime 2, refresh lifetime 1, a second of 2 ticks, clock to 2 |
| `auth_pool` | Is every request answered, does whoever locks a row have its connection, and can somebody always go on? | 2 tokens, 2 requests, a pool of one connection or without limit, no ticks, fairness |
| `auth_revoke_race` | *violation*: RevokeSession ends the session | 2 tokens, 2 requests |
| `auth_reuse_race` | *violation*: a refused reuse ends the session | 3 tokens, 2 requests |
| `accounts` | Sign-up, CreateUser and sign-in, two at a time | 2 ids, 2 addresses, 2 passwords, 3 spellings |
| `rate_serial` | Is the limiter right for a client that sends one request at a time, with stalls and evictions? Does the invariant of the proofs hold? | 2 clients, limit 1, window 3, clock to 4 |
| `rate_race` | *violation*: concurrent requests of one client stay within the limit | 1 client, limit 2 |
| `migrate` | Are schema and record in step, in order, complete on success; does one of several runs succeed; is waiting free of circles; does every run end? | 3 runs, 3 migrations, fairness |
| `startup` | Which configurations get past `Load`; does a setting that does not parse ever get as far as a command? | 6 texts for APP_ENV and the secret |

Why the bounds are enough. Requests interact only through one row, its successor
and its lock: two requests and three tokens give a rotation, a second rotation of
the result, and a replay of the first token racing either; a third request only
adds another waiter on the same row. Where no rotation of a rotation's result is
needed two tokens do: in `auth_pool` the contention is that of a logout, a revocation
or a second refresh with the one rotation in flight, and the pool of one connection
is the worst of the limited ones, as a request holds at most one. Two ticks give a token that is fresh, at
the boundary `now = expires_at`, and past it, together with a `now` read one or two
ticks before it is written. In `auth_api` access tokens outlive refresh
tokens, which the configuration allows (two durations, never compared): otherwise every
access token would be over before its session could expire. In the limiter a clock to `Window + 1` contains a full
window, its boundary, and an eviction (which needs more than a window of silence).
Three migrations are the table, an index, and an index after an index; the
remaining four repeat the latter. `MaxTime`, `Token`, `Account` and `Visitor` are the
only caps, and a request that finds no value left to draw fails as it would when
the random source does. The proofs below have no bounds.

Every property of a passing run has a mutant of the code in `PROJECT.json` that
violates it; the mutants are the definitions placed just before the ones they
mutate.

### Fairness

Fairness is strong fairness of each request's statements on the pool
(`PoolServer(p)` in `ConnectionPool`), and of each run's in `Migrate`
(`runMigration(p)`): the Go scheduler runs every goroutine; `database/sql` hands a
returned connection to a request that waits for one; PostgreSQL queues the waiters of
a row or of a transaction and wakes them in turn. So a waiter whose row or connection
becomes free again and again gets it. `AuthService`, `AuthAPI`, `Accounts`, `RateLimiter`
and `Startup` state no fairness; their runs check safety. Nothing is assumed of
clients, of failures, of answers, of the clock or of the administration. Deadlock is
checked in every run.

### What the runs found

* **RevokeSession may leave the session alive** (`auth_revoke_race`). A rotation
  holds the row; the family UPDATE waits for it, re-checks the row, finds it
  revoked *by the rotation*, does not see the successor, and revokes nothing.
  `auth_test.go:402` says "expected all tokens in session family to be revoked".
  `RevocationCoversView` is what does hold.
* **A concurrent replay does not revoke the family** (`auth_reuse_race`). The loser
  of two concurrent refreshes with one token learns of the reuse under the lock,
  where `Rotate` returns `sql.ErrNoRows` and `Refresh` does not call `RevokeFamily`.
  `auth_test.go:330` says "expected active token to be revoked after replay
  detection".
* **The limiter lets more than the limit through** (`rate_race`): two concurrent
  requests of one client lose an increment.

**No run, but worth knowing.** The usage text (`cmd/identity/root.go:18`) names
`server`, `migrate` and `seed`; the commands are `serve` and `migrate`.
An integer setting that does not parse is silently replaced by its default
(`libs/go/config/config.go:17`), a duration that does not parse ends the process.

## Proofs

All proofs are for every set of tokens, accounts, requests, clients and texts, any
lifetimes, any limit and window, any pool sizes and any bound on the clock. They rest
on the named assumptions only:

* `TTLAssumption`, `AccessAssumption`, `SlotAssumption`: the clock and the two lifetimes are
  natural numbers, a second has at least one tick. `Load` accepts any duration that
  parses: a lifetime of zero is covered, a negative one is not;
* `NullAssumption` and its like in the other modules: null values differ from the
  values they stand beside;
* `PoolAssumption`, `TextAssumption`: pool sizes are natural numbers; a text has a word and
  two flags;
* `CountAssumption`, `ProcAssumption`: there is at least one migration and one run;
* `ConfigAssumption`: the window is positive, as `NewRateLimiter` makes it, and clients and
  requests are finitely many, with memory enough for a visitor struct each.

| Module | Theorem | Statement |
|---|---|---|
| `AuthServiceProofs` | `IndInvHolds` | `Spec => []IndInv` |
| | `Typing`, `NoFork`, `ChainHolds` | `TypeOK`, `OneLivePerFamily`, `RotationChain` |
| | `RevocationIsFinal` | `Spec => RowsOnlyGetRevoked` |
| `AuthAnswersProofs` | `StrongInvHolds` | `Spec => []StrongInv` |
| | `LogoutRevokesHolds`, `RevocationCoversViewHolds`, `RefusedForGoodHolds`, `ReplayWasExchangedHolds` | what the answers promise |
| | `RevokedAfterOpenedHolds`, `ListingShowsLiveHolds` | what the captured times keep |
| | `RevokesOwnSessionsHolds`, `LogoutEndsSessionHolds` | action properties |
| | `Refines` | `Spec => ImplementsSessions` |
| `AuthAPIProofs` | `APIInvHolds` | `APISpec => []APIInv` |
| | `AccessEndsWithSessionHolds`, `AccessEndsWithAccountHolds`, `AccessMatchesRefreshHolds` | access tokens |
| | `APIImplements`, `APIRefines`, `BearersRevokeOwnSessions` | `APISpec => Spec`, and with it `ImplementsSessions` and `RevokesOwnSessions` |
| `ConnectionPoolProofs` | `PoolInvHolds` | `PoolSpec => []PoolInv` |
| | `LockHolderConnectedHolds`, `SomebodyGoesOnHolds` | the connection of a transaction, no circular wait |
| | `PoolImplements`, `PoolRefines` | `PoolSpec => Spec`, and with it `ImplementsSessions` |
| `RateLimiterProofs` | `LimiterInvHolds` | `Spec => []LimiterInv` |
| | `BurstBoundHolds`, `RefusedOnlyWhenFullHolds` | what the limiter promises |
| `StartupProofs` | `StartupInvHolds` | the configuration a command runs with |
| `MigrateProofs` | `MigrateInv` | `Spec => []IndInv` |
| | `RecordAgrees`, `NoneSkipped`, `SuccessIsComplete` | `RecordedIffMade`, `InOrder`, `SuccessMeansComplete` |
| | `OneRunSucceeds`, `WaitingEndsHolds` | `SomeRunSucceeds`, `WaitingEnds` |
| `AccountsProofs` | `AccountsInvHolds` | `Spec => []AccountsInv` |
| | `OneSignUpPerAddressHolds`, `SessionsAuthenticatedHolds`, `RefusedOnlyForHomonymHolds` | registration and sign-in |

**No fork.** None of `OneLivePerFamily`, `RotationChain` and `RowsOnlyGetRevoked` is
inductive. `IndInv` adds

* `LockInv`: a row is locked exactly while some request is about to rotate it, and
  it stays rotatable that long. Without it a rotation could revoke a row a second
  time (its UPDATE has no `revoked_at IS NULL`) or mint from a row that expired
  or was revoked after the check. Preservation needs the revocations to wait for
  locks.
* `DrawnInv`: a drawn token belongs to one request and has no row yet, so an
  insertion never overwrites.
* `FamilyInv`: the first row of a family is stored, so a new session never joins
  an old family.
* `ArgumentsInv`, `AnswerInv`: what a request established at one statement still
  holds at the next, and only stored tokens are handed out.

The table's part of the argument is in lemmas about values: what `Revoke`,
`CreateRefreshToken` and `Rotate` do to the rows, to `LiveRows` and to the chain
(`TableRevoke`, `TableCreate`, `TableRotate`); then one lemma per action shows
that the action makes such a change and keeps the rest.

**Answers and times.** `StrongInv` adds to `IndInv` what has to be known of requests and
of the past:

* `Progress`: a captured "now" is not in the future; a request names only tokens
  and families it has seen, and the first row of a family it revokes is not younger
  than its "now"; the targets of a revocation are rows of its family, and the family
  of a RevokeSession belongs to the caller.
* `History`: a session has one owner, its first row is its oldest and its live row
  its newest. This is what makes `DISTINCT ON ... ORDER BY created_at DESC` list the
  live row although captured times are written in another order than they were
  read: two rotations of one session exclude each other, and the second can only
  have begun with a token the first had delivered. Newest means not older than any
  other: a sign-in and a refresh at one time give two rows the query cannot tell apart,
  and the session may then be listed with the revoked one. `ListingShowsLive` says that
  this is the only exception.
* `LogoutRevokes`, `RevocationCoversView` and `RefusedForGood` themselves, which once true
  stay true.

`ReplayWasExchanged` rests on two facts beside it. As long as a session has a live row,
each of its revoked rows was revoked by the rotation that stored its successor, at one
time (`Unbroken`): any other revocation takes the live row with it. And the family a
refresh is about to revoke is that of the token it presented (`Named`).

That the steps of *other* requests disturb none of this is proved once, from what
every step keeps of rows, clock and accounts (`Kept`); each lemma about an action then
looks at the request that takes it. `auth_expiry` checks `StrongInv`, and with it
`IndInv`, with TLC.

**Refinement.** One lemma per kind of change of the table shows which abstract step it
is: an insertion opens a session, a rotation exchanges its token, a revocation closes
one session or none, since a family never has two live rows.

**Access tokens.** Every step behind HTTP is a step of `AuthService` (`APIStep`), so
`StrongInv` holds, and with it everything proved of `AuthService` (`APIImplements`).
That needs the invariant: `RevokeSession` of `AuthService` is called by accounts, and
that an access token names an account is a fact about every token ever handed out.
`APIInv` adds that a row is dated to a time when its account was entitled and, unless it
opened the session, its session alive (`Dated`); that a refresh which can still succeed
read the clock while the session was alive, although it writes when it may no longer be
(`Held`); that an answer carries the tokens of the row it stored (`Carried`), and that an
access token says what that row says (`Faithful`). The bounds follow, because rounding
down never adds to a lifetime. A session whose sign-in took longer than a refresh token
lives was never alive: its bound counts from the time its sign-in read.

**Pool.** On the pool a request makes the steps it makes without it (`PoolStep`);
`PoolInv` says a request about to commit has its connection, and that connections are
held only between the steps of a statement or transaction. Waiting for connections
adds no behaviour to `AuthService` (`PoolImplements`), and it cannot bring the service
to a standstill (`SomebodyGoesOn`): whoever waits for a connection waits for a holder
of one, and whoever waits for a row waits for its transaction (`LockInv`), which has its
connection and needs only to commit. That is the safety half of
`EveryRequestAnswered`, for every number of requests and every size of the pool. TLC's
deadlock check would not show it, since a request can always fail.

**Rate limiter.** Neither bound is inductive, nor is either about the state of the
limiter: they speak of a log nobody keeps. `LimiterInv` says what the limiter's state
knows of the log.

* `OwnInv`: a visitor struct in the map or in the hands of a request is referred to for
  one client only, so what a client's requests do, however they race, no other
  client's visitor sees. An eviction may leave two structs of one client, but only
  if two of its requests overlap.
* `Counted(log, s, r)`: of the log of a client whose visitor has started its window at `s`
  and counted `r`, the last `r` entries fell at or after `s` and all others before
  or at it; and (`AllBut`) all but the last `r + Limit` are a window or more older than `s`.
  This is what the limiter forgets by counting and what it keeps.
* `Spaced`: two entries `2 * Limit` apart in the log are at least a window apart in time. It
  follows for the entry about to be logged from `AllBut`, since the count is then below the
  limit, and `BurstBound` follows from it by counting (`SpacedCount`, from the least entry
  in the interval, `Least`).
* `Rested` and `Served` say at which step of a request which part of this holds, and what
  an eviction leaves: an entry goes only when all requests in the log but the last are a
  window old. The last may be dated later than the entry was last seen, if it stalled
  between `visitorFor` and `allow`, and a new visitor counts from 0 all the same; the
  proof shows that this too stays within twice the limit.
* `Full`: of the last refusal, that `Limit` consecutive entries lie in the window before it.

Nothing of the kind is provable of clients whose requests overlap: `AtMostLimit` is
refuted by `rate_race`.

**Accounts.** `AccountsInv` adds that a drawn id belongs to one request and has no row
(`Drawn`, `Holds`), that sign-ups are stored in lower case (`Lowered`), so that
`UNIQUE (email)` compares their addresses, and that a request about to be given a
session has found or made an account with its own address and password.

**Startup.** From `Load` on, the configuration is one the check has accepted for the
environment in force (`Loaded`).

**Migrations.** `TxInv` makes `IndInv` of `Migrate` inductive: an object being
created is nobody else's and not there yet, and a migration being recorded is not
recorded yet. With it a commit adds an object and its record together
(`CommitInv`).

That runs which fail on each other never all fail (`OneRunSucceeds`) needs more: as
long as nothing else goes wrong some run is *ahead*, that is, nobody has made what it
is about to make (`SomeoneAhead`). A run that fails was not ahead, and whoever makes
something, or starts, is.

`WaitingEnds` is the safety half of `EveryRunEnds`: a CREATE waits for a run that records or
commits, a record for a run that commits, and a commit for nobody.

The typing of each module is a theorem as well (`Typing`, `APITyping`,
`AccountsTyping`, `StartupTyping`, `MigrateTyping`, `LimiterTyping`).

Only model-checked: `EveryRequestAnswered` and `EveryRunEnds`, since liveness under
fairness is out of the prover's reach; that nothing stands in their way is proved
(`SomebodyGoesOn`, `WaitingEnds`). Every safety property of a passing run is a
theorem.

## Not modelled

* `libs/go/http/middleware.go` (`Chain`), `internal/http/middleware.go` and
  `internal/http/router.go`: the server mounts its routes on chi directly and uses
  none of them. The users handler is not mounted either; `Accounts` has it all the
  same, since it writes the table sign-in reads, in another spelling.
* `WithTransaction` (`libs/go/database/uow.go`) has no caller; `null.go` converts values.
* Decoding and validation of bodies (the 400 answers), logging, headers, client
  metadata: stateless and sequential.
* bcrypt, JWT signatures, SHA-256, random numbers: libraries, taken to do what
  they promise.
* The settings nothing checks, and the timeouts of the HTTP server: they end
  connections, which is `Lose` and `Fail`.
* Clock skew between servers, and PostgreSQL's own crash recovery.

## Plan

1. *Done*: `RefreshTokens`, `AuthService` with `Sessions`; `RateLimiter`; `Migrate`;
   `Accounts`; `AuthAPI`; `ConnectionPool`; `Startup`; the proofs above.
2. *Done*: the proofs about `RateLimiter`, and that `AuthAPI` and `ConnectionPool` implement
   `AuthService`.
3. `RateLimiter` in front of `AuthAPI` would tie refused requests to the routes
   that are limited; the two share no state, so little is expected of it.
