--------------------------- MODULE RefreshTokens ---------------------------
(***************************************************************************)
(* The refresh_tokens table and the SQL statements the repository runs on  *)
(* it, as operators on the value of the table.                             *)
(*                                                                         *)
(* A row's primary key, its opaque value and the hash of that value are    *)
(* one member of Token: generateOpaqueToken draws 32 random bytes, and     *)
(* hashToken is taken to be injective on them.  A family is named by the   *)
(* id of its first row.  The columns updated_at, last_used_at, user_agent  *)
(* and ip_address decide nothing and are left out.  A tick of the clock is *)
(* a microsecond or more, so that TIMESTAMPTZ stores a time as it is.      *)
(***************************************************************************)
EXTENDS Naturals

CONSTANTS Token,        \* values generateOpaqueToken can return (bounds a run)
          User,         \* accounts
          RefreshTTL,   \* refreshTokenTTL, in ticks of the clock
          NoRow,        \* "no row with this key"
          NotRevoked    \* NULL in revoked_at

Row == [family  : Token,
        user    : User,
        created : Nat,
        expires : Nat,
        revoked : Nat \cup {NotRevoked}]

ASSUME TTLAssumption == RefreshTTL \in Nat
ASSUME NullAssumption == NotRevoked \notin Nat /\ NoRow \notin Row

Table == [Token -> Row \cup {NoRow}]

EmptyTable == [t \in Token |-> NoRow]

-----------------------------------------------------------------------------

IsRevoked(row) == row.revoked # NotRevoked

\* An expiry test off by one: still valid at expires_at itself.
ExpiredLate(row, now) == row.expires < now

IsExpired(row, now) == row.expires =< now

\* A row built without its UserID.
NewRefreshTokenWithoutOwner(t, u, now) ==
    [family |-> t, user |-> NoRow, created |-> now,
     expires |-> now + RefreshTTL, revoked |-> NotRevoked]

NewRefreshToken(t, u, now) ==
    [family |-> t, user |-> u, created |-> now,
     expires |-> now + RefreshTTL, revoked |-> NotRevoked]

Stored(rows) == {t \in Token : rows[t] # NoRow}

FamilyRows(rows, f) == {t \in Token : rows[t] # NoRow /\ rows[t].family = f}

\* The rows of a family that can still be exchanged, as far as revocation goes.
LiveRows(rows, f) == {t \in FamilyRows(rows, f) : ~IsRevoked(rows[t])}

-----------------------------------------------------------------------------
(***************************************************************************)
(* The statements.  Both revocations carry "AND revoked_at IS NULL"; the   *)
(* UPDATE of a rotation does not, and relies on the row lock taken by the  *)
(* SELECT ... FOR UPDATE before it.                                        *)
(***************************************************************************)

CreateRefreshToken(rows, t, row) == [rows EXCEPT ![t] = row]

SetRevoked(rows, ts, now) ==
    [t \in Token |-> IF t \in ts /\ t \in Stored(rows)
                       THEN [rows[t] EXCEPT !.revoked = now]
                       ELSE rows[t]]

\* A revocation whose WHERE clause forgets "revoked_at IS NULL".
RevokeAll(rows, ts, now) == SetRevoked(rows, ts, now)

Revoke(rows, ts, now) ==
    SetRevoked(rows, {t \in ts \cap Stored(rows) : ~IsRevoked(rows[t])}, now)

\* A rotation that forgets newToken.FamilyID = familyID.
RotateInNewFamily(rows, t, n, u, now) ==
    CreateRefreshToken(SetRevoked(rows, {t}, now), n, NewRefreshToken(n, u, now))

Rotate(rows, t, n, u, now) ==
    CreateRefreshToken(SetRevoked(rows, {t}, now), n,
        [NewRefreshToken(n, u, now) EXCEPT !.family = rows[t].family])

\* The listing is SELECT DISTINCT ON (family_id) ... WHERE user_id AND
\* expires_at > now ORDER BY family_id, created_at DESC.
Unexpired(rows, u, now) ==
    {t \in Stored(rows) : rows[t].user = u /\ rows[t].expires > now}

\* The listing ordered by created_at ascending.
OldestUnexpired(rows, u, f, now) ==
    {t \in Unexpired(rows, u, now) \cap FamilyRows(rows, f) :
        \A s \in Unexpired(rows, u, now) \cap FamilyRows(rows, f) :
            rows[s].created >= rows[t].created}

\* The rows a family may be listed with.  The query returns one of them, and
\* says nothing of which when created_at ties.
ListedRows(rows, u, f, now) ==
    {t \in Unexpired(rows, u, now) \cap FamilyRows(rows, f) :
        \A s \in Unexpired(rows, u, now) \cap FamilyRows(rows, f) :
            rows[s].created =< rows[t].created}

\* The listing without "user_id = $1".
AnyonesFamilies(rows, u, now) ==
    {rows[t].family : t \in {s \in Stored(rows) : rows[s].expires > now}}

ListedFamilies(rows, u, now) == {rows[t].family : t \in Unexpired(rows, u, now)}
=============================================================================
