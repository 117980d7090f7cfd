--------------------------- MODULE AdminSessions ---------------------------
(***************************************************************************)
(* The staff session lifecycle of backend/internal/auth: login, refresh,    *)
(* logout and "me" (service.go), the middleware that admits a request       *)
(* (auth.go, RequireAdminJWT) and the one table they share,                 *)
(* admin_refresh_tokens (repo.go, migrations/00008).                        *)
(*                                                                          *)
(* Each HTTP request runs in a goroutine of its own, in any number of api   *)
(* replicas, and shares nothing with the others but PostgreSQL.  A request  *)
(* is therefore a small program whose steps are its SQL statements: what a  *)
(* statement read is kept in the request's record and may be stale by the   *)
(* time the next statement runs.  A statement (or the one explicit          *)
(* transaction, RotateRefreshToken) is one action; the checks in Go that    *)
(* follow a statement belong to its action.                                 *)
(*                                                                          *)
(* Abstractions.  A raw refresh token, its SHA-256 hash and the id of its   *)
(* row name the same session row and are one value of Tokens.  An access    *)
(* JWT is the account it names and its expiry; nothing reads its role       *)
(* claim.  One clock stands for Go's time.Now and PostgreSQL's now().  A    *)
(* request that the code refuses before it has changed or remembered        *)
(* anything is Refuse.                                                      *)
(***************************************************************************)
EXTENDS Naturals, FiniteSets

CONSTANTS
  Admins,       \* staff accounts (rows of admin_users)
  Tokens,       \* refresh tokens that crypto/rand can still produce
  Reqs,         \* slots for HTTP requests in flight
  RefreshTTL,   \* RefreshTokenTTL, in ticks
  AccessTTL,    \* AccessTokenTTL, in ticks
  MaxTime,      \* bound on the clock
  NoRow,        \* no row of admin_refresh_tokens has this hash
  NoToken,      \* no refresh token: an empty or absent request body
  NoAdmin,      \* no account
  Null          \* revoked_at IS NULL

ASSUME TTLAssumption ==
  /\ RefreshTTL \in Nat \ {0}
  /\ AccessTTL \in Nat \ {0}
  /\ MaxTime \in Nat

ASSUME SentinelAssumption ==
  /\ NoToken \notin Tokens
  /\ NoAdmin \notin Admins
  /\ Null \notin Nat

\* A row of admin_refresh_tokens.
Row == [admin: Admins, expires: Nat, revokedAt: Nat \union {Null}]

ASSUME RowAssumption == NoRow \notin Row

VARIABLES
  status,   \* account -> "active", "inactive" or "deleted"
  rows,     \* token -> its row of admin_refresh_tokens, or NoRow
  jwts,     \* access tokens handed to clients
  known,    \* refresh tokens handed to clients
  req,      \* request slot -> program counter and local variables
  now,      \* the clock
  sess,     \* history: token -> the session it continues and the token it replaced
  raced     \* history: sessions two refreshes of which were in flight together

vars == <<status, rows, jwts, known, req, now, sess, raced>>

----------------------------------------------------------------------------
(* The state.                                                               *)

Time == 0 .. MaxTime

Statuses == {"active", "inactive", "deleted"}

\* Where a request stands, named for the statement it runs next:
\*   insert     Login has verified the password
\*   load       Refresh has found its token live
\*   rotate     Refresh has found the account active
\*   grant      a pair is committed and not yet handed to the client
\*   logout     Logout of one session is authenticated
\*   revokeOne  Logout has found that session to be the caller's
\*   revokeAll  Logout without a token is authenticated
\*   me         GET /admin/auth/me is authenticated
\*   profile    the profile is loaded and not yet sent
PCs == {"idle", "insert", "load", "rotate", "grant", "logout", "revokeOne",
        "revokeAll", "me", "profile"}

\* tok is the token presented, adm the account resolved so far, new the token
\* granted, since the moment the account was read, seen the status then read.
Request == [pc: PCs, tok: Tokens \union {NoToken}, adm: Admins \union {NoAdmin},
            new: Tokens \union {NoToken}, since: Nat, seen: Statuses]

IdleRequest == [pc |-> "idle", tok |-> NoToken, adm |-> NoAdmin,
                new |-> NoToken, since |-> 0, seen |-> "active"]

\* The session a token belongs to is named by its first token, the root.
Lineage == [root: Tokens, parent: Tokens \union {NoToken},
            admin: Admins \union {NoAdmin}]

Issued(t) == sess[t].admin # NoAdmin
Root(t) == sess[t].root

Stored(t) == rows[t] # NoRow
Unrevoked(t) == Stored(t) /\ rows[t].revokedAt = Null

\* The check of Refresh: revoked_at is NULL and expires_at is after now.
Live(t) == Unrevoked(t) /\ rows[t].expires > now

\* ParseAccessToken accepts a JWT of a until the second it expires.
HasAccess(a) == \E j \in jwts : j.admin = a /\ now < j.exp

At(r, pcs) == req[r].pc \in pcs

\* A refresh between its check of the token and its commit.
Renewing(r) == At(r, {"load", "rotate"})

\* A request past the check that the account is active.
Acting(r) == At(r, PCs \ {"idle", "load"})

\* Tokens are a finite pool here: a request that will need one starts only
\* while one is left for it.
TokenLeft ==
  Cardinality({t \in Tokens : ~Issued(t)})
    > Cardinality({r \in Reqs : At(r, {"insert", "load", "rotate"})})

Init ==
  /\ status = [a \in Admins |-> "active"]
  /\ rows = [t \in Tokens |-> NoRow]
  /\ jwts = {}
  /\ known = {}
  /\ req = [r \in Reqs |-> IdleRequest]
  /\ now = 0
  /\ sess = [t \in Tokens |-> [root |-> t, parent |-> NoToken, admin |-> NoAdmin]]
  /\ raced = {}

Done(r) == req' = [req EXCEPT ![r] = IdleRequest]

\* Broken variants of Revoked: the old row is left alone; the row is deleted; the
\* conjunct revoked_at IS NULL is missing.
RevokedNot(table, T) == table
RevokedByDelete(table, T) == [t \in Tokens |-> IF t \in T THEN NoRow ELSE table[t]]
RevokedAgain(table, T) ==
  [t \in Tokens |-> IF t \in T /\ table[t] # NoRow
                      THEN [table[t] EXCEPT !.revokedAt = now] ELSE table[t]]

\* UPDATE admin_refresh_tokens SET revoked_at = now() WHERE ... AND revoked_at IS NULL
Revoked(table, T) ==
  [t \in Tokens |->
     IF t \in T /\ table[t] # NoRow /\ table[t].revokedAt = Null
       THEN [table[t] EXCEPT !.revokedAt = now]
       ELSE table[t]]

\* Broken variant of Inserted: the account's id was never filled in.
InsertedForNobody(table, n, a, at) ==
  [table EXCEPT ![n] = [admin |-> NoAdmin, expires |-> at + RefreshTTL, revokedAt |-> Null]]

\* INSERT INTO admin_refresh_tokens: fresh token n for account a; Go's clock was
\* read at some moment since the account was.
Inserted(table, n, a, at) ==
  [table EXCEPT ![n] = [admin |-> a, expires |-> at + RefreshTTL, revokedAt |-> Null]]

----------------------------------------------------------------------------
(* Login and Refresh: the requests that grant a pair.                       *)

\* Service.Login up to its last check: the account exists, the password is the
\* right one, the account is active.
Login(r, a) ==
  /\ At(r, {"idle"}) /\ TokenLeft
  /\ status[a] = "active"
  /\ req' = [req EXCEPT ![r] = [IdleRequest EXCEPT !.pc = "insert", !.adm = a, !.since = now]]
  /\ UNCHANGED <<status, rows, jwts, known, now, sess, raced>>

\* issueTokenPair: the INSERT, which the foreign key refuses when the account
\* has been deleted since it was read.
LoginInsert(r) ==
  LET a == req[r].adm IN
  /\ At(r, {"insert"})
  /\ \/ /\ status[a] = "deleted"
        /\ Done(r)
        /\ UNCHANGED <<rows, sess>>
     \/ /\ status[a] # "deleted"
        /\ \E n \in {t \in Tokens : ~Issued(t)}, at \in req[r].since .. now :
             /\ rows' = Inserted(rows, n, a, at)
             /\ sess' = [sess EXCEPT ![n] = [root |-> n, parent |-> NoToken, admin |-> a]]
             /\ req' = [req EXCEPT ![r] = [@ EXCEPT !.pc = "grant", !.new = n]]
  /\ UNCHANGED <<status, jwts, known, now, raced>>

\* Broken variant of RefreshCheck: the row is found and revoked_at is not looked at.
RefreshCheckExpiryOnly(r, t) ==
  /\ At(r, {"idle"}) /\ TokenLeft
  /\ Stored(t) /\ rows[t].expires > now
  /\ req' = [req EXCEPT ![r] = [IdleRequest EXCEPT !.pc = "load", !.tok = t, !.adm = rows[t].admin]]
  /\ raced' = IF \E q \in Reqs : Renewing(q) /\ Root(req[q].tok) = Root(t)
                THEN raced \union {Root(t)} ELSE raced
  /\ UNCHANGED <<status, rows, jwts, known, now, sess>>

\* Refresh: GetRefreshTokenByHash and the check of revoked_at and expires_at.
RefreshCheck(r, t) ==
  /\ At(r, {"idle"}) /\ TokenLeft
  /\ Live(t)
  /\ req' = [req EXCEPT ![r] = [IdleRequest EXCEPT !.pc = "load", !.tok = t, !.adm = rows[t].admin]]
  /\ raced' = IF \E q \in Reqs : Renewing(q) /\ Root(req[q].tok) = Root(t)
                THEN raced \union {Root(t)} ELSE raced
  /\ UNCHANGED <<status, rows, jwts, known, now, sess>>

\* Broken variant of RefreshLoad: only a missing account ends the request.
RefreshLoadAnyAccount(r) ==
  /\ At(r, {"load"})
  /\ IF status[req[r].adm] # "deleted"
       THEN req' = [req EXCEPT ![r] = [@ EXCEPT !.pc = "rotate", !.since = now]]
       ELSE Done(r)
  /\ UNCHANGED <<status, rows, jwts, known, now, sess, raced>>

\* Broken variant of RefreshLoad: the account is looked up by the token's id, so
\* any account may be found.
RefreshLoadByTokenId(r) ==
  /\ At(r, {"load"})
  /\ \E a \in Admins :
       IF status[a] = "active"
         THEN req' = [req EXCEPT ![r] = [@ EXCEPT !.pc = "rotate", !.adm = a, !.since = now]]
         ELSE Done(r)
  /\ UNCHANGED <<status, rows, jwts, known, now, sess, raced>>

\* Refresh: GetAdminByID; an account gone or inactive ends the request.
RefreshLoad(r) ==
  /\ At(r, {"load"})
  /\ IF status[req[r].adm] = "active"
       THEN req' = [req EXCEPT ![r] = [@ EXCEPT !.pc = "rotate", !.since = now]]
       ELSE Done(r)
  /\ UNCHANGED <<status, rows, jwts, known, now, sess, raced>>

\* RotateRefreshToken: one transaction revokes the row that was read, if it is
\* not revoked already, and inserts its successor; it never looks at how many
\* rows the UPDATE changed.
Rotate(r) ==
  LET a == req[r].adm
      old == req[r].tok
  IN
  /\ At(r, {"rotate"})
  /\ \/ /\ status[a] = "deleted"
        /\ Done(r)
        /\ UNCHANGED <<rows, sess>>
     \/ /\ status[a] # "deleted"
        /\ \E n \in {t \in Tokens : ~Issued(t)}, at \in req[r].since .. now :
             /\ rows' = Inserted(Revoked(rows, {old}), n, a, at)
             /\ sess' = [sess EXCEPT ![n] = [root |-> Root(old), parent |-> old, admin |-> a]]
             /\ req' = [req EXCEPT ![r] = [@ EXCEPT !.pc = "grant", !.new = n]]
  /\ UNCHANGED <<status, jwts, known, now, raced>>

\* The tail of Login and Refresh: IssueAccessToken, and the pair reaches the
\* client.
Grant(r) ==
  /\ At(r, {"grant"})
  /\ known' = known \union {req[r].new}
  /\ jwts' = jwts \union {[admin |-> req[r].adm, exp |-> now + AccessTTL]}
  /\ Done(r)
  /\ UNCHANGED <<status, rows, now, sess, raced>>

----------------------------------------------------------------------------
(* Logout and Me: the requests that present an access token.                *)

\* RequireAdminJWT: the JWT is valid and the account, read afresh, is active.
Authenticated(r, a) == At(r, {"idle"}) /\ HasAccess(a) /\ status[a] = "active"

\* POST /admin/auth/logout passes the middleware; the body names one session,
\* or none.
LogoutAuth(r, a) ==
  /\ Authenticated(r, a)
  /\ \/ req' = [req EXCEPT ![r] = [IdleRequest EXCEPT !.pc = "revokeAll", !.adm = a]]
     \/ \E t \in known :
          req' = [req EXCEPT ![r] = [IdleRequest EXCEPT !.pc = "logout", !.adm = a, !.tok = t]]
  /\ UNCHANGED <<status, rows, jwts, known, now, sess, raced>>

\* Broken variant of LogoutLookup: the owner is not compared.
LogoutLookupAnyOwner(r) ==
  LET t == req[r].tok IN
  /\ At(r, {"logout"})
  /\ IF Stored(t) THEN req' = [req EXCEPT ![r].pc = "revokeOne"] ELSE Done(r)
  /\ UNCHANGED <<status, rows, jwts, known, now, sess, raced>>

\* Logout: the row is looked up; unknown or another account's, nothing is done.
LogoutLookup(r) ==
  LET t == req[r].tok IN
  /\ At(r, {"logout"})
  /\ IF Stored(t) /\ rows[t].admin = req[r].adm
       THEN req' = [req EXCEPT ![r].pc = "revokeOne"]
       ELSE Done(r)
  /\ UNCHANGED <<status, rows, jwts, known, now, sess, raced>>

\* RevokeRefreshToken.
LogoutOne(r) ==
  /\ At(r, {"revokeOne"})
  /\ rows' = Revoked(rows, {req[r].tok})
  /\ Done(r)
  /\ UNCHANGED <<status, jwts, known, now, sess, raced>>

\* RevokeAllRefreshTokens.
LogoutAll(r) ==
  /\ At(r, {"revokeAll"})
  /\ rows' = Revoked(rows, {t \in Tokens : Stored(t) /\ rows[t].admin = req[r].adm})
  /\ Done(r)
  /\ UNCHANGED <<status, jwts, known, now, sess, raced>>

\* GET /admin/auth/me passes the middleware.
MeAuth(r, a) ==
  /\ Authenticated(r, a)
  /\ req' = [req EXCEPT ![r] = [IdleRequest EXCEPT !.pc = "me", !.adm = a]]
  /\ UNCHANGED <<status, rows, jwts, known, now, sess, raced>>

\* Service.Me reads the account again; only a missing row is an error.
MeLoad(r) ==
  LET st == status[req[r].adm] IN
  /\ At(r, {"me"})
  /\ IF st = "deleted" THEN Done(r)
                       ELSE req' = [req EXCEPT ![r] = [@ EXCEPT !.pc = "profile", !.seen = st]]
  /\ UNCHANGED <<status, rows, jwts, known, now, sess, raced>>

\* The profile is sent.
MeAnswer(r) ==
  /\ At(r, {"profile"})
  /\ Done(r)
  /\ UNCHANGED <<status, rows, jwts, known, now, sess, raced>>

----------------------------------------------------------------------------
(* What ends a request early, and the world outside the api.                *)

\* A request refused on arrival: a malformed or empty body, a wrong password, a
\* token that is unknown, revoked or expired, an access token that is.
Refuse(r) == At(r, {"idle"}) /\ UNCHANGED vars

\* A database error, a client that went away, a crash of the replica, an answer
\* lost on the way: a request may end at any step, keeping what it committed.
Fail(r) ==
  /\ ~At(r, {"idle"})
  /\ Done(r)
  /\ UNCHANGED <<status, rows, jwts, known, now, sess, raced>>

\* Staff administration, by whoever writes admin_users: no code of the
\* repository does, and every reader of the table must live with it.
Deactivate(a) ==
  /\ status[a] = "active"
  /\ status' = [status EXCEPT ![a] = "inactive"]
  /\ UNCHANGED <<rows, jwts, known, req, now, sess, raced>>

Activate(a) ==
  /\ status[a] = "inactive"
  /\ status' = [status EXCEPT ![a] = "active"]
  /\ UNCHANGED <<rows, jwts, known, req, now, sess, raced>>

\* DELETE FROM admin_users: the sessions go with it (ON DELETE CASCADE).
Delete(a) ==
  /\ status[a] # "deleted"
  /\ status' = [status EXCEPT ![a] = "deleted"]
  /\ rows' = [t \in Tokens |-> IF Stored(t) /\ rows[t].admin = a THEN NoRow ELSE rows[t]]
  /\ UNCHANGED <<jwts, known, req, now, sess, raced>>

Tick ==
  /\ now < MaxTime
  /\ now' = now + 1
  /\ UNCHANGED <<status, rows, jwts, known, req, sess, raced>>

----------------------------------------------------------------------------
\* The next step of a request that has started.
Continue(r) ==
  \/ LoginInsert(r) \/ RefreshLoad(r) \/ Rotate(r) \/ Grant(r)
  \/ LogoutLookup(r) \/ LogoutOne(r) \/ LogoutAll(r)
  \/ MeLoad(r) \/ MeAnswer(r)

Arrive(r) ==
  \/ \E a \in Admins : Login(r, a) \/ LogoutAuth(r, a) \/ MeAuth(r, a)
  \/ \E t \in known : RefreshCheck(r, t)
  \/ Refuse(r)

Administer == \E a \in Admins : Deactivate(a) \/ Activate(a) \/ Delete(a)

Next ==
  \/ \E r \in Reqs : Arrive(r) \/ Continue(r) \/ Fail(r)
  \/ Administer
  \/ Tick

Spec == Init /\ [][Next]_vars


----------------------------------------------------------------------------
(* Properties.                                                              *)

TypeOK ==
  /\ status \in [Admins -> Statuses]
  /\ rows \in [Tokens -> Row \union {NoRow}]
  /\ jwts \subseteq [admin: Admins, exp: Nat]
  /\ known \subseteq Tokens
  /\ req \in [Reqs -> Request]
  /\ now \in Time
  /\ sess \in [Tokens -> Lineage]
  /\ raced \subseteq Tokens

\* The inductive invariant behind the properties below.  A token is issued once,
\* into a session of issued tokens of one account; its row, if it still has one,
\* is that account's; a token with a successor is revoked.
Filed(t) ==
  /\ ~Issued(t) => Root(t) = t /\ sess[t].parent = NoToken /\ ~Stored(t)
  /\ Issued(t) => Issued(Root(t)) /\ sess[Root(t)].admin = sess[t].admin
  /\ Issued(t) => Stored(t) \/ status[sess[t].admin] = "deleted"
  /\ Stored(t) => rows[t].admin = sess[t].admin
  /\ sess[t].parent # NoToken => Issued(sess[t].parent) /\ ~Unrevoked(sess[t].parent)

LineageOK == \A t \in Tokens : Filed(t)

\* What a request remembers is about tokens that exist and the account they
\* belong to.
Remembers(r) ==
  /\ ~At(r, {"idle"}) => req[r].adm \in Admins
  /\ At(r, {"load", "rotate", "revokeOne"}) =>
       req[r].tok \in Tokens /\ sess[req[r].tok].admin = req[r].adm
  /\ At(r, {"logout"}) => req[r].tok \in Tokens
  /\ At(r, {"grant"}) => req[r].new \in Tokens /\ sess[req[r].new].admin = req[r].adm

RequestOK == \A r \in Reqs : Remembers(r)

\* In a session that was never raced, at most one token is unrevoked and at most
\* one refresh is under way, which holds that token.
Serial(f) == f \notin raced

OneToken ==
  \A t, u \in Tokens :
    Root(t) = Root(u) /\ Serial(Root(t)) /\ Unrevoked(t) /\ Unrevoked(u) => t = u

RefreshHoldsToken ==
  \A r \in Reqs, t \in Tokens :
    Renewing(r) /\ Root(req[r].tok) = Root(t) /\ Serial(Root(t)) /\ Unrevoked(t)
      => t = req[r].tok

OneRefresh ==
  \A r, q \in Reqs :
    Renewing(r) /\ Renewing(q) /\ Root(req[r].tok) = Root(req[q].tok)
      /\ Serial(Root(req[r].tok)) => r = q

HistoryOK == raced \union known \subseteq {t \in Tokens : Issued(t)}

SerialOK == HistoryOK /\ OneToken /\ RefreshHoldsToken /\ OneRefresh

IInv == TypeOK /\ LineageOK /\ RequestOK /\ SerialOK

\* repo.go:198-200: rotation can never leave both the old and the new token
\* valid.  Whatever races, fails or crashes, a token that has a successor in
\* the table is revoked.
OldAndNewNeverBothValid ==
  \A t \in Tokens : LET p == sess[t].parent IN
    p # NoToken /\ Stored(t) /\ Stored(p) => ~Unrevoked(p)

UsableOf(f) == {t \in Tokens : Root(t) = f /\ Unrevoked(t)}

\* A client that refreshes one at a time has one usable token: a session of
\* which no two refreshes were ever in flight together has at most one
\* unrevoked row, through any mix of logouts, failures and lost answers.
SerialSessionHasOneToken ==
  \A f \in Tokens \ raced : Cardinality(UsableOf(f)) <= 1

\* A refresh token that reached a client is stored: only the deletion of its
\* account takes the row away, so a refused refresh can be told apart from a
\* token that never existed (migrations/00008, on revoked_at).
DeliveredTokenIsStored ==
  \A t \in known : Stored(t) \/ status[sess[t].admin] = "deleted"

\* RevokeRefreshToken's comment: revocation is final and revoked_at is never
\* bumped forward by a later logout or rotation of the same row.
RevocationIsFinal ==
  [][\A t \in Tokens :
       Stored(t) /\ ~Unrevoked(t) /\ Stored(t)' => rows'[t].revokedAt = rows[t].revokedAt]_vars

\* Logout's comment: another account's session is left untouched.  A row is
\* revoked only by a logout of its own account or by the rotation of its token.
OnlyOwnerRevokes ==
  [][\A t \in Tokens :
       Unrevoked(t) /\ Stored(t)' /\ ~Unrevoked(t)' =>
         \E r \in Reqs :
           /\ req[r].adm = rows[t].admin
           /\ \/ At(r, {"revokeAll"})
              \/ At(r, {"revokeOne", "rotate"}) /\ req[r].tok = t]_vars

\* A session all of whose tokens are dead, with no refresh of it between check
\* and commit, is over: no later request, of any kind, brings it back.
SessionOver(f) ==
  /\ Issued(f)
  /\ \A t \in Tokens : Root(t) = f => ~Live(t)
  /\ \A r \in Reqs : Renewing(r) => Root(req[r].tok) # f

DeadSessionStaysDead == [][\A f \in Tokens : SessionOver(f) => SessionOver(f)']_vars

\* Deactivation takes hold: once the requests that had already read the account
\* as active are through, nothing is done in its name until it is activated
\* again: no session row is written or revoked and no access token issued.
Frozen(a) ==
  /\ status[a] # "active"
  /\ \A r \in Reqs : Acting(r) => req[r].adm # a

TouchedFor(a) ==
  \/ \E t \in Tokens : Stored(t)' /\ rows'[t].admin = a /\ rows'[t] # rows[t]
  \/ \E j \in jwts' \ jwts : j.admin = a

DeactivationTakesHold ==
  [][\A a \in Admins :
       Frozen(a) /\ status'[a] # "active" => Frozen(a)' /\ ~TouchedFor(a)]_vars

\* Seen from outside, the table is a ledger of sessions: every step of a request
\* is a step of SessionLedger or leaves it alone.  The claim is what a refresh
\* remembers between its check and its commit.
LedgerState(t) ==
  IF ~Issued(t) THEN "unused" ELSE IF Unrevoked(t) THEN "live" ELSE "spent"

Ledger == INSTANCE SessionLedger WITH
  Claimants <- Reqs,
  state <- [t \in Tokens |-> LedgerState(t)],
  owner <- [t \in Tokens |-> sess[t].admin],
  session <- [t \in Tokens |-> sess[t].root],
  claim <- [r \in Reqs |-> IF Renewing(r) THEN req[r].tok ELSE NoToken]

ImplementsLedger == Ledger!Spec

\* A session never changes hands, through any number of refreshes: its tokens all
\* belong to the account that logged in, whoever presents them (service.go:147).
OneOwnerPerSession == Ledger!OneOwnerPerSession

----------------------------------------------------------------------------
(* What comments and tests say and the code does not keep.                  *)

\* service.go:114-115: "a second "refresh" of an already-rotated token fails".
RotatedOnce ==
  \A t, u \in Tokens : sess[t].parent = sess[u].parent /\ sess[t].parent # NoToken => t = u

=============================================================================
