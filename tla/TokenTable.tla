----------------------------- MODULE TokenTable -----------------------------
(***************************************************************************)
(* admin_refresh_tokens seen from inside PostgreSQL: the statements of      *)
(* RotateRefreshToken's transaction and of the other statements of repo.go  *)
(* that write the table, one by one, under READ COMMITTED, for the rows of  *)
(* one account.  AdminSessions takes each of them as one step.              *)
(*                                                                          *)
(* What the database contributes, as the code relies on it: a statement     *)
(* sees the versions committed when it began; an UPDATE or DELETE waits for *)
(* the transaction that has written a row it wants, then looks at the row   *)
(* again; an INSERT of a row that refers to the account waits for a         *)
(* transaction that deletes the account, and the deletion waits for it; the *)
(* writes of a transaction become visible together or not at all; one of    *)
(* several transactions that wait for each other in a circle is aborted.    *)
(***************************************************************************)
EXTENDS Naturals, FiniteSets

CONSTANTS
  Tokens,   \* refresh tokens that may still be generated
  Reqs,     \* connections: one statement or transaction each
  Account,  \* the account
  NoAdmin,  \* no account
  NoToken,  \* no token
  NoReq     \* nobody

ASSUME TableAssumption ==
  NoToken \notin Tokens /\ NoReq \notin Reqs /\ NoAdmin # Account

VARIABLES
  row,       \* token -> its committed row: "none", "live" or "revoked"
  holder,    \* token -> the transaction that has written the row and not ended
  present,   \* the account's row is there
  share,     \* transactions that hold FOR KEY SHARE on the account's row
  deleting,  \* the transaction that is deleting the account
  tx,        \* connection -> what it is doing
  born       \* history: token -> first token of its session, token it replaced

vars == <<row, holder, present, share, deleting, tx, born>>

----------------------------------------------------------------------------
\* Named for the statement to run next:
\*   update     RotateRefreshToken: UPDATE of the old row
\*   insert     RotateRefreshToken: INSERT of the new row
\*   commit     RotateRefreshToken: COMMIT
\*   revokeOne  RevokeRefreshToken
\*   sweep      RevokeAllRefreshTokens is under way
\*   cascade    the account is being deleted, and its rows with it
PCs == {"idle", "update", "insert", "commit", "revokeOne", "sweep", "cascade"}

\* tok and new as in AdminSessions; found are the rows a logout of every session
\* found when it began, todo those a statement has not come to yet.
Work == [pc: PCs, tok: Tokens \union {NoToken}, new: Tokens \union {NoToken},
         found: SUBSET Tokens, todo: SUBSET Tokens]

Idle == [pc |-> "idle", tok |-> NoToken, new |-> NoToken, found |-> {}, todo |-> {}]

At(r, pcs) == tx[r].pc \in pcs

\* A token is issued with the commit of its row.
Birth == [root: Tokens, parent: Tokens \union {NoToken}, issued: BOOLEAN]
Issued(t) == born[t].issued

\* crypto/rand: never issued, and in nobody's hands.
Fresh == {t \in Tokens : ~Issued(t) /\ \A r \in Reqs : tx[r].new # t}

\* Tokens are a finite pool: a rotation starts only while one is left for it.
TokenLeft == Cardinality(Fresh) > Cardinality({r \in Reqs : At(r, {"update", "insert"})})

\* A rotation between the check of its token and its commit.
Renewing(r) == At(r, {"update", "insert", "commit"})

Free(t) == holder[t] = NoReq
Held(r) == {t \in Tokens : holder[t] = r}

Init ==
  /\ row = [t \in Tokens |-> "none"]
  /\ holder = [t \in Tokens |-> NoReq]
  /\ present = TRUE
  /\ share = {}
  /\ deleting = NoReq
  /\ tx = [r \in Reqs |-> Idle]
  /\ born = [t \in Tokens |-> [root |-> t, parent |-> NoToken, issued |-> FALSE]]

\* Broken variant of Release: the row locks stay behind (no deferred Rollback).
ReleaseNothing(r) ==
  /\ UNCHANGED <<holder, share, deleting>>
  /\ tx' = [tx EXCEPT ![r] = Idle]

\* The end of a transaction: its locks go, and the connection is free.
Release(r) ==
  /\ holder' = [t \in Tokens |-> IF holder[t] = r THEN NoReq ELSE holder[t]]
  /\ share' = share \ {r}
  /\ deleting' = IF deleting = r THEN NoReq ELSE deleting
  /\ tx' = [tx EXCEPT ![r] = Idle]

----------------------------------------------------------------------------
(* Rotation.                                                                *)

\* Service.Refresh has read the row and found it live.
Check(r, t) ==
  /\ At(r, {"idle"}) /\ TokenLeft
  /\ row[t] = "live"
  /\ tx' = [tx EXCEPT ![r] = [Idle EXCEPT !.pc = "update", !.tok = t]]
  /\ UNCHANGED <<row, holder, present, share, deleting, born>>

\* Broken variants of UpdateOld: the row is not written; the statement is not part
\* of the transaction.
UpdateOldLost(r) ==
  /\ At(r, {"update"}) /\ Free(tx[r].tok)
  /\ tx' = [tx EXCEPT ![r] = [@ EXCEPT !.pc = "insert"]]
  /\ UNCHANGED <<row, holder, present, share, deleting, born>>

UpdateOldAlone(r) ==
  LET t == tx[r].tok IN
  /\ At(r, {"update"}) /\ Free(t)
  /\ row' = [row EXCEPT ![t] = IF @ = "live" THEN "revoked" ELSE @]
  /\ tx' = [tx EXCEPT ![r] = [@ EXCEPT !.pc = "insert"]]
  /\ UNCHANGED <<holder, present, share, deleting, born>>

\* BEGIN and the UPDATE: the row is locked if it is still unrevoked once nobody
\* else holds it; otherwise the statement changes nothing, and nobody looks.
UpdateOld(r) ==
  LET t == tx[r].tok IN
  /\ At(r, {"update"}) /\ Free(t)
  /\ holder' = IF row[t] = "live" THEN [holder EXCEPT ![t] = r] ELSE holder
  /\ tx' = [tx EXCEPT ![r] = [@ EXCEPT !.pc = "insert"]]
  /\ UNCHANGED <<row, present, share, deleting, born>>

\* Broken variant of Insert: the foreign key takes no lock on the account.
InsertUnlocked(r) ==
  /\ At(r, {"insert"}) /\ present
  /\ \E n \in Fresh : tx' = [tx EXCEPT ![r] = [@ EXCEPT !.pc = "commit", !.new = n]]
  /\ UNCHANGED <<row, holder, present, share, deleting, born>>

\* The INSERT: the foreign key locks the account's row, or finds it gone, and
\* then the deferred Rollback ends the transaction.
Insert(r) ==
  /\ At(r, {"insert"}) /\ deleting = NoReq
  /\ IF present
       THEN /\ \E n \in Fresh : tx' = [tx EXCEPT ![r] = [@ EXCEPT !.pc = "commit", !.new = n]]
            /\ share' = share \union {r}
            /\ UNCHANGED <<holder, deleting>>
       ELSE Release(r)
  /\ UNCHANGED <<row, present, born>>

\* COMMIT: the old row is revoked and the new one is there.
Commit(r) ==
  LET old == tx[r].tok
      n == tx[r].new
  IN
  /\ At(r, {"commit"})
  /\ row' = [t \in Tokens |-> IF t = n THEN "live" ELSE
                              IF t \in Held(r) THEN "revoked" ELSE row[t]]
  /\ born' = [born EXCEPT ![n] = [root |-> born[old].root, parent |-> old, issued |-> TRUE]]
  /\ Release(r)
  /\ UNCHANGED present

----------------------------------------------------------------------------
(* The other statements.                                                    *)

\* issueTokenPair: one INSERT, which commits by itself.
LoginInsert(r, n) ==
  /\ At(r, {"idle"}) /\ TokenLeft /\ n \in Fresh
  /\ deleting = NoReq /\ present
  /\ row' = [row EXCEPT ![n] = "live"]
  /\ born' = [born EXCEPT ![n] = [root |-> n, parent |-> NoToken, issued |-> TRUE]]
  /\ UNCHANGED <<holder, present, share, deleting, tx>>

\* Service.Logout has found the session.
LogoutLookup(r, t) ==
  /\ At(r, {"idle"})
  /\ row[t] # "none"
  /\ tx' = [tx EXCEPT ![r] = [Idle EXCEPT !.pc = "revokeOne", !.tok = t]]
  /\ UNCHANGED <<row, holder, present, share, deleting, born>>

\* RevokeRefreshToken: an UPDATE of one row, which commits by itself.
RevokeOne(r) ==
  LET t == tx[r].tok IN
  /\ At(r, {"revokeOne"}) /\ Free(t)
  /\ row' = [row EXCEPT ![t] = IF @ = "live" THEN "revoked" ELSE @]
  /\ Release(r)
  /\ UNCHANGED <<present, born>>

\* RevokeAllRefreshTokens begins: it will come to the rows unrevoked now, in an
\* order SQL leaves open.
SweepStart(r) ==
  LET found == {t \in Tokens : row[t] = "live"} IN
  /\ At(r, {"idle"})
  /\ tx' = [tx EXCEPT ![r] = [Idle EXCEPT !.pc = "sweep", !.found = found, !.todo = found]]
  /\ UNCHANGED <<row, holder, present, share, deleting, born>>

\* Broken variant of SweepRow: a row somebody holds is passed over (SKIP LOCKED).
SweepRowSkip(r, t) ==
  /\ At(r, {"sweep"}) /\ t \in tx[r].todo
  /\ holder' = IF Free(t) /\ row[t] = "live" THEN [holder EXCEPT ![t] = r] ELSE holder
  /\ tx' = [tx EXCEPT ![r].todo = @ \ {t}]
  /\ UNCHANGED <<row, present, share, deleting, born>>

\* It comes to a row, waits until nobody holds it and looks at it again.
SweepRow(r, t) ==
  /\ At(r, {"sweep"}) /\ t \in tx[r].todo /\ Free(t)
  /\ holder' = IF row[t] = "live" THEN [holder EXCEPT ![t] = r] ELSE holder
  /\ tx' = [tx EXCEPT ![r].todo = @ \ {t}]
  /\ UNCHANGED <<row, present, share, deleting, born>>

\* The statement is through, and commits by itself.
SweepCommit(r) ==
  /\ At(r, {"sweep"}) /\ tx[r].todo = {}
  /\ row' = [t \in Tokens |-> IF t \in Held(r) THEN "revoked" ELSE row[t]]
  /\ Release(r)
  /\ UNCHANGED <<present, born>>

\* DELETE of the account, by whoever administers staff: it waits for the
\* inserts that refer to the account, and comes to its rows (ON DELETE CASCADE).
DeleteStart(r) ==
  /\ At(r, {"idle"}) /\ present /\ deleting = NoReq /\ share = {}
  /\ deleting' = r
  /\ tx' = [tx EXCEPT ![r] =
              [Idle EXCEPT !.pc = "cascade", !.todo = {t \in Tokens : row[t] # "none"}]]
  /\ UNCHANGED <<row, holder, present, share, born>>

CascadeRow(r, t) ==
  /\ At(r, {"cascade"}) /\ t \in tx[r].todo /\ Free(t)
  /\ holder' = [holder EXCEPT ![t] = r]
  /\ tx' = [tx EXCEPT ![r].todo = @ \ {t}]
  /\ UNCHANGED <<row, present, share, deleting, born>>

DeleteCommit(r) ==
  /\ At(r, {"cascade"}) /\ tx[r].todo = {}
  /\ present' = FALSE
  /\ row' = [t \in Tokens |-> IF t \in Held(r) THEN "none" ELSE row[t]]
  /\ Release(r)
  /\ UNCHANGED born

\* Any error, a cancelled request, a crash of api or of the database.
Rollback(r) ==
  /\ ~At(r, {"idle"})
  /\ Release(r)
  /\ UNCHANGED <<row, present, born>>

----------------------------------------------------------------------------
\* Whom a connection waits for: the holder of a row it wants, or the deletion of
\* the account.
Blockers(r) ==
  {q \in Reqs :
     \/ At(r, {"update", "revokeOne"}) /\ holder[tx[r].tok] = q
     \/ At(r, {"sweep", "cascade"}) /\ \E t \in tx[r].todo : holder[t] = q
     \/ At(r, {"insert"}) /\ deleting = q}

\* Connections each of which waits for another one of them.
Stuck(S) == S # {} /\ \A q \in S : Blockers(q) \intersect S # {}

\* r is in a circle, and does not only wait for one.
InCircle(r) ==
  \E S \in SUBSET Reqs : r \in S /\ Stuck(S) /\ \A T \in SUBSET S : Stuck(T) => T = S

Continue(r) ==
  \/ UpdateOld(r) \/ Insert(r) \/ Commit(r) \/ RevokeOne(r)
  \/ SweepCommit(r) \/ DeleteCommit(r)
  \/ \E t \in Tokens : SweepRow(r, t) \/ CascadeRow(r, t)

Arrive(r) ==
  \/ \E t \in Tokens : Check(r, t) \/ LoginInsert(r, t) \/ LogoutLookup(r, t)
  \/ SweepStart(r) \/ DeleteStart(r)

Next == \E r \in Reqs : Arrive(r) \/ Continue(r) \/ Rollback(r)

Spec == Init /\ [][Next]_vars

\* Locks are granted in the order they were asked for, so whoever can go on again
\* and again goes on; and the database breaks every circle.
Fairness ==
  /\ \A r \in Reqs : SF_vars(Continue(r))
  /\ WF_vars(\E r \in Reqs : InCircle(r) /\ Rollback(r))

FairSpec == Spec /\ Fairness

----------------------------------------------------------------------------
(* Properties.                                                              *)

TypeOK ==
  /\ row \in [Tokens -> {"none", "live", "revoked"}]
  /\ holder \in [Tokens -> Reqs \union {NoReq}]
  /\ present \in BOOLEAN
  /\ share \subseteq Reqs
  /\ deleting \in Reqs \union {NoReq}
  /\ tx \in [Reqs -> Work]
  /\ born \in [Tokens -> Birth]

\* The inductive invariant.  A row is that of an issued token; a token with a
\* successor is not live.
Recorded(t) ==
  /\ row[t] # "none" => Issued(t)
  /\ ~Issued(t) => born[t].root = t /\ born[t].parent = NoToken
  /\ LET p == born[t].parent IN p # NoToken => Issued(p) /\ row[p] # "live"

RowsOK == \A t \in Tokens : Recorded(t)

\* Why a transaction holds a row.
HeldOK ==
  \A t \in Tokens : LET r == holder[t] IN r # NoReq =>
    \/ At(r, {"insert", "commit"}) /\ tx[r].tok = t /\ row[t] = "live"
    \/ At(r, {"sweep"}) /\ t \in tx[r].found /\ row[t] = "live"
    \/ At(r, {"cascade"}) /\ row[t] # "none"

\* What a transaction can rely on: a row it has come to is its own or dead, and
\* a new token is its own.
Settled(r) ==
  /\ At(r, {"update", "insert", "commit", "revokeOne"}) => tx[r].tok \in Tokens /\ Issued(tx[r].tok)
  /\ At(r, {"insert", "commit"}) => LET t == tx[r].tok IN holder[t] = r \/ row[t] # "live"
  /\ At(r, {"commit"}) => tx[r].new \in Tokens /\ ~Issued(tx[r].new)
  /\ \A q \in Reqs : At(r, {"commit"}) /\ At(q, {"commit"}) /\ tx[r].new = tx[q].new => r = q
  /\ At(r, {"sweep"}) => tx[r].todo \subseteq tx[r].found
  /\ At(r, {"sweep"}) =>
       \A t \in tx[r].found : Issued(t) /\ (t \in tx[r].todo \/ holder[t] = r \/ row[t] # "live")
  /\ At(r, {"cascade"}) =>
       \A t \in Tokens : IF t \in tx[r].todo THEN row[t] # "none" ELSE holder[t] = r \/ row[t] = "none"

SettledOK == \A r \in Reqs : Settled(r)

\* Inserts that wait for their commit and the deletion of the account exclude
\* each other.
AccountOK ==
  /\ \A r \in Reqs : At(r, {"commit"}) => r \in share
  /\ \A r \in Reqs : At(r, {"cascade"}) => deleting = r
  /\ share # {} => present /\ deleting = NoReq
  /\ deleting # NoReq => present
  /\ ~present => \A t \in Tokens : row[t] = "none"

IInv == TypeOK /\ RowsOK /\ HeldOK /\ SettledOK /\ AccountOK

\* repo.go:198-200: "a crash between the two can never leave both the old and
\* new tokens simultaneously valid".  A token with a committed successor is not
\* live, whichever statements ran between the two of its rotation.
OldAndNewNeverBothValid ==
  \A t \in Tokens : LET p == born[t].parent IN
    p # NoToken /\ row[t] = "live" => row[p] # "live"

\* repo.go:200, "(or both invalid)".  A token stops being live with the commit of
\* a logout that wanted it or together with the birth of its successor, which is
\* live; never by half a rotation.
NeverBothInvalid ==
  [][\A t \in Tokens :
       row[t] = "live" /\ row'[t] = "revoked" =>
         \/ \E r \in Reqs : At(r, {"revokeOne"}) /\ tx[r].tok = t
         \/ \E r \in Reqs : At(r, {"sweep"}) /\ t \in tx[r].found
         \/ \E n \in Tokens : ~Issued(n) /\ born'[n].issued /\ born'[n].parent = t /\ row'[n] = "live"]_vars

\* migrations/00008:12: no session row outlives its account, though a rotation
\* or a login that found the account there may be half way when it is deleted.
NoOrphans == ~present => \A t \in Tokens : row[t] = "none"

\* The part of RevokeAllRefreshTokens' comment that holds: when the statement is
\* through, every row it found unrevoked is dead, also those it had to wait for,
\* whether their transactions committed or rolled back.
LogoutAllRevokesWhatItFound ==
  [][\A r \in Reqs :
       At(r, {"sweep"}) /\ SweepCommit(r) => \A t \in tx[r].found : row'[t] # "live"]_vars

\* Statement by statement, too, the table is a ledger of sessions: the commit of
\* a transaction is the step, and what comes before it leaves the ledger alone.
LedgerState(t) ==
  IF ~Issued(t) THEN "unused" ELSE IF row[t] = "live" THEN "live" ELSE "spent"

Ledger == INSTANCE SessionLedger WITH
  Admins <- {Account},
  Claimants <- Reqs,
  state <- [t \in Tokens |-> LedgerState(t)],
  owner <- [t \in Tokens |-> IF Issued(t) THEN Account ELSE NoAdmin],
  session <- [t \in Tokens |-> born[t].root],
  claim <- [r \in Reqs |-> IF Renewing(r) THEN tx[r].tok ELSE NoToken]

ImplementsLedger == Ledger!Spec

\* Every statement and every transaction ends, though they wait for each other's
\* rows in any order, and for the account's.
EveryTransactionEnds == \A r \in Reqs : ~At(r, {"idle"}) ~> At(r, {"idle"})

----------------------------------------------------------------------------
(* What a comment says and the code does not keep.                          *)

\* repo.go:183: "RevokeAllRefreshTokens revokes every active session for
\* adminUserID": of the sessions active when it begins, none is at its end.
LogoutAllEndsEverySession ==
  [][\A r \in Reqs :
       At(r, {"sweep"}) /\ SweepCommit(r) =>
         \A t \in Tokens : row'[t] = "live" =>
           \A u \in tx[r].found : born[t].root # born[u].root]_vars

=============================================================================
