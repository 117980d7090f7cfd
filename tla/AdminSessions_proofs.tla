----------------------- MODULE AdminSessions_proofs -----------------------
(* Theorems about AdminSessions, for any number of accounts, tokens and     *)
(* requests in flight and for any TTLs.                                     *)
EXTENDS AdminSessions, FiniteSetTheorems, TLAPS

USE DEF Issued, Root, Stored, Unrevoked, At, Renewing

----------------------------------------------------------------------------
(* The two statements that write the table keep it well typed.              *)

LEMMA RevokedTyped ==
  ASSUME TypeOK, NEW T
  PROVE  Revoked(rows, T) \in [Tokens -> Row \union {NoRow}]
  <1>1. now \in Nat
    BY TTLAssumption DEF TypeOK, Time
  <1>2. SUFFICES ASSUME NEW t \in Tokens, rows[t] # NoRow
                 PROVE [rows[t] EXCEPT !.revokedAt = now] \in Row
    BY DEF TypeOK, Revoked
  <1>3. rows[t] \in Row
    BY <1>2 DEF TypeOK
  <1>4. QED BY <1>1, <1>3 DEF Row

LEMMA InsertedTyped ==
  ASSUME NEW table \in [Tokens -> Row \union {NoRow}], NEW n \in Tokens,
         NEW a \in Admins, NEW at \in Nat
  PROVE  Inserted(table, n, a, at) \in [Tokens -> Row \union {NoRow}]
  BY TTLAssumption DEF Inserted, Row

LEMMA IdleTyped == IdleRequest \in Request
  BY DEF IdleRequest, Request, PCs, Statuses

(* The shapes in which the actions write a request's record.                *)

LEMMA LoginTyped ==
  ASSUME NEW a \in Admins, NEW i \in Nat
  PROVE  [IdleRequest EXCEPT !.pc = "insert", !.adm = a, !.since = i] \in Request
  BY DEF IdleRequest, Request, PCs, Statuses

LEMMA RefreshTyped ==
  ASSUME NEW a \in Admins, NEW t \in Tokens
  PROVE  [IdleRequest EXCEPT !.pc = "load", !.tok = t, !.adm = a] \in Request
  BY DEF IdleRequest, Request, PCs, Statuses

LEMMA LogoutTyped ==
  ASSUME NEW a \in Admins, NEW t \in Tokens
  PROVE  [IdleRequest EXCEPT !.pc = "logout", !.adm = a, !.tok = t] \in Request
  BY DEF IdleRequest, Request, PCs, Statuses

LEMMA LogoutAllTyped ==
  ASSUME NEW a \in Admins
  PROVE  [IdleRequest EXCEPT !.pc = "revokeAll", !.adm = a] \in Request
  BY DEF IdleRequest, Request, PCs, Statuses

LEMMA MeTyped ==
  ASSUME NEW a \in Admins
  PROVE  [IdleRequest EXCEPT !.pc = "me", !.adm = a] \in Request
  BY DEF IdleRequest, Request, PCs, Statuses

LEMMA GrantTyped ==
  ASSUME NEW x \in Request, NEW n \in Tokens
  PROVE  [x EXCEPT !.pc = "grant", !.new = n] \in Request
  BY DEF Request, PCs

LEMMA RotateTyped ==
  ASSUME NEW x \in Request, NEW i \in Nat
  PROVE  [x EXCEPT !.pc = "rotate", !.since = i] \in Request
  BY DEF Request, PCs

LEMMA RevokeOneTyped ==
  ASSUME NEW x \in Request PROVE [x EXCEPT !.pc = "revokeOne"] \in Request
  BY DEF Request, PCs

LEMMA ProfileTyped ==
  ASSUME NEW x \in Request, NEW s \in Statuses
  PROVE  [x EXCEPT !.pc = "profile", !.seen = s] \in Request
  BY DEF Request, PCs

LEMMA WriteTyped ==
  ASSUME TypeOK, NEW r \in Reqs, NEW x \in Request, req' = [req EXCEPT ![r] = x]
  PROVE  req' \in [Reqs -> Request]
  BY DEF TypeOK

LEMMA DoneTyped ==
  ASSUME TypeOK, NEW r \in Reqs, Done(r) PROVE req' \in [Reqs -> Request]
  BY IdleTyped, WriteTyped DEF Done

LEMMA TypeInit == Init => TypeOK
  BY IdleTyped, TTLAssumption DEF Init, TypeOK, Statuses, Time, Lineage

LEMMA TypeStep == TypeOK /\ RequestOK /\ [Next]_vars => TypeOK'
  <1> SUFFICES ASSUME TypeOK, RequestOK, [Next]_vars PROVE TypeOK'
    OBVIOUS
  <1>n. now \in Nat
    BY TTLAssumption DEF TypeOK, Time
  <1>r. \A r \in Reqs : req[r] \in Request
    BY DEF TypeOK
  <1>1. ASSUME NEW r \in Reqs, NEW a \in Admins, Login(r, a) PROVE TypeOK'
    <2>1. req' \in [Reqs -> Request]
      BY <1>1, <1>n, LoginTyped, WriteTyped DEF Login
    <2>2. QED BY <1>1, <2>1 DEF Login, TypeOK
  <1>2. ASSUME NEW r \in Reqs, LoginInsert(r) PROVE TypeOK'
    <2>1. CASE Done(r) /\ UNCHANGED <<rows, sess>>
      BY <1>2, <2>1, IdleTyped DEF LoginInsert, Done, TypeOK
    <2>2. ASSUME NEW n \in Tokens, NEW at \in req[r].since .. now,
                 rows' = Inserted(rows, n, req[r].adm, at),
                 sess' = [sess EXCEPT ![n] = [root |-> n, parent |-> NoToken, admin |-> req[r].adm]],
                 req' = [req EXCEPT ![r] = [@ EXCEPT !.pc = "grant", !.new = n]]
          PROVE TypeOK'
      <3>0. req[r].since \in Nat
        BY <1>r DEF Request
      <3>a. at \in Nat
        BY <1>n, <3>0
      <3>1. req[r].adm \in Admins
        BY <1>2 DEF LoginInsert, RequestOK, Remembers
      <3>2. rows' \in [Tokens -> Row \union {NoRow}]
        BY <2>2, <3>a, <3>1, InsertedTyped DEF TypeOK
      <3>3. sess' \in [Tokens -> Lineage]
        BY <2>2, <3>1 DEF TypeOK, Lineage
      <3>4. req' \in [Reqs -> Request]
        <4>1. [req[r] EXCEPT !.pc = "grant", !.new = n] \in Request
          BY <1>r, GrantTyped
        <4>2. QED BY <2>2, <4>1, WriteTyped
      <3>5. QED BY <1>2, <3>2, <3>3, <3>4 DEF LoginInsert, TypeOK
    <2>3. QED BY <1>2, <2>1, <2>2 DEF LoginInsert
  <1>3. ASSUME NEW r \in Reqs, NEW t \in known, RefreshCheck(r, t) PROVE TypeOK'
    <2>1. rows[t].admin \in Admins
      BY <1>3 DEF RefreshCheck, Live, TypeOK, Row
    <2>2. req' \in [Reqs -> Request]
      BY <1>3, <2>1, RefreshTyped, WriteTyped DEF RefreshCheck, TypeOK
    <2>3. QED BY <1>3, <2>2 DEF RefreshCheck, TypeOK, Lineage
  <1>4. ASSUME NEW r \in Reqs, RefreshLoad(r) PROVE TypeOK'
    <2>1. [req[r] EXCEPT !.pc = "rotate", !.since = now] \in Request
      BY <1>n, <1>r, RotateTyped
    <2>2. req' \in [Reqs -> Request]
      BY <1>4, <2>1, WriteTyped, DoneTyped DEF RefreshLoad
    <2>3. QED BY <1>4, <2>2 DEF RefreshLoad, TypeOK
  <1>5. ASSUME NEW r \in Reqs, Rotate(r) PROVE TypeOK'
    <2>1. CASE Done(r) /\ UNCHANGED <<rows, sess>>
      BY <1>5, <2>1, IdleTyped DEF Rotate, Done, TypeOK
    <2>2. ASSUME NEW n \in Tokens, NEW at \in req[r].since .. now,
                 rows' = Inserted(Revoked(rows, {req[r].tok}), n, req[r].adm, at),
                 sess' = [sess EXCEPT ![n] = [root |-> Root(req[r].tok), parent |-> req[r].tok,
                                              admin |-> req[r].adm]],
                 req' = [req EXCEPT ![r] = [@ EXCEPT !.pc = "grant", !.new = n]]
          PROVE TypeOK'
      <3>0. req[r].since \in Nat
        BY <1>r DEF Request
      <3>a. at \in Nat
        BY <1>n, <3>0
      <3>1. req[r].adm \in Admins /\ req[r].tok \in Tokens
        BY <1>5 DEF Rotate, RequestOK, Remembers
      <3>2. rows' \in [Tokens -> Row \union {NoRow}]
        BY <2>2, <3>a, <3>1, RevokedTyped, InsertedTyped
      <3>3. sess' \in [Tokens -> Lineage]
        BY <2>2, <3>1 DEF TypeOK, Lineage
      <3>4. req' \in [Reqs -> Request]
        <4>1. [req[r] EXCEPT !.pc = "grant", !.new = n] \in Request
          BY <1>r, GrantTyped
        <4>2. QED BY <2>2, <4>1, WriteTyped
      <3>5. QED BY <1>5, <3>2, <3>3, <3>4 DEF Rotate, TypeOK
    <2>3. QED BY <1>5, <2>1, <2>2 DEF Rotate
  <1>6. ASSUME NEW r \in Reqs, Grant(r) PROVE TypeOK'
    <2>1. req[r].adm \in Admins /\ req[r].new \in Tokens
      BY <1>6 DEF Grant, RequestOK, Remembers
    <2>2. QED BY <1>6, <1>n, <2>1, IdleTyped, TTLAssumption DEF Grant, Done, TypeOK
  <1>7. ASSUME NEW r \in Reqs, NEW a \in Admins, LogoutAuth(r, a) PROVE TypeOK'
    <2>1. req' \in [Reqs -> Request]
      BY <1>7, LogoutTyped, LogoutAllTyped, WriteTyped DEF LogoutAuth, TypeOK
    <2>2. QED BY <1>7, <2>1 DEF LogoutAuth, TypeOK
  <1>8. ASSUME NEW r \in Reqs, LogoutLookup(r) PROVE TypeOK'
    <2>1. [req[r] EXCEPT !.pc = "revokeOne"] \in Request
      BY <1>r, RevokeOneTyped
    <2>2. req' \in [Reqs -> Request]
      BY <1>8, <2>1, WriteTyped, DoneTyped DEF LogoutLookup
    <2>3. QED BY <1>8, <2>2 DEF LogoutLookup, TypeOK
  <1>9. ASSUME NEW r \in Reqs, LogoutOne(r) PROVE TypeOK'
    BY <1>9, IdleTyped, RevokedTyped DEF LogoutOne, Done, TypeOK
  <1>10. ASSUME NEW r \in Reqs, LogoutAll(r) PROVE TypeOK'
    BY <1>10, IdleTyped, RevokedTyped DEF LogoutAll, Done, TypeOK
  <1>11. ASSUME NEW r \in Reqs, NEW a \in Admins, MeAuth(r, a) PROVE TypeOK'
    <2>1. req' \in [Reqs -> Request]
      BY <1>11, MeTyped, WriteTyped DEF MeAuth, TypeOK
    <2>2. QED BY <1>11, <2>1 DEF MeAuth, TypeOK
  <1>12. ASSUME NEW r \in Reqs, MeLoad(r) PROVE TypeOK'
    <2>1. req[r].adm \in Admins
      BY <1>12 DEF MeLoad, RequestOK, Remembers
    <2>2. status[req[r].adm] \in Statuses
      BY <2>1 DEF TypeOK
    <2>3. [req[r] EXCEPT !.pc = "profile", !.seen = status[req[r].adm]] \in Request
      BY <1>r, <2>2, ProfileTyped
    <2>4. req' \in [Reqs -> Request]
      BY <1>12, <2>3, WriteTyped, DoneTyped DEF MeLoad
    <2>5. QED BY <1>12, <2>4 DEF MeLoad, TypeOK
  <1>13. ASSUME NEW r \in Reqs, MeAnswer(r) \/ Fail(r) PROVE TypeOK'
    BY <1>13, IdleTyped DEF MeAnswer, Fail, Done, TypeOK
  <1>14. ASSUME NEW a \in Admins, Deactivate(a) \/ Activate(a) \/ Delete(a) PROVE TypeOK'
    BY <1>14 DEF Deactivate, Activate, Delete, TypeOK, Statuses
  <1>15. CASE Tick
    BY <1>15, <1>n, TTLAssumption DEF Tick, TypeOK, Time
  <1>16. CASE UNCHANGED vars
    BY <1>16 DEF vars, TypeOK
  <1>17. QED
    BY <1>1, <1>2, <1>3, <1>4, <1>5, <1>6, <1>7, <1>8, <1>9, <1>10, <1>11, <1>12, <1>13,
       <1>14, <1>15, <1>16
       DEF Next, Arrive, Continue, Administer, Refuse

----------------------------------------------------------------------------
(* What a request remembers stays true: tokens are issued once and keep     *)
(* their account.                                                           *)

LEMMA IdleRemembers ==
  ASSUME NEW q \in Reqs, req'[q] = IdleRequest PROVE Remembers(q)'
  BY DEF IdleRequest, Remembers

LEMMA DoneRemembers ==
  ASSUME TypeOK, NEW r \in Reqs, Done(r) PROVE Remembers(r)'
  BY IdleRemembers DEF Done, TypeOK

\* sess only ever gets a lineage for a token that had none.
SessGrows == \A t \in Tokens : Issued(t) => sess'[t] = sess[t]

LEMMA OtherRemembers ==
  ASSUME SessGrows, NEW q \in Reqs, Remembers(q), req'[q] = req[q] PROVE Remembers(q)'
  BY SentinelAssumption DEF SessGrows, Remembers

LEMMA InsertGrows ==
  ASSUME TypeOK, NEW n \in {t \in Tokens : ~Issued(t)}, NEW x,
         sess' = [sess EXCEPT ![n] = x]
  PROVE  SessGrows
  BY DEF TypeOK, SessGrows

LEMMA SessStep ==
  ASSUME TypeOK, [Next]_vars PROVE SessGrows
  <1>1. ASSUME NEW r \in Reqs, LoginInsert(r) PROVE SessGrows
    BY <1>1, InsertGrows DEF LoginInsert, SessGrows
  <1>2. ASSUME NEW r \in Reqs, Rotate(r) PROVE SessGrows
    BY <1>2, InsertGrows DEF Rotate, SessGrows
  <1>3. CASE UNCHANGED sess
    BY <1>3 DEF SessGrows
  <1>4. QED
    BY <1>1, <1>2, <1>3
       DEF Next, Arrive, Continue, Administer, Refuse, vars, Login, RefreshCheck, RefreshLoad,
           Grant, LogoutAuth, LogoutLookup, LogoutOne, LogoutAll, MeAuth, MeLoad, MeAnswer,
           Fail, Deactivate, Activate, Delete, Tick

LEMMA RequestStep ==
  ASSUME TypeOK, LineageOK, RequestOK, [Next]_vars PROVE RequestOK'
  <1> SUFFICES ASSUME NEW q \in Reqs PROVE Remembers(q)'
    BY DEF RequestOK
  <1>0. SessGrows /\ Remembers(q)
    BY SessStep DEF RequestOK
  <1>r. req \in [Reqs -> Request] /\ req[q] \in Request
    BY DEF TypeOK
  <1>o. ASSUME req'[q] = req[q] PROVE Remembers(q)'
    BY <1>0, <1>o, OtherRemembers
  <1>1. ASSUME NEW r \in Reqs, NEW a \in Admins, Login(r, a) PROVE Remembers(q)'
    <2>1. CASE q = r
      BY <1>1, <1>r, <2>1 DEF Login, Remembers, IdleRequest
    <2>2. QED BY <1>1, <1>o, <1>r, <2>1 DEF Login
  <1>2. ASSUME NEW r \in Reqs, LoginInsert(r) PROVE Remembers(q)'
    <2>1. CASE q = r
      <3>1. req[r].adm \in Admins
        BY <1>0, <1>2, <2>1 DEF LoginInsert, Remembers
      <3>2. ASSUME NEW n \in Tokens,
                   sess' = [sess EXCEPT ![n] = [root |-> n, parent |-> NoToken, admin |-> req[r].adm]],
                   req' = [req EXCEPT ![r] = [@ EXCEPT !.pc = "grant", !.new = n]]
            PROVE Remembers(q)'
        BY <1>r, <2>1, <3>1, <3>2 DEF Remembers, TypeOK, Request
      <3>3. QED BY <1>2, <2>1, <3>2, DoneRemembers DEF LoginInsert
    <2>2. QED BY <1>2, <1>o, <1>r, <2>1 DEF LoginInsert, Done
  <1>3. ASSUME NEW r \in Reqs, NEW t \in known, RefreshCheck(r, t) PROVE Remembers(q)'
    <2>1. t \in Tokens /\ rows[t].admin \in Admins /\ rows[t].admin = sess[t].admin
      BY <1>3 DEF RefreshCheck, Live, TypeOK, LineageOK, Filed, Row
    <2>2. CASE q = r
      BY <1>3, <1>r, <2>1, <2>2 DEF RefreshCheck, Remembers, IdleRequest
    <2>3. QED BY <1>3, <1>o, <1>r, <2>2 DEF RefreshCheck
  <1>4. ASSUME NEW r \in Reqs, RefreshLoad(r) PROVE Remembers(q)'
    <2>1. CASE q = r
      <3>1. ASSUME req' = [req EXCEPT ![r] = [@ EXCEPT !.pc = "rotate", !.since = now]]
            PROVE Remembers(q)'
        BY <1>0, <1>4, <1>r, <2>1, <3>1 DEF RefreshLoad, Remembers, Request
      <3>2. QED BY <1>4, <2>1, <3>1, DoneRemembers DEF RefreshLoad
    <2>2. QED BY <1>4, <1>o, <1>r, <2>1 DEF RefreshLoad, Done
  <1>5. ASSUME NEW r \in Reqs, Rotate(r) PROVE Remembers(q)'
    <2>1. CASE q = r
      <3>1. req[r].adm \in Admins
        BY <1>0, <1>5, <2>1 DEF Rotate, Remembers
      <3>2. ASSUME NEW n \in Tokens,
                   sess' = [sess EXCEPT ![n] = [root |-> Root(req[r].tok), parent |-> req[r].tok,
                                                admin |-> req[r].adm]],
                   req' = [req EXCEPT ![r] = [@ EXCEPT !.pc = "grant", !.new = n]]
            PROVE Remembers(q)'
        BY <1>r, <2>1, <3>1, <3>2 DEF Remembers, TypeOK, Request
      <3>3. QED BY <1>5, <2>1, <3>2, DoneRemembers DEF Rotate
    <2>2. QED BY <1>5, <1>o, <1>r, <2>1 DEF Rotate, Done
  <1>6. ASSUME NEW r \in Reqs, NEW a \in Admins, LogoutAuth(r, a) PROVE Remembers(q)'
    <2>1. CASE q = r
      <3>1. CASE req' = [req EXCEPT ![r] = [IdleRequest EXCEPT !.pc = "revokeAll", !.adm = a]]
        BY <1>r, <2>1, <3>1 DEF Remembers, IdleRequest
      <3>2. ASSUME NEW t \in Tokens,
                   req' = [req EXCEPT ![r] = [IdleRequest EXCEPT !.pc = "logout", !.adm = a, !.tok = t]]
            PROVE Remembers(q)'
        BY <1>r, <2>1, <3>2 DEF Remembers, IdleRequest
      <3>3. QED BY <1>6, <3>1, <3>2 DEF LogoutAuth, TypeOK
    <2>2. QED BY <1>6, <1>o, <1>r, <2>1 DEF LogoutAuth
  <1>7. ASSUME NEW r \in Reqs, LogoutLookup(r) PROVE Remembers(q)'
    <2>1. CASE q = r
      <3>1. ASSUME req' = [req EXCEPT ![r].pc = "revokeOne"],
                   Stored(req[r].tok), rows[req[r].tok].admin = req[r].adm
            PROVE Remembers(q)'
        <4>1. req[r].tok \in Tokens /\ req[r].adm \in Admins
          BY <1>0, <1>7, <2>1 DEF LogoutLookup, Remembers
        <4>2. sess[req[r].tok].admin = req[r].adm /\ sess' = sess
          BY <1>7, <3>1, <4>1 DEF LineageOK, Filed, LogoutLookup
        <4>3. QED BY <1>r, <2>1, <3>1, <4>1, <4>2 DEF Remembers, Request
      <3>2. QED BY <1>7, <2>1, <3>1, DoneRemembers DEF LogoutLookup
    <2>2. QED BY <1>7, <1>o, <1>r, <2>1 DEF LogoutLookup, Done
  <1>8. ASSUME NEW r \in Reqs, NEW a \in Admins, MeAuth(r, a) PROVE Remembers(q)'
    <2>1. CASE q = r
      BY <1>8, <1>r, <2>1 DEF MeAuth, Remembers, IdleRequest
    <2>2. QED BY <1>8, <1>o, <1>r, <2>1 DEF MeAuth
  <1>9. ASSUME NEW r \in Reqs, MeLoad(r) PROVE Remembers(q)'
    <2>1. CASE q = r
      <3>1. ASSUME NEW st, req' = [req EXCEPT ![r] = [@ EXCEPT !.pc = "profile", !.seen = st]]
            PROVE Remembers(q)'
        BY <1>0, <1>9, <1>r, <2>1, <3>1 DEF MeLoad, Remembers, Request
      <3>2. QED BY <1>9, <2>1, <3>1, DoneRemembers DEF MeLoad
    <2>2. QED BY <1>9, <1>o, <1>r, <2>1 DEF MeLoad, Done
  <1>10. ASSUME NEW r \in Reqs, Done(r) PROVE Remembers(q)'
    BY <1>10, <1>o, <1>r, DoneRemembers DEF Done
  <1>11. CASE UNCHANGED req
    BY <1>11, <1>o
  <1>12. QED
    BY <1>1, <1>2, <1>3, <1>4, <1>5, <1>6, <1>7, <1>8, <1>9, <1>10, <1>11
       DEF Next, Arrive, Continue, Administer, Refuse, vars, Grant, LogoutOne, LogoutAll,
           MeAnswer, Fail, Deactivate, Activate, Delete, Tick

----------------------------------------------------------------------------
(* Row by row, what the two statements do to a table.                       *)

LEMMA RevokedRow ==
  ASSUME NEW table \in [Tokens -> Row \union {NoRow}], now \in Nat, NEW T, NEW t \in Tokens
  PROVE  /\ Revoked(table, T)[t] = NoRow <=> table[t] = NoRow
         /\ table[t] # NoRow =>
              /\ Revoked(table, T)[t].admin = table[t].admin
              /\ Revoked(table, T)[t].expires = table[t].expires
              /\ Revoked(table, T)[t].revokedAt = Null => table[t].revokedAt = Null /\ t \notin T
              /\ table[t].revokedAt # Null => Revoked(table, T)[t] = table[t]
         /\ t \notin T => Revoked(table, T)[t] = table[t]
  <1>1. CASE t \in T /\ table[t] # NoRow /\ table[t].revokedAt = Null
    <2>1. table[t] \in Row
      BY <1>1
    <2>2. Revoked(table, T)[t] = [table[t] EXCEPT !.revokedAt = now]
      BY <1>1 DEF Revoked
    <2>3. [table[t] EXCEPT !.revokedAt = now] \in Row
      BY <2>1 DEF Row
    <2>4. Revoked(table, T)[t] # NoRow
      BY <2>2, <2>3, RowAssumption
    <2>5. now # Null
      BY SentinelAssumption
    <2>6. QED BY <1>1, <2>1, <2>2, <2>4, <2>5 DEF Row
  <1>2. CASE ~(t \in T /\ table[t] # NoRow /\ table[t].revokedAt = Null)
    BY <1>2 DEF Revoked
  <1>3. QED BY <1>1, <1>2

LEMMA InsertedRow ==
  ASSUME NEW table \in [Tokens -> Row \union {NoRow}], NEW n \in Tokens, NEW a \in Admins,
         NEW at \in Nat, NEW t \in Tokens
  PROVE  /\ t # n => Inserted(table, n, a, at)[t] = table[t]
         /\ Inserted(table, n, a, at)[n] # NoRow
         /\ Inserted(table, n, a, at)[n].admin = a
         /\ Inserted(table, n, a, at)[n].revokedAt = Null
  <1>1. [admin |-> a, expires |-> at + RefreshTTL, revokedAt |-> Null] \in Row
    BY TTLAssumption DEF Row
  <1>2. QED BY <1>1, RowAssumption DEF Inserted

----------------------------------------------------------------------------
(* A token's row and its place in its session.                              *)

LEMMA RevokedLineage ==
  ASSUME TypeOK, LineageOK, NEW T, rows' = Revoked(rows, T), UNCHANGED <<sess, status>>
  PROVE  LineageOK'
  <1>1. now \in Nat
    BY TTLAssumption DEF TypeOK, Time
  <1>2. \A t \in Tokens : /\ Stored(t)' <=> Stored(t)
                          /\ Stored(t) => rows'[t].admin = rows[t].admin
                          /\ Unrevoked(t)' => Unrevoked(t)
    BY <1>1, RevokedRow DEF TypeOK
  <1>3. SUFFICES ASSUME NEW t \in Tokens PROVE Filed(t)'
    BY DEF LineageOK
  <1>4. Filed(t)
    BY DEF LineageOK
  <1>5. sess[t].parent \in Tokens \union {NoToken}
    BY DEF TypeOK, Lineage
  <1>6. QED BY <1>2, <1>4, <1>5 DEF Filed

\* Inserting fresh n into table, whose rows are those of the store but for some
\* revocations, under a lineage that fits.
LEMMA InsertedLineage ==
  ASSUME TypeOK, LineageOK, NEW T, NEW a \in Admins, NEW at \in Nat,
         NEW n \in Tokens, ~Issued(n), status[a] # "deleted",
         NEW root \in Tokens, NEW parent \in Tokens \union {NoToken},
         root = n \/ (Issued(root) /\ sess[root].admin = a),
         parent # NoToken => Issued(parent) /\ parent \in T,
         rows' = Inserted(Revoked(rows, T), n, a, at),
         sess' = [sess EXCEPT ![n] = [root |-> root, parent |-> parent, admin |-> a]],
         UNCHANGED status
  PROVE  LineageOK'
  <1>1. now \in Nat
    BY TTLAssumption DEF TypeOK, Time
  <1>2. Revoked(rows, T) \in [Tokens -> Row \union {NoRow}]
    BY RevokedTyped
  <1>3. /\ \A t \in Tokens \ {n} : rows'[t] = Revoked(rows, T)[t]
        /\ rows'[n] # NoRow /\ rows'[n].admin = a
    BY <1>2, InsertedRow
  <1>4. \A t \in Tokens \ {n} :
          /\ Stored(t)' <=> Stored(t)
          /\ Stored(t) => rows'[t].admin = rows[t].admin
          /\ Unrevoked(t)' => Unrevoked(t) /\ t \notin T
    BY <1>1, <1>3, RevokedRow DEF TypeOK
  <1>5. /\ \A t \in Tokens \ {n} : sess'[t] = sess[t]
        /\ sess'[n] = [root |-> root, parent |-> parent, admin |-> a]
    BY DEF TypeOK
  <1>6. SUFFICES ASSUME NEW t \in Tokens PROVE Filed(t)'
    BY DEF LineageOK
  <1>7. a # NoAdmin
    BY SentinelAssumption
  <1>8. CASE t = n
    <2>1. parent # NoToken => parent # n /\ parent \in Tokens
      BY DEF Filed
    <2>2. QED BY <1>3, <1>4, <1>5, <1>7, <1>8, <2>1 DEF Filed
  <1>9. CASE t # n
    <2>1. Filed(t) /\ sess[t].parent \in Tokens \union {NoToken} /\ Root(t) \in Tokens
      BY DEF LineageOK, TypeOK, Lineage
    <2>2. Issued(t) => Root(t) # n
      BY <2>1 DEF Filed
    <2>3. sess[t].parent # NoToken => sess[t].parent # n
      BY <2>1 DEF Filed
    <2>4. QED BY <1>4, <1>5, <1>9, <2>1, <2>2, <2>3 DEF Filed
  <1>10. QED BY <1>8, <1>9

LEMMA LineageStep ==
  ASSUME TypeOK, LineageOK, RequestOK, [Next]_vars PROVE LineageOK'
  <1>n. now \in Nat /\ \A r \in Reqs : req[r].since \in Nat
    BY TTLAssumption DEF TypeOK, Time, Request
  <1>u. CASE UNCHANGED <<rows, sess, status>>
    BY <1>u DEF LineageOK, Filed
  <1>1. ASSUME NEW r \in Reqs, LoginInsert(r) PROVE LineageOK'
    <2>1. req[r].adm \in Admins
      BY <1>1 DEF LoginInsert, RequestOK, Remembers
    <2>2. ASSUME NEW n \in Tokens, ~Issued(n), NEW at \in req[r].since .. now,
                 rows' = Inserted(rows, n, req[r].adm, at),
                 sess' = [sess EXCEPT ![n] = [root |-> n, parent |-> NoToken, admin |-> req[r].adm]],
                 status[req[r].adm] # "deleted"
          PROVE LineageOK'
      <3>1. at \in Nat
        BY <1>n
      <3>2. rows = Revoked(rows, {})
        BY DEF Revoked, TypeOK
      <3>3. UNCHANGED status
        BY <1>1 DEF LoginInsert
      <3>4. QED BY <2>1, <2>2, <3>1, <3>2, <3>3, InsertedLineage
    <2>3. QED BY <1>1, <1>u, <2>2 DEF LoginInsert
  <1>2. ASSUME NEW r \in Reqs, Rotate(r) PROVE LineageOK'
    <2>1. /\ req[r].adm \in Admins /\ req[r].tok \in Tokens
          /\ sess[req[r].tok].admin = req[r].adm
      BY <1>2 DEF Rotate, RequestOK, Remembers
    <2>2. /\ Root(req[r].tok) \in Tokens /\ Issued(req[r].tok)
          /\ Issued(Root(req[r].tok)) /\ sess[Root(req[r].tok)].admin = req[r].adm
      BY <2>1, SentinelAssumption DEF LineageOK, Filed, TypeOK, Lineage
    <2>3. ASSUME NEW n \in Tokens, ~Issued(n), NEW at \in req[r].since .. now,
                 rows' = Inserted(Revoked(rows, {req[r].tok}), n, req[r].adm, at),
                 sess' = [sess EXCEPT ![n] = [root |-> Root(req[r].tok), parent |-> req[r].tok,
                                              admin |-> req[r].adm]],
                 status[req[r].adm] # "deleted"
          PROVE LineageOK'
      <3>1. at \in Nat
        BY <1>n
      <3>2. UNCHANGED status
        BY <1>2 DEF Rotate
      <3>3. QED BY <2>1, <2>2, <2>3, <3>1, <3>2, InsertedLineage
    <2>4. QED BY <1>2, <1>u, <2>3 DEF Rotate
  <1>3. ASSUME NEW r \in Reqs, LogoutOne(r) \/ LogoutAll(r) PROVE LineageOK'
    BY <1>3, RevokedLineage DEF LogoutOne, LogoutAll
  <1>4. ASSUME NEW a \in Admins, Deactivate(a) \/ Activate(a) PROVE LineageOK'
    <2>1. /\ \A b \in Admins : status[b] = "deleted" => status'[b] = "deleted"
          /\ UNCHANGED <<rows, sess>>
      BY <1>4 DEF Deactivate, Activate, TypeOK
    <2>2. SUFFICES ASSUME NEW t \in Tokens PROVE Filed(t)'
      BY DEF LineageOK
    <2>3. Filed(t) /\ sess[t].admin \in Admins \union {NoAdmin}
      BY DEF LineageOK, TypeOK, Lineage
    <2>4. QED BY <2>1, <2>3 DEF Filed
  <1>5. ASSUME NEW a \in Admins, Delete(a) PROVE LineageOK'
    <2>1. /\ \A t \in Tokens : rows'[t] = IF Stored(t) /\ rows[t].admin = a THEN NoRow ELSE rows[t]
          /\ status' = [status EXCEPT ![a] = "deleted"] /\ sess' = sess
      BY <1>5 DEF Delete
    <2>2. SUFFICES ASSUME NEW t \in Tokens PROVE Filed(t)'
      BY DEF LineageOK
    <2>3. Filed(t) /\ sess[t].parent \in Tokens \union {NoToken}
      BY DEF LineageOK, TypeOK, Lineage
    <2>4. Issued(t) => Stored(t)' \/ status'[sess[t].admin] = "deleted"
      BY <2>1, <2>3 DEF Filed, TypeOK, Lineage
    <2>5. QED BY <2>1, <2>3, <2>4 DEF Filed
  <1>6. QED
    BY <1>u, <1>1, <1>2, <1>3, <1>4, <1>5
       DEF Next, Arrive, Continue, Administer, Refuse, vars, Login, RefreshCheck, RefreshLoad,
           Grant, LogoutAuth, LogoutLookup, MeAuth, MeLoad, MeAnswer, Fail, Tick

----------------------------------------------------------------------------
(* Sessions that were never raced.                                          *)

\* No token becomes usable, and no row changes but to disappear or be revoked.
TableShrinks ==
  \A t \in Tokens : Stored(t)' =>
    /\ Stored(t)
    /\ rows'[t].admin = rows[t].admin
    /\ rows'[t].expires = rows[t].expires
    /\ rows[t].revokedAt # Null => rows'[t].revokedAt = rows[t].revokedAt

NoNewRefresh ==
  \A r \in Reqs : Renewing(r)' => Renewing(r) /\ req'[r].tok = req[r].tok

\* What every step does but LoginInsert, RefreshCheck and Rotate.
Quiet ==
  /\ UNCHANGED <<sess, raced>>
  /\ TableShrinks
  /\ NoNewRefresh
  /\ known' \subseteq {t \in Tokens : Issued(t)}
  /\ now \in Nat /\ now' \in Nat /\ now' >= now

LEMMA SerialQuiet ==
  ASSUME SerialOK, Quiet PROVE SerialOK'
  <1> USE DEF Quiet, NoNewRefresh
  <1>0. \A t \in Tokens : Unrevoked(t)' => Unrevoked(t)
    BY DEF TableShrinks
  <1>1. HistoryOK'
    BY DEF SerialOK, HistoryOK
  <1>2. OneToken'
    BY <1>0 DEF SerialOK, OneToken, Serial
  <1>3. RefreshHoldsToken'
    <2> SUFFICES ASSUME NEW r \in Reqs, NEW t \in Tokens, Renewing(r)',
                        Root(req[r].tok)' = Root(t)', Serial(Root(t))', Unrevoked(t)'
                 PROVE t = req'[r].tok
      BY DEF RefreshHoldsToken
    <2>1. Renewing(r) /\ req'[r].tok = req[r].tok /\ Unrevoked(t)
      BY <1>0
    <2>2. Root(req[r].tok) = Root(t) /\ Serial(Root(t))
      BY <2>1 DEF Serial
    <2>3. QED BY <2>1, <2>2 DEF SerialOK, RefreshHoldsToken
  <1>4. OneRefresh'
    <2> SUFFICES ASSUME NEW r \in Reqs, NEW q \in Reqs, Renewing(r)', Renewing(q)',
                        Root(req[r].tok)' = Root(req[q].tok)', Serial(Root(req[r].tok))'
                 PROVE r = q
      BY DEF OneRefresh
    <2>1. /\ Renewing(r) /\ req'[r].tok = req[r].tok
          /\ Renewing(q) /\ req'[q].tok = req[q].tok
      OBVIOUS
    <2>2. Root(req[r].tok) = Root(req[q].tok) /\ Serial(Root(req[r].tok))
      BY <2>1 DEF Serial
    <2>3. QED BY <2>1, <2>2 DEF SerialOK, OneRefresh
  <1>5. QED BY <1>1, <1>2, <1>3, <1>4 DEF SerialOK

LEMMA DoneNoRefresh ==
  ASSUME TypeOK, NEW r \in Reqs, Done(r) PROVE NoNewRefresh
  BY DEF Done, IdleRequest, TypeOK, NoNewRefresh

LEMMA QuietRequest ==
  ASSUME TypeOK, SerialOK, UNCHANGED <<rows, sess, raced, known, now>>, NoNewRefresh
  PROVE  Quiet
  BY TTLAssumption DEF TypeOK, Time, SerialOK, HistoryOK, Quiet, TableShrinks

LEMMA QuietDone ==
  ASSUME TypeOK, SerialOK, UNCHANGED <<rows, sess, raced, known, now>>, NEW r \in Reqs, Done(r)
  PROVE  Quiet
  BY DoneNoRefresh, QuietRequest

\* A login: the fresh token starts a session in which there is nothing else.
LEMMA SerialLogin ==
  ASSUME TypeOK, LineageOK, RequestOK, SerialOK, NEW r \in Reqs, LoginInsert(r)
  PROVE  SerialOK'
  <1>1. CASE Done(r) /\ UNCHANGED <<rows, sess>>
    <2>1. Quiet
      BY <1>1, QuietDone DEF LoginInsert
    <2>2. QED BY <2>1, SerialQuiet
  <1>2. ASSUME NEW n \in Tokens, ~Issued(n), NEW at \in req[r].since .. now,
               rows' = Inserted(rows, n, req[r].adm, at),
               sess' = [sess EXCEPT ![n] = [root |-> n, parent |-> NoToken, admin |-> req[r].adm]],
               req' = [req EXCEPT ![r] = [@ EXCEPT !.pc = "grant", !.new = n]]
        PROVE SerialOK'
    <2>1. UNCHANGED <<known, raced>> /\ req[r].adm \in Admins
      BY DEF LoginInsert, RequestOK, Remembers
    <2>2. \A t \in Tokens \ {n} : sess'[t] = sess[t] /\ rows'[t] = rows[t]
      BY <1>2 DEF Inserted, TypeOK
    <2>3. sess'[n].root = n /\ sess'[n].admin # NoAdmin
      BY <1>2, <2>1, SentinelAssumption DEF TypeOK
    <2>4. \A q \in Reqs : Renewing(q)' => Renewing(q) /\ req'[q].tok = req[q].tok
      <3>1. \A q \in Reqs \ {r} : req'[q] = req[q]
        BY <1>2 DEF TypeOK
      <3>2. req'[r].pc = "grant"
        BY <1>2 DEF TypeOK, Request
      <3>3. QED BY <3>1, <3>2
    <2>5. \A t \in Tokens \ {n} : Root(t) # n \/ ~Stored(t)
      BY <1>2 DEF LineageOK, Filed
    <2>6. \A q \in Reqs : Renewing(q) => /\ req[q].tok \in Tokens \ {n}
                                       /\ Root(req[q].tok) # n
      BY <1>2, SentinelAssumption DEF RequestOK, Remembers, LineageOK, Filed
    <2>7. HistoryOK'
      BY <1>2, <2>1, <2>2, <2>3 DEF SerialOK, HistoryOK
    <2>8. OneToken'
      BY <2>1, <2>2, <2>3, <2>5 DEF SerialOK, OneToken, Serial
    <2>9. RefreshHoldsToken'
      <3> SUFFICES ASSUME NEW q \in Reqs, NEW t \in Tokens, Renewing(q)',
                          Root(req[q].tok)' = Root(t)', Serial(Root(t))', Unrevoked(t)'
                   PROVE t = req'[q].tok
        BY DEF RefreshHoldsToken
      <3>1. /\ Renewing(q) /\ req'[q].tok = req[q].tok /\ req[q].tok \in Tokens \ {n}
            /\ Root(req[q].tok) # n
        BY <2>4, <2>6
      <3>2. t # n
        BY <2>2, <2>3, <3>1
      <3>3. Root(req[q].tok) = Root(t) /\ Serial(Root(t)) /\ Unrevoked(t)
        BY <2>1, <2>2, <3>1, <3>2 DEF Serial
      <3>4. QED BY <3>1, <3>3 DEF SerialOK, RefreshHoldsToken
    <2>10. OneRefresh'
      BY <2>1, <2>2, <2>4, <2>6 DEF SerialOK, OneRefresh, Serial
    <2>11. QED BY <2>7, <2>8, <2>9, <2>10 DEF SerialOK
  <1>3. QED BY <1>1, <1>2 DEF LoginInsert

\* A refresh begins: either the session is marked as raced, or it is the only
\* one, and the token it found live is the session's one token.
LEMMA SerialCheck ==
  ASSUME TypeOK, LineageOK, RequestOK, SerialOK, NEW r \in Reqs, NEW t \in known,
         RefreshCheck(r, t)
  PROVE  SerialOK'
  <1>1. UNCHANGED <<rows, sess, known>> /\ Unrevoked(t) /\ t \in Tokens /\ raced \subseteq raced'
    BY DEF RefreshCheck, Live, TypeOK
  <1>2. \A q \in Reqs \ {r} : req'[q] = req[q]
    BY DEF RefreshCheck, TypeOK
  <1>3. req'[r].tok = t
    BY DEF RefreshCheck, TypeOK, IdleRequest
  <1>4. ~Renewing(r)
    BY DEF RefreshCheck
  <1>5. Issued(t) /\ Issued(Root(t)) /\ Root(t) \in Tokens
    BY <1>1 DEF LineageOK, Filed, TypeOK, Lineage
  <1>6. Root(t) \notin raced' => \A q \in Reqs : Renewing(q) => Root(req[q].tok) # Root(t)
    BY DEF RefreshCheck
  <1>7. HistoryOK'
    BY <1>1, <1>5 DEF RefreshCheck, SerialOK, HistoryOK
  <1>8. OneToken'
    BY <1>1 DEF SerialOK, OneToken, Serial
  <1>9. RefreshHoldsToken'
    <2> SUFFICES ASSUME NEW q \in Reqs, NEW u \in Tokens, Renewing(q)',
                        Root(req[q].tok)' = Root(u)', Serial(Root(u))', Unrevoked(u)'
                 PROVE u = req'[q].tok
      BY DEF RefreshHoldsToken
    <2>1. CASE q = r
      BY <1>1, <1>3, <2>1 DEF SerialOK, OneToken, Serial
    <2>2. CASE q # r
      BY <1>1, <1>2, <2>2 DEF SerialOK, RefreshHoldsToken, Serial
    <2>3. QED BY <2>1, <2>2
  <1>10. OneRefresh'
    BY <1>1, <1>2, <1>3, <1>6 DEF SerialOK, OneRefresh, Serial
  <1>11. QED BY <1>7, <1>8, <1>9, <1>10 DEF SerialOK

\* A rotation: the one refresh of the session replaces the one token by another.
LEMMA SerialRotate ==
  ASSUME TypeOK, LineageOK, RequestOK, SerialOK, NEW r \in Reqs, Rotate(r)
  PROVE  SerialOK'
  <1>n. now \in Nat
    BY TTLAssumption DEF TypeOK, Time
  <1>1. CASE Done(r) /\ UNCHANGED <<rows, sess>>
    <2>1. Quiet
      BY <1>1, QuietDone DEF Rotate
    <2>2. QED BY <2>1, SerialQuiet
  <1>2. ASSUME NEW n \in Tokens, ~Issued(n), NEW at \in req[r].since .. now,
               rows' = Inserted(Revoked(rows, {req[r].tok}), n, req[r].adm, at),
               sess' = [sess EXCEPT ![n] = [root |-> Root(req[r].tok), parent |-> req[r].tok,
                                            admin |-> req[r].adm]],
               req' = [req EXCEPT ![r] = [@ EXCEPT !.pc = "grant", !.new = n]]
        PROVE SerialOK'
    <2> DEFINE old == req[r].tok
    <2>1. /\ UNCHANGED <<known, raced>> /\ req[r].adm \in Admins
          /\ old \in Tokens /\ Issued(old) /\ Renewing(r)
      BY SentinelAssumption DEF Rotate, RequestOK, Remembers
    <2>2. \A t \in Tokens \ {n} :
            sess'[t] = sess[t] /\ (Unrevoked(t)' => Unrevoked(t) /\ t # old)
      <3> DEFINE table == Revoked(rows, {old})
      <3>1. \A t \in Tokens \ {n} : rows'[t] = table[t]
        BY <1>2, <2>1, RevokedTyped DEF Inserted
      <3>2. \A t \in Tokens \ {n} : sess'[t] = sess[t]
        BY <1>2 DEF TypeOK
      <3>3. ASSUME NEW t \in Tokens, table[t] # NoRow, table[t].revokedAt = Null
            PROVE  Unrevoked(t) /\ t # old
        BY <1>n, <3>3, RevokedRow DEF TypeOK
      <3> HIDE DEF table
      <3>4. QED BY <3>1, <3>2, <3>3
    <2>3. sess'[n].root = Root(old) /\ sess'[n].admin # NoAdmin
      BY <1>2, <2>1, SentinelAssumption DEF TypeOK
    <2>4. \A q \in Reqs : Renewing(q)' => Renewing(q) /\ q # r /\ req'[q].tok = req[q].tok
      <3>1. \A q \in Reqs \ {r} : req'[q] = req[q]
        BY <1>2 DEF TypeOK
      <3>2. req'[r].pc = "grant"
        BY <1>2 DEF TypeOK, Request
      <3>3. QED BY <3>1, <3>2
    <2>5. \A q \in Reqs : Renewing(q) => req[q].tok \in Tokens \ {n}
      BY <1>2, SentinelAssumption DEF RequestOK, Remembers
    <2>6. HistoryOK'
      BY <1>2, <2>1, <2>2, <2>3 DEF SerialOK, HistoryOK
    <2>7. \A t \in Tokens \ {n} : Root(t) = Root(old) /\ Serial(Root(old)) => ~Unrevoked(t)'
      BY <2>1, <2>2 DEF SerialOK, RefreshHoldsToken, Serial
    <2>8. OneToken'
      <3> SUFFICES ASSUME NEW t \in Tokens, NEW u \in Tokens, Root(t)' = Root(u)',
                          Serial(Root(t))', Unrevoked(t)', Unrevoked(u)', t # u
                   PROVE FALSE
        BY DEF OneToken
      <3>1. CASE t = n
        BY <2>1, <2>2, <2>3, <2>7, <3>1 DEF Serial
      <3>2. CASE u = n
        BY <2>1, <2>2, <2>3, <2>7, <3>2 DEF Serial
      <3>3. CASE t # n /\ u # n
        BY <2>1, <2>2, <3>3 DEF SerialOK, OneToken, Serial
      <3>4. QED BY <3>1, <3>2, <3>3
    <2>9. RefreshHoldsToken'
      <3> SUFFICES ASSUME NEW q \in Reqs, NEW t \in Tokens, Renewing(q)',
                          Root(req[q].tok)' = Root(t)', Serial(Root(t))', Unrevoked(t)'
                   PROVE t = req'[q].tok
        BY DEF RefreshHoldsToken
      <3>1. Renewing(q) /\ q # r /\ req'[q].tok = req[q].tok /\ req[q].tok \in Tokens \ {n}
        BY <2>4, <2>5
      <3>2. Root(req[q].tok)' = Root(req[q].tok)
        BY <2>2, <3>1
      <3>3. t # n
        BY <2>1, <2>3, <3>1, <3>2 DEF SerialOK, OneRefresh, Serial
      <3>4. Root(req[q].tok) = Root(t) /\ Serial(Root(t)) /\ Unrevoked(t)
        BY <2>1, <2>2, <3>2, <3>3 DEF Serial
      <3>5. QED BY <3>1, <3>4 DEF SerialOK, RefreshHoldsToken
    <2>10. OneRefresh'
      BY <2>1, <2>2, <2>4, <2>5 DEF SerialOK, OneRefresh, Serial
    <2>11. QED BY <2>6, <2>8, <2>9, <2>10 DEF SerialOK
  <1>3. QED BY <1>1, <1>2 DEF Rotate

\* A step is quiet or one of the three that let a token live or be renewed.
LEMMA StepKinds ==
  ASSUME TypeOK, RequestOK, SerialOK, [Next]_vars
  PROVE  \/ Quiet
         \/ \E r \in Reqs : LoginInsert(r)
         \/ \E r \in Reqs : \E t \in known : RefreshCheck(r, t)
         \/ \E r \in Reqs : Rotate(r)
  <1>n. now \in Nat
    BY TTLAssumption DEF TypeOK, Time
  <1>h. known \subseteq {t \in Tokens : Issued(t)}
    BY DEF SerialOK, HistoryOK
  <1>1. ASSUME NEW r \in Reqs, NEW a \in Admins, Login(r, a) \/ LogoutAuth(r, a) \/ MeAuth(r, a)
        PROVE  Quiet
    <2>1. UNCHANGED <<rows, sess, raced, known, now>>
      BY <1>1 DEF Login, LogoutAuth, MeAuth
    <2>2. \A q \in Reqs \ {r} : req'[q] = req[q]
      BY <1>1 DEF Login, LogoutAuth, MeAuth, TypeOK
    <2>3. req'[r].pc \in {"insert", "revokeAll", "logout", "me"}
      BY <1>1 DEF Login, LogoutAuth, MeAuth, TypeOK, IdleRequest
    <2>4. NoNewRefresh
      BY <2>2, <2>3 DEF NoNewRefresh
    <2>5. QED BY <2>1, <2>4, QuietRequest
  <1>2. ASSUME NEW r \in Reqs, RefreshLoad(r) PROVE Quiet
    <2>1. UNCHANGED <<rows, sess, raced, known, now>>
      BY <1>2 DEF RefreshLoad
    <2>2. ASSUME req' = [req EXCEPT ![r] = [@ EXCEPT !.pc = "rotate", !.since = now]]
          PROVE  NoNewRefresh
      BY <1>2, <2>2 DEF RefreshLoad, TypeOK, Request, NoNewRefresh
    <2>3. QED BY <1>2, <2>1, <2>2, DoneNoRefresh, QuietRequest DEF RefreshLoad
  <1>3. ASSUME NEW r \in Reqs, Grant(r) PROVE Quiet
    <2>1. UNCHANGED <<rows, sess, raced, now>> /\ Done(r)
      BY <1>3 DEF Grant
    <2>2. req[r].new \in Tokens /\ Issued(req[r].new)
      BY <1>3, SentinelAssumption DEF Grant, RequestOK, Remembers
    <2>3. known' \subseteq {t \in Tokens : Issued(t)}
      BY <1>3, <1>h, <2>2 DEF Grant
    <2>4. QED BY <1>n, <2>1, <2>3, DoneNoRefresh DEF Quiet, TableShrinks
  <1>4. ASSUME NEW r \in Reqs, LogoutLookup(r) PROVE Quiet
    <2>1. UNCHANGED <<rows, sess, raced, known, now>>
      BY <1>4 DEF LogoutLookup
    <2>2. ASSUME req' = [req EXCEPT ![r].pc = "revokeOne"] PROVE NoNewRefresh
      BY <2>2 DEF TypeOK, Request, NoNewRefresh
    <2>3. QED BY <1>4, <2>1, <2>2, DoneNoRefresh, QuietRequest DEF LogoutLookup
  <1>5. ASSUME NEW r \in Reqs, LogoutOne(r) \/ LogoutAll(r) PROVE Quiet
    <2>1. UNCHANGED <<sess, raced, known, now>> /\ Done(r) /\ \E T : rows' = Revoked(rows, T)
      BY <1>5 DEF LogoutOne, LogoutAll
    <2>2. PICK T : rows' = Revoked(rows, T)
      BY <2>1
    <2>3. TableShrinks
      BY <1>n, <2>2, RevokedRow DEF TypeOK, TableShrinks
    <2>4. QED BY <1>n, <1>h, <2>1, <2>3, DoneNoRefresh DEF Quiet
  <1>6. ASSUME NEW r \in Reqs, MeLoad(r) PROVE Quiet
    <2>1. UNCHANGED <<rows, sess, raced, known, now>>
      BY <1>6 DEF MeLoad
    <2>2. ASSUME NEW st, req' = [req EXCEPT ![r] = [@ EXCEPT !.pc = "profile", !.seen = st]]
          PROVE  NoNewRefresh
      BY <2>2 DEF TypeOK, Request, NoNewRefresh
    <2>3. QED BY <1>6, <2>1, <2>2, DoneNoRefresh, QuietRequest DEF MeLoad
  <1>7. ASSUME NEW r \in Reqs, MeAnswer(r) \/ Fail(r) PROVE Quiet
    BY <1>7, QuietDone DEF MeAnswer, Fail
  <1>8. ASSUME NEW a \in Admins, Delete(a) PROVE Quiet
    <2>1. TableShrinks
      BY <1>8 DEF Delete, TableShrinks
    <2>2. UNCHANGED <<req, sess, raced, known, now>>
      BY <1>8 DEF Delete
    <2>3. QED BY <1>n, <1>h, <2>1, <2>2 DEF Quiet, NoNewRefresh
  <1>9. CASE UNCHANGED <<rows, sess, raced, known, req, now>>
    BY <1>9, QuietRequest DEF NoNewRefresh
  <1>10. CASE Tick
    BY <1>10, <1>n, <1>h DEF Tick, Quiet, TableShrinks, NoNewRefresh
  <1>11. QED
    BY <1>1, <1>2, <1>3, <1>4, <1>5, <1>6, <1>7, <1>8, <1>9, <1>10
       DEF Next, Arrive, Continue, Administer, Refuse, vars, Deactivate, Activate

LEMMA SerialStep ==
  ASSUME TypeOK, LineageOK, RequestOK, SerialOK, [Next]_vars PROVE SerialOK'
  BY StepKinds, SerialQuiet, SerialLogin, SerialCheck, SerialRotate

----------------------------------------------------------------------------
(* The invariant and what follows from it.                                  *)

LEMMA IInvInit == Init => IInv
  <1> SUFFICES ASSUME Init PROVE IInv
    OBVIOUS
  <1>1. /\ \A t \in Tokens : ~Issued(t) /\ ~Stored(t) /\ Root(t) = t /\ sess[t].parent = NoToken
        /\ \A r \in Reqs : At(r, {"idle"})
        /\ raced = {} /\ known = {}
    BY DEF Init, IdleRequest
  <1>2. LineageOK
    BY <1>1 DEF LineageOK, Filed
  <1>3. RequestOK
    BY <1>1 DEF RequestOK, Remembers
  <1>4. SerialOK
    BY <1>1 DEF SerialOK, HistoryOK, OneToken, RefreshHoldsToken, OneRefresh
  <1>5. QED BY <1>2, <1>3, <1>4, TypeInit DEF IInv

LEMMA IInvStep == IInv /\ [Next]_vars => IInv'
  BY TypeStep, LineageStep, RequestStep, SerialStep DEF IInv

\* Whatever the interleaving of requests, failures and administration, IInv
\* holds in every state of AdminSessions.
THEOREM Invariance == Spec => []IInv
  BY IInvInit, IInvStep, PTL DEF Spec

\* The variables keep their types.
THEOREM Typing == Spec => []TypeOK
  <1>1. IInv => TypeOK
    BY DEF IInv
  <1>2. QED BY <1>1, Invariance, PTL

\* RotateRefreshToken: a token and its successor are never valid together.
THEOREM RotationReplaces == Spec => []OldAndNewNeverBothValid
  <1>1. IInv => OldAndNewNeverBothValid
    BY DEF IInv, LineageOK, Filed, OldAndNewNeverBothValid
  <1>2. QED BY <1>1, Invariance, PTL

\* A token that reached a client has a row as long as its account exists.
THEOREM DeliveredTokensAreStored == Spec => []DeliveredTokenIsStored
  <1>1. IInv => DeliveredTokenIsStored
    BY DEF IInv, LineageOK, Filed, SerialOK, HistoryOK, DeliveredTokenIsStored
  <1>2. QED BY <1>1, Invariance, PTL

LEMMA AtMostOne ==
  ASSUME NEW S, \A x, y \in S : x = y PROVE Cardinality(S) <= 1
  <1>1. CASE S = {}
    BY <1>1, FS_EmptySet
  <1>2. CASE S # {}
    <2>1. PICK x \in S : S = {x}
      BY <1>2
    <2>2. QED BY <2>1, FS_Singleton
  <1>3. QED BY <1>1, <1>2

\* A session refreshed by one client at a time has at most one usable token.
THEOREM SerialSessions == Spec => []SerialSessionHasOneToken
  <1>1. IInv => SerialSessionHasOneToken
    <2> SUFFICES ASSUME IInv, NEW f \in Tokens \ raced
                 PROVE  Cardinality(UsableOf(f)) <= 1
      BY DEF SerialSessionHasOneToken
    <2>1. \A t, u \in UsableOf(f) : t = u
      BY DEF IInv, SerialOK, OneToken, Serial, UsableOf
    <2>2. QED BY <2>1, AtMostOne
  <1>2. QED BY <1>1, Invariance, PTL

----------------------------------------------------------------------------
(* What a step may never do.                                                *)

\* r holds a committed pair after the step; the other requests did not move.
Granting(r) == req'[r].pc = "grant" /\ \A q \in Reqs \ {r} : req'[q] = req[q]

LEMMA QuietAfterGrant ==
  ASSUME TypeOK, NEW r \in Reqs, NEW n,
         req' = [req EXCEPT ![r] = [@ EXCEPT !.pc = "grant", !.new = n]]
  PROVE  NoNewRefresh /\ Granting(r)
  <1>1. \A q \in Reqs \ {r} : req'[q] = req[q]
    BY DEF TypeOK
  <1>2. req'[r].pc = "grant"
    BY DEF TypeOK, Request
  <1>3. QED BY <1>1, <1>2 DEF NoNewRefresh, Granting

\* The table gets a row for the fresh token n of account a, in the session of f
\* as the successor of p, whose row is revoked.
Grew(n, a, f, p) ==
  /\ ~Issued(n)
  /\ Unrevoked(n)' /\ rows'[n].admin = a
  /\ sess'[n] = [root |-> f, parent |-> p, admin |-> a]
  /\ \A t \in Tokens \ {n} :
       /\ sess'[t] = sess[t]
       /\ Stored(t)' <=> Stored(t)
       /\ Stored(t) =>
            /\ rows'[t].admin = rows[t].admin
            /\ rows'[t].expires = rows[t].expires
            /\ rows[t].revokedAt # Null => rows'[t] = rows[t]
       /\ t # p => rows'[t] = rows[t]
       /\ t = p => ~Unrevoked(t)'
  /\ NoNewRefresh
  /\ UNCHANGED <<status, jwts, known, now, raced>>

LEMMA InsertGrew ==
  ASSUME TypeOK, NEW a \in Admins, NEW at \in Nat, NEW n \in Tokens, ~Issued(n),
         NEW f, NEW p, NEW r \in Reqs,
         rows' = Inserted(Revoked(rows, {p}), n, a, at),
         sess' = [sess EXCEPT ![n] = [root |-> f, parent |-> p, admin |-> a]],
         req' = [req EXCEPT ![r] = [@ EXCEPT !.pc = "grant", !.new = n]],
         UNCHANGED <<status, jwts, known, now, raced>>
  PROVE  Grew(n, a, f, p) /\ Granting(r)
  <1>1. now \in Nat
    BY TTLAssumption DEF TypeOK, Time
  <1> DEFINE table == Revoked(rows, {p})
  <1>2. table \in [Tokens -> Row \union {NoRow}]
    BY RevokedTyped
  <1>3. \A t \in Tokens :
          /\ table[t] = NoRow <=> rows[t] = NoRow
          /\ rows[t] # NoRow =>
               /\ table[t].admin = rows[t].admin
               /\ table[t].expires = rows[t].expires
               /\ table[t].revokedAt = Null => t # p
               /\ rows[t].revokedAt # Null => table[t] = rows[t]
          /\ t # p => table[t] = rows[t]
    BY <1>1, RevokedRow DEF TypeOK
  <1>4. rows' = Inserted(table, n, a, at)
    OBVIOUS
  <1> HIDE DEF table
  <1>5. /\ Inserted(table, n, a, at)[n] # NoRow
        /\ Inserted(table, n, a, at)[n].admin = a
        /\ Inserted(table, n, a, at)[n].revokedAt = Null
        /\ \A t \in Tokens \ {n} : Inserted(table, n, a, at)[t] = table[t]
    BY <1>2, InsertedRow
  <1>6. /\ sess'[n] = [root |-> f, parent |-> p, admin |-> a]
        /\ \A t \in Tokens \ {n} : sess'[t] = sess[t]
    BY DEF TypeOK
  <1>7. NoNewRefresh /\ Granting(r)
    BY QuietAfterGrant
  <1>8. ASSUME NEW t \in Tokens \ {n}
        PROVE  /\ sess'[t] = sess[t]
               /\ Stored(t)' <=> Stored(t)
               /\ Stored(t) =>
                    /\ rows'[t].admin = rows[t].admin
                    /\ rows'[t].expires = rows[t].expires
                    /\ rows[t].revokedAt # Null => rows'[t] = rows[t]
               /\ t # p => rows'[t] = rows[t]
               /\ t = p => ~Unrevoked(t)'
    <2>1. rows'[t] = table[t]
      BY <1>4, <1>5
    <2>2. QED BY <1>3, <1>6, <2>1
  <1>9. Unrevoked(n)' /\ rows'[n].admin = a
    BY <1>4, <1>5
  <1>10. QED BY <1>6, <1>7, <1>8, <1>9 DEF Grew

\* What the two insertions do, with the fresh token named.
LEMMA LoginEffect ==
  ASSUME IInv, NEW r \in Reqs, LoginInsert(r)
  PROVE  \/ Quiet /\ Done(r) /\ UNCHANGED <<rows, sess>>
         \/ \E n \in Tokens : Grew(n, req[r].adm, n, NoToken) /\ Granting(r)
  <1>1. CASE Done(r) /\ UNCHANGED <<rows, sess>>
    BY <1>1, QuietDone DEF LoginInsert, IInv
  <1>2. ASSUME NEW n \in Tokens, ~Issued(n), NEW at \in req[r].since .. now,
               rows' = Inserted(rows, n, req[r].adm, at),
               sess' = [sess EXCEPT ![n] = [root |-> n, parent |-> NoToken, admin |-> req[r].adm]],
               req' = [req EXCEPT ![r] = [@ EXCEPT !.pc = "grant", !.new = n]]
        PROVE  Grew(n, req[r].adm, n, NoToken) /\ Granting(r)
    <2>1. rows = Revoked(rows, {NoToken})
      BY SentinelAssumption DEF Revoked, IInv, TypeOK
    <2>2. at \in Nat
      BY TTLAssumption DEF IInv, TypeOK, Request, Time
    <2>3. req[r].adm \in Admins /\ UNCHANGED <<status, jwts, known, now, raced>>
      BY DEF LoginInsert, IInv, RequestOK, Remembers
    <2>4. TypeOK
      BY DEF IInv
    <2>5. QED BY <1>2, <2>1, <2>2, <2>3, <2>4, InsertGrew
  <1>3. QED BY <1>1, <1>2 DEF LoginInsert

LEMMA RotateEffect ==
  ASSUME IInv, NEW r \in Reqs, Rotate(r)
  PROVE  \/ Quiet /\ Done(r) /\ UNCHANGED <<rows, sess>>
         \/ /\ \E n \in Tokens : \E a, f, p :
                 a = req[r].adm /\ f = Root(req[r].tok) /\ p = req[r].tok /\ Grew(n, a, f, p)
            /\ Granting(r)
  <1>1. CASE Done(r) /\ UNCHANGED <<rows, sess>>
    BY <1>1, QuietDone DEF Rotate, IInv
  <1>2. ASSUME NEW n \in Tokens, ~Issued(n), NEW at \in req[r].since .. now,
               rows' = Inserted(Revoked(rows, {req[r].tok}), n, req[r].adm, at),
               sess' = [sess EXCEPT ![n] = [root |-> Root(req[r].tok), parent |-> req[r].tok,
                                            admin |-> req[r].adm]],
               req' = [req EXCEPT ![r] = [@ EXCEPT !.pc = "grant", !.new = n]]
        PROVE  /\ \E a, f, p :
                    a = req[r].adm /\ f = Root(req[r].tok) /\ p = req[r].tok /\ Grew(n, a, f, p)
               /\ Granting(r)
    <2>1. at \in Nat
      BY TTLAssumption DEF IInv, TypeOK, Request, Time
    <2>2. req[r].adm \in Admins /\ UNCHANGED <<status, jwts, known, now, raced>>
      BY DEF Rotate, IInv, RequestOK, Remembers
    <2>3. TypeOK
      BY DEF IInv
    <2>4. PICK a, f, p : a = req[r].adm /\ f = Root(req[r].tok) /\ p = req[r].tok
      OBVIOUS
    <2>5. /\ a \in Admins
          /\ rows' = Inserted(Revoked(rows, {p}), n, a, at)
          /\ sess' = [sess EXCEPT ![n] = [root |-> f, parent |-> p, admin |-> a]]
      BY <1>2, <2>2, <2>4
    <2>g. Granting(r)
      BY <1>2, <2>3, QuietAfterGrant
    <2>6. Grew(n, a, f, p)
      BY <1>2, <2>1, <2>2, <2>3, <2>5, InsertGrew
    <2>7. \E a1, f1, p1 : a1 = req[r].adm /\ f1 = Root(req[r].tok) /\ p1 = req[r].tok
                          /\ Grew(n, a1, f1, p1)
      BY <2>4, <2>6
    <2>8. QED BY <2>g, <2>7
  <1>3. QED BY <1>1, <1>2 DEF Rotate

LEMMA RotateRemembers ==
  ASSUME IInv, NEW r \in Reqs, Rotate(r)
  PROVE  /\ Renewing(r) /\ req[r].adm \in Admins
         /\ req[r].tok \in Tokens /\ Issued(req[r].tok)
         /\ sess[req[r].tok].admin = req[r].adm
         /\ Stored(req[r].tok) => rows[req[r].tok].admin = req[r].adm
  <1>1. /\ Renewing(r) /\ req[r].adm \in Admins /\ req[r].tok \in Tokens
        /\ sess[req[r].tok].admin = req[r].adm
    BY DEF Rotate, IInv, RequestOK, Remembers
  <1>2. Filed(req[r].tok)
    BY <1>1 DEF IInv, LineageOK
  <1>3. QED BY <1>1, <1>2, SentinelAssumption DEF Filed

\* A revoked row keeps its revoked_at for as long as it exists.
THEOREM Revocations == Spec => RevocationIsFinal
  <1>1. ASSUME IInv, [Next]_vars, NEW t \in Tokens, Stored(t), ~Unrevoked(t), Stored(t)'
        PROVE  rows'[t].revokedAt = rows[t].revokedAt
    <2>1. CASE Quiet
      BY <1>1, <2>1 DEF Quiet, TableShrinks
    <2>2. ASSUME NEW n \in Tokens, NEW a, NEW f, NEW p, Grew(n, a, f, p)
          PROVE  rows'[t].revokedAt = rows[t].revokedAt
      <3>1. t # n
        BY <1>1, <2>2 DEF Grew, IInv, LineageOK, Filed
      <3>2. rows[t].revokedAt # Null
        BY <1>1 DEF Unrevoked
      <3>3. rows'[t] = rows[t]
        BY <1>1, <2>2, <3>1, <3>2 DEF Grew
      <3>4. QED BY <3>3
    <2>3. ASSUME NEW r \in Reqs, LoginInsert(r) PROVE rows'[t].revokedAt = rows[t].revokedAt
      BY <1>1, <2>1, <2>2, <2>3, LoginEffect
    <2>4. ASSUME NEW r \in Reqs, Rotate(r) PROVE rows'[t].revokedAt = rows[t].revokedAt
      BY <1>1, <2>1, <2>2, <2>4, RotateEffect
    <2>5. ASSUME NEW r \in Reqs, NEW u \in known, RefreshCheck(r, u)
          PROVE rows'[t].revokedAt = rows[t].revokedAt
      BY <2>5 DEF RefreshCheck
    <2>6. QED BY <1>1, <2>1, <2>3, <2>4, <2>5, StepKinds DEF IInv
  <1>2. IInv /\ [Next]_vars =>
          [\A t \in Tokens : Stored(t) /\ ~Unrevoked(t) /\ Stored(t)'
                             => rows'[t].revokedAt = rows[t].revokedAt]_vars
    BY <1>1
  <1>3. QED BY <1>2, Invariance, PTL DEF Spec, RevocationIsFinal

\* A session with nothing live and no refresh half way stays so for ever.
THEOREM DeadSessions == Spec => DeadSessionStaysDead
  <1>1. ASSUME IInv, [Next]_vars, NEW f \in Tokens, SessionOver(f) PROVE SessionOver(f)'
    <2>f. Issued(f) /\ (\A t \in Tokens : Root(t) = f => ~Live(t))
          /\ (\A q \in Reqs : Renewing(q) => Root(req[q].tok) # f)
      BY <1>1 DEF SessionOver
    <2>i. Issued(f)'
      BY <1>1, <2>f, SessStep DEF IInv, SessGrows
    <2>1. CASE Quiet
      <3>1. \A t \in Tokens : Live(t)' => Live(t)
        <4> SUFFICES ASSUME NEW t \in Tokens, Live(t)' PROVE Live(t)
          OBVIOUS
        <4>1. Unrevoked(t) /\ rows'[t].expires = rows[t].expires /\ rows'[t].expires > now'
          BY <2>1 DEF Live, Quiet, TableShrinks
        <4>2. rows[t].expires \in Nat
          BY <1>1, <4>1 DEF IInv, TypeOK, Row
        <4>3. QED BY <2>1, <4>1, <4>2 DEF Live, Quiet
      <3>2. QED BY <2>1, <2>f, <2>i, <3>1 DEF SessionOver, Quiet, NoNewRefresh
    <2>2. ASSUME NEW n \in Tokens, NEW a, NEW g, NEW p, Grew(n, a, g, p), g # f
          PROVE  SessionOver(f)'
      <3>1. sess'[n].root = g /\ \A t \in Tokens \ {n} : sess'[t] = sess[t]
        BY <2>2 DEF Grew
      <3>2. \A t \in Tokens \ {n} : Live(t)' => Live(t)
        BY <1>1, <2>2 DEF Grew, Live
      <3>3. \A q \in Reqs : Renewing(q) => req[q].tok \in Tokens \ {n}
        BY <1>1, <2>2, SentinelAssumption DEF Grew, IInv, RequestOK, Remembers
      <3>4. \A q \in Reqs : Renewing(q)' => Root(req[q].tok)' # f
        BY <2>2, <2>f, <3>1, <3>3 DEF Grew, NoNewRefresh
      <3>5. \A t \in Tokens : Root(t)' = f => ~Live(t)'
        BY <2>2, <2>f, <3>1, <3>2
      <3>6. QED BY <2>i, <3>4, <3>5 DEF SessionOver
    <2>3. ASSUME NEW r \in Reqs, LoginInsert(r) PROVE SessionOver(f)'
      <3>1. ASSUME NEW n \in Tokens, Grew(n, req[r].adm, n, NoToken) PROVE SessionOver(f)'
        BY <2>f, <2>2, <3>1 DEF Grew
      <3>2. QED BY <1>1, <2>1, <2>3, <3>1, LoginEffect
    <2>4. ASSUME NEW r \in Reqs, Rotate(r) PROVE SessionOver(f)'
      <3>1. Root(req[r].tok) # f
        BY <1>1, <2>f, <2>4, RotateRemembers
      <3>2. QED BY <1>1, <2>1, <2>2, <2>4, <3>1, RotateEffect
    <2>5. ASSUME NEW r \in Reqs, NEW t \in known, RefreshCheck(r, t) PROVE SessionOver(f)'
      <3>1. t \in Tokens /\ Root(t) # f /\ UNCHANGED <<rows, sess, now>>
        BY <1>1, <2>5, <2>f DEF RefreshCheck, IInv, TypeOK
      <3>2. req'[r].tok = t /\ \A q \in Reqs \ {r} : req'[q] = req[q]
        BY <1>1, <2>5 DEF RefreshCheck, IInv, TypeOK, IdleRequest
      <3>3. QED BY <2>f, <2>i, <3>1, <3>2 DEF SessionOver, Live
    <2>6. QED BY <1>1, <2>1, <2>3, <2>4, <2>5, StepKinds DEF IInv
  <1>2. IInv /\ [Next]_vars => [\A f \in Tokens : SessionOver(f) => SessionOver(f)']_vars
    BY <1>1
  <1>3. QED BY <1>2, Invariance, PTL DEF Spec, DeadSessionStaysDead

----------------------------------------------------------------------------
(* Who may write a row.                                                     *)

\* r writes t's row in this step, for r's account.
Writes(r, t) ==
  /\ At(r, {"insert", "rotate", "revokeOne", "revokeAll"})
  /\ rows'[t].admin = req[r].adm
  /\ Stored(t) => /\ rows[t].admin = req[r].adm
                  /\ \/ At(r, {"revokeAll"})
                     \/ At(r, {"revokeOne", "rotate"}) /\ req[r].tok = t

LEMMA LogoutWrites ==
  ASSUME IInv, NEW r \in Reqs, LogoutOne(r) \/ LogoutAll(r),
         NEW t \in Tokens, Stored(t)', rows'[t] # rows[t]
  PROVE  Writes(r, t)
  <1>1. now \in Nat /\ rows \in [Tokens -> Row \union {NoRow}]
    BY TTLAssumption DEF IInv, TypeOK, Time
  <1>2. \A u \in Tokens : Stored(u) => rows[u].admin = sess[u].admin
    BY DEF IInv, LineageOK, Filed
  <1>3. CASE LogoutOne(r)
    <2>1. rows' = Revoked(rows, {req[r].tok}) /\ At(r, {"revokeOne"})
      BY <1>3 DEF LogoutOne
    <2>2. t = req[r].tok /\ Stored(t) /\ rows'[t].admin = rows[t].admin
      BY <1>1, <2>1, RevokedRow
    <2>3. sess[t].admin = req[r].adm
      BY <2>1, <2>2 DEF IInv, RequestOK, Remembers
    <2>4. QED BY <1>2, <2>1, <2>2, <2>3 DEF Writes
  <1>4. CASE LogoutAll(r)
    <2> DEFINE T == {u \in Tokens : Stored(u) /\ rows[u].admin = req[r].adm}
    <2>1. rows' = Revoked(rows, T) /\ At(r, {"revokeAll"})
      BY <1>4 DEF LogoutAll
    <2>2. \A u \in T : rows[u].admin = req[r].adm
      OBVIOUS
    <2> HIDE DEF T
    <2>3. t \in T /\ rows'[t].admin = rows[t].admin
      BY <1>1, <2>1, RevokedRow
    <2>4. QED BY <2>1, <2>2, <2>3 DEF Writes
  <1>5. QED BY <1>3, <1>4

LEMMA WritesStep ==
  ASSUME IInv, [Next]_vars, NEW t \in Tokens, Stored(t)', rows'[t] # rows[t]
  PROVE  \E r \in Reqs : Writes(r, t)
  <1>1. ASSUME NEW r \in Reqs, LoginInsert(r) PROVE Writes(r, t)
    <2>1. PICK n \in Tokens : Grew(n, req[r].adm, n, NoToken)
      BY <1>1, LoginEffect
    <2>2. t = n
      BY <2>1, SentinelAssumption DEF Grew
    <2>3. ~Stored(t)
      BY <2>1, <2>2 DEF Grew, IInv, LineageOK, Filed
    <2>4. QED BY <1>1, <2>1, <2>2, <2>3 DEF Writes, LoginInsert, Grew
  <1>2. ASSUME NEW r \in Reqs, Rotate(r) PROVE Writes(r, t)
    <2>0. PICK n \in Tokens : \E a, f, p : a = req[r].adm /\ p = req[r].tok /\ Grew(n, a, f, p)
      BY <1>2, RotateEffect
    <2>1. PICK a, f, p : a = req[r].adm /\ p = req[r].tok /\ Grew(n, a, f, p)
      BY <2>0
    <2>2. CASE t = n
      <3>1. ~Stored(t)
        BY <2>1, <2>2 DEF Grew, IInv, LineageOK, Filed
      <3>2. QED BY <1>2, <2>1, <2>2, <3>1 DEF Writes, Rotate, Grew
    <2>3. CASE t # n
      <3>1. t = p /\ Stored(t) /\ rows'[t].admin = rows[t].admin
        BY <2>1, <2>3 DEF Grew
      <3>2. rows[t].admin = req[r].adm
        BY <1>2, <2>1, <3>1, RotateRemembers
      <3>3. QED BY <1>2, <2>1, <3>1, <3>2 DEF Writes, Rotate
    <2>4. QED BY <2>2, <2>3
  <1>3. ASSUME NEW r \in Reqs, LogoutOne(r) \/ LogoutAll(r) PROVE Writes(r, t)
    BY <1>3, LogoutWrites
  <1>4. ~\E a \in Admins : Delete(a)
    BY DEF Delete
  <1>5. QED
    BY <1>1, <1>2, <1>3, <1>4
       DEF Next, Arrive, Continue, Administer, Refuse, vars, Login, RefreshCheck, RefreshLoad,
           Grant, LogoutAuth, LogoutLookup, MeAuth, MeLoad, MeAnswer, Fail, Tick,
           Deactivate, Activate

\* A session is revoked only for its own account.
THEOREM Owners == Spec => OnlyOwnerRevokes
  <1>1. ASSUME IInv, [Next]_vars, NEW t \in Tokens, Unrevoked(t), Stored(t)', ~Unrevoked(t)'
        PROVE  \E r \in Reqs :
                 /\ req[r].adm = rows[t].admin
                 /\ \/ At(r, {"revokeAll"})
                    \/ At(r, {"revokeOne", "rotate"}) /\ req[r].tok = t
    <2>1. PICK r \in Reqs : Writes(r, t)
      BY <1>1, WritesStep
    <2>2. QED BY <1>1, <2>1 DEF Writes
  <1>2. IInv /\ [Next]_vars =>
          [\A t \in Tokens :
             Unrevoked(t) /\ Stored(t)' /\ ~Unrevoked(t)' =>
               \E r \in Reqs :
                 /\ req[r].adm = rows[t].admin
                 /\ \/ At(r, {"revokeAll"})
                    \/ At(r, {"revokeOne", "rotate"}) /\ req[r].tok = t]_vars
    BY <1>1
  <1>3. QED BY <1>2, Invariance, PTL DEF Spec, OnlyOwnerRevokes

----------------------------------------------------------------------------
(* Deactivation.                                                            *)

\* A request comes to act for an account only by reading it as active.
LEMMA ActingStep ==
  ASSUME IInv, [Next]_vars, NEW q \in Reqs, Acting(q)'
  PROVE  \/ Acting(q) /\ req'[q].adm = req[q].adm
         \/ status[req'[q].adm] = "active"
  <1>0. req \in [Reqs -> Request]
    BY DEF IInv, TypeOK
  <1>1. ASSUME NEW r \in Reqs, NEW a \in Admins, Login(r, a) \/ LogoutAuth(r, a) \/ MeAuth(r, a)
        PROVE  req'[q] = req[q] \/ status[req'[q].adm] = "active"
    <2>1. status[a] = "active" /\ \A u \in Reqs \ {r} : req'[u] = req[u]
      BY <1>0, <1>1 DEF Login, LogoutAuth, MeAuth, Authenticated
    <2>2. req'[r].adm = a
      BY <1>0, <1>1 DEF Login, LogoutAuth, MeAuth, IdleRequest
    <2>3. QED BY <2>1, <2>2
  <1>2. ASSUME NEW r \in Reqs, NEW t \in known, RefreshCheck(r, t) PROVE req'[q] = req[q]
    <2>1. req'[r].pc = "load" /\ \A u \in Reqs \ {r} : req'[u] = req[u]
      BY <1>0, <1>2 DEF RefreshCheck, IdleRequest
    <2>2. QED BY <2>1 DEF Acting
  <1>3. ASSUME NEW r \in Reqs, RefreshLoad(r)
        PROVE  req'[q] = req[q] \/ status[req'[q].adm] = "active"
    <2>1. req'[r] = IdleRequest \/ (status[req[r].adm] = "active" /\ req'[r].adm = req[r].adm)
      BY <1>0, <1>3 DEF RefreshLoad, Done, Request
    <2>2. \A u \in Reqs \ {r} : req'[u] = req[u]
      BY <1>0, <1>3 DEF RefreshLoad, Done
    <2>3. QED BY <2>1, <2>2 DEF Acting, IdleRequest
  <1>4. ASSUME NEW r \in Reqs,
               \/ LoginInsert(r) \/ Rotate(r) \/ Grant(r) \/ LogoutLookup(r) \/ LogoutOne(r)
               \/ LogoutAll(r) \/ MeLoad(r) \/ MeAnswer(r) \/ Fail(r)
        PROVE  Acting(q) /\ req'[q].adm = req[q].adm
    <2>1. \A u \in Reqs \ {r} : req'[u] = req[u]
      BY <1>0, <1>4 DEF LoginInsert, Rotate, Grant, LogoutLookup, LogoutOne, LogoutAll, MeLoad,
                        MeAnswer, Fail, Done
    <2>2. req'[r] = IdleRequest \/ req'[r].adm = req[r].adm
      BY <1>0, <1>4 DEF LoginInsert, Rotate, Grant, LogoutLookup, LogoutOne, LogoutAll, MeLoad,
                        MeAnswer, Fail, Done, Request
    <2>3. req'[r] = IdleRequest \/ req[r].pc \in PCs \ {"idle", "load"}
      BY <1>0, <1>4 DEF LoginInsert, Rotate, Grant, LogoutLookup, LogoutOne, LogoutAll, MeLoad,
                        MeAnswer, Fail, Done, PCs
    <2>4. QED BY <2>1, <2>2, <2>3 DEF Acting, IdleRequest
  <1>5. CASE UNCHANGED req
    BY <1>5 DEF Acting
  <1>6. QED
    BY <1>1, <1>2, <1>3, <1>4, <1>5
       DEF Next, Arrive, Continue, Administer, Refuse, vars, Tick, Deactivate, Activate, Delete,
           Acting

\* Once the requests that had read the account as active are through, nothing is
\* done in its name until it is activated again.
THEOREM Deactivations == Spec => DeactivationTakesHold
  <1>1. ASSUME IInv, [Next]_vars, NEW a \in Admins, Frozen(a), status'[a] # "active"
        PROVE  Frozen(a)' /\ ~TouchedFor(a)
    <2>1. Frozen(a)'
      BY <1>1, ActingStep DEF Frozen
    <2>2. ASSUME NEW t \in Tokens, Stored(t)', rows'[t].admin = a PROVE rows'[t] = rows[t]
      <3>1. ASSUME rows'[t] # rows[t] PROVE FALSE
        <4>1. PICK r \in Reqs : Writes(r, t)
          BY <1>1, <2>2, <3>1, WritesStep
        <4>2. Acting(r) /\ req[r].adm = a
          BY <2>2, <4>1 DEF Writes, Acting, PCs
        <4>3. QED BY <1>1, <4>2 DEF Frozen
      <3>2. QED BY <3>1
    <2>3. \A j \in jwts' \ jwts : \E r \in Reqs : At(r, {"grant"}) /\ j.admin = req[r].adm
      <3>1. ASSUME NEW r \in Reqs, Grant(r), NEW j \in jwts' \ jwts
            PROVE  At(r, {"grant"}) /\ j.admin = req[r].adm
        BY <3>1 DEF Grant
      <3>2. CASE UNCHANGED jwts
        BY <3>2
      <3>3. QED
        BY <1>1, <3>1, <3>2
           DEF Next, Arrive, Continue, Administer, Refuse, vars, Login, LoginInsert, RefreshCheck,
               RefreshLoad, Rotate, LogoutAuth, LogoutLookup, LogoutOne, LogoutAll, MeAuth, MeLoad,
               MeAnswer, Fail, Tick, Deactivate, Activate, Delete
    <2>4. \A r \in Reqs : At(r, {"grant"}) => req[r].adm # a
      BY <1>1 DEF Frozen, Acting, PCs
    <2>5. QED BY <2>1, <2>2, <2>3, <2>4 DEF TouchedFor
  <1>2. IInv /\ [Next]_vars =>
          [\A a \in Admins :
             Frozen(a) /\ status'[a] # "active" => Frozen(a)' /\ ~TouchedFor(a)]_vars
    BY <1>1
  <1>3. QED BY <1>2, Invariance, PTL DEF Spec, DeactivationTakesHold

=============================================================================
