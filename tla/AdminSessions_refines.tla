----------------------- MODULE AdminSessions_refines -----------------------
(* AdminSessions implements SessionLedger: what clients and staff see of the *)
(* session table, whatever races, fails or is administered meanwhile, is a   *)
(* behaviour of the ledger.                                                  *)
EXTENDS AdminSessions_proofs

USE DEF Issued, Root, Stored, Unrevoked, At, Renewing

\* The request's claim is the same after the step.
SameClaim(q) ==
  /\ Renewing(q)' <=> Renewing(q)
  /\ Renewing(q) => req'[q].tok = req[q].tok

LEMMA OtherClaims ==
  ASSUME TypeOK, NEW r \in Reqs, NEW x, req' = [req EXCEPT ![r] = x]
  PROVE  \A q \in Reqs \ {r} : SameClaim(q)
  BY DEF TypeOK, SameClaim

LEMMA Answered ==
  ASSUME TypeOK, NEW r \in Reqs, Done(r)
  PROVE  ~Renewing(r)' /\ \A q \in Reqs \ {r} : SameClaim(q)
  BY OtherClaims DEF Done, IdleRequest, TypeOK

LEMMA SameState ==
  ASSUME UNCHANGED <<rows, sess>>
  PROVE  \A t \in Tokens : LedgerState(t)' = LedgerState(t)
  BY DEF LedgerState

----------------------------------------------------------------------------
(* One lemma per action of the ledger: what a step must do to be that one.  *)

LEMMA LedgerStutter ==
  ASSUME \A t \in Tokens : LedgerState(t)' = LedgerState(t), UNCHANGED sess,
         \A q \in Reqs : SameClaim(q)
  PROVE  UNCHANGED Ledger!lvars
  BY DEF SameClaim, Ledger!lvars

LEMMA LedgerDrop ==
  ASSUME NEW r \in Reqs, req[r].tok \in Tokens, Renewing(r), ~Renewing(r)',
         \A q \in Reqs \ {r} : SameClaim(q), UNCHANGED <<rows, sess>>
  PROVE  Ledger!Drop(r)
  BY SameState, SentinelAssumption DEF SameClaim, Ledger!Drop

LEMMA LedgerClaim ==
  ASSUME NEW r \in Reqs, NEW t \in Tokens, LedgerState(t) = "live", ~Renewing(r),
         Renewing(r)', req'[r].tok = t,
         \A q \in Reqs \ {r} : SameClaim(q), UNCHANGED <<rows, sess>>
  PROVE  Ledger!Claim(r, t)
  BY SameState DEF SameClaim, Ledger!Claim

LEMMA LedgerEnd ==
  ASSUME NEW a \in Admins, NEW T \in SUBSET Tokens,
         \A t \in T : LedgerState(t) = "live" /\ sess[t].admin = a /\ LedgerState(t)' = "spent",
         \A t \in Tokens \ T : LedgerState(t)' = LedgerState(t),
         UNCHANGED sess, \A q \in Reqs : SameClaim(q)
  PROVE  Ledger!End(a, T)
  BY DEF SameClaim, Ledger!End

LEMMA LedgerOpen ==
  ASSUME NEW a \in Admins, NEW n \in Tokens,
         LedgerState(n) = "unused", LedgerState(n)' = "live", sess'[n].admin = a,
         sess'[n].root = sess[n].root,
         \A t \in Tokens \ {n} : LedgerState(t)' = LedgerState(t) /\ sess'[t] = sess[t],
         \A q \in Reqs : SameClaim(q)
  PROVE  Ledger!Open(a, n)
  BY DEF SameClaim, Ledger!Open

LEMMA LedgerRenew ==
  ASSUME NEW r \in Reqs, NEW n \in Tokens, Renewing(r), ~Renewing(r)',
         NEW p \in Tokens, p = req[r].tok, p # n,
         LedgerState(n) = "unused", LedgerState(n)' = "live", LedgerState(p)' = "spent",
         sess'[n].admin = sess[p].admin, sess'[n].root = sess[p].root,
         \A t \in Tokens \ {n, p} : LedgerState(t)' = LedgerState(t),
         \A t \in Tokens \ {n} : sess'[t] = sess[t],
         \A q \in Reqs \ {r} : SameClaim(q)
  PROVE  Ledger!Renew(r, n)
  BY SentinelAssumption DEF SameClaim, Ledger!Renew

----------------------------------------------------------------------------
(* The steps of AdminSessions.                                              *)

LEMMA RefinesInit == ASSUME Init PROVE Ledger!Init
  <1>1. \A t \in Tokens : LedgerState(t) = "unused" /\ sess[t].admin = NoAdmin /\ sess[t].root = t
    BY DEF Init, LedgerState
  <1>2. \A r \in Reqs : ~Renewing(r)
    BY DEF Init, IdleRequest
  <1>3. QED BY <1>1, <1>2 DEF Ledger!Init

\* A request that holds no claim before or after, and leaves the table alone.
LEMMA QuietStep ==
  ASSUME TypeOK, NEW r \in Reqs, NEW x, req' = [req EXCEPT ![r] = x],
         SameClaim(r), UNCHANGED <<rows, sess>>
  PROVE  UNCHANGED Ledger!lvars
  BY OtherClaims, SameState, LedgerStutter

\* A request that ends, and leaves the table alone.
LEMMA EndStep ==
  ASSUME IInv, NEW r \in Reqs, Done(r), UNCHANGED <<rows, sess>>
  PROVE  Ledger!Drop(r) \/ UNCHANGED Ledger!lvars
  <1>1. ~Renewing(r)' /\ \A q \in Reqs \ {r} : SameClaim(q)
    BY Answered DEF IInv
  <1>2. CASE Renewing(r)
    <2>1. req[r].tok \in Tokens
      BY <1>2 DEF IInv, RequestOK, Remembers
    <2>2. QED BY <1>1, <1>2, <2>1, LedgerDrop
  <1>3. CASE ~Renewing(r)
    <2>1. \A q \in Reqs : SameClaim(q)
      BY <1>1, <1>3 DEF SameClaim
    <2>2. QED BY <2>1, SameState, LedgerStutter
  <1>4. QED BY <1>2, <1>3

\* Rows of one account that lose their last claim to be live.
LEMMA RevokeStep ==
  ASSUME IInv, NEW a \in Admins, UNCHANGED sess, \A q \in Reqs : SameClaim(q),
         \A t \in Tokens : Unrevoked(t)' => Unrevoked(t),
         \A t \in Tokens : Unrevoked(t) /\ ~Unrevoked(t)' => sess[t].admin = a
  PROVE  \E T \in SUBSET Tokens : Ledger!End(a, T)
  <1> DEFINE T == {t \in Tokens : Unrevoked(t) /\ ~Unrevoked(t)'}
  <1>1. \A t \in Tokens : Unrevoked(t) => Issued(t)
    BY DEF IInv, LineageOK, Filed
  <1>2. \A t \in T : LedgerState(t) = "live" /\ sess[t].admin = a /\ LedgerState(t)' = "spent"
    BY <1>1 DEF LedgerState
  <1>3. \A t \in Tokens \ T : LedgerState(t)' = LedgerState(t)
    BY DEF LedgerState
  <1>4. T \in SUBSET Tokens
    OBVIOUS
  <1> HIDE DEF T
  <1>5. Ledger!End(a, T)
    BY <1>2, <1>3, <1>4, LedgerEnd
  <1>6. QED BY <1>4, <1>5

LEMMA ArriveRefines ==
  ASSUME IInv, NEW r \in Reqs, Arrive(r)
  PROVE  (\E t \in Tokens : Ledger!Claim(r, t)) \/ UNCHANGED Ledger!lvars
  <1>1. ASSUME NEW a \in Admins, Login(r, a) \/ LogoutAuth(r, a) \/ MeAuth(r, a)
        PROVE  UNCHANGED Ledger!lvars
    <2>1. UNCHANGED <<rows, sess>> /\ ~Renewing(r) /\ \E x : req' = [req EXCEPT ![r] = x]
      BY <1>1 DEF Login, LogoutAuth, MeAuth, Authenticated
    <2>2. ~Renewing(r)'
      BY <1>1 DEF Login, LogoutAuth, MeAuth, IdleRequest, IInv, TypeOK
    <2>3. QED BY <2>1, <2>2, QuietStep DEF SameClaim, IInv
  <1>2. ASSUME NEW t \in known, RefreshCheck(r, t) PROVE \E u \in Tokens : Ledger!Claim(r, u)
    <2>1. t \in Tokens /\ Issued(t) /\ Unrevoked(t) /\ ~Renewing(r) /\ UNCHANGED <<rows, sess>>
      BY <1>2 DEF RefreshCheck, Live, IInv, TypeOK, SerialOK, HistoryOK
    <2>2. Renewing(r)' /\ req'[r].tok = t
      BY <1>2 DEF RefreshCheck, IdleRequest, IInv, TypeOK
    <2>3. \A q \in Reqs \ {r} : SameClaim(q)
      BY <1>2, OtherClaims DEF RefreshCheck, IInv
    <2>4. LedgerState(t) = "live"
      BY <2>1 DEF LedgerState
    <2>5. QED BY <2>1, <2>2, <2>3, <2>4, LedgerClaim
  <1>3. CASE Refuse(r)
    <2>1. UNCHANGED <<rows, sess, req>>
      BY <1>3 DEF Refuse, vars
    <2>2. QED BY <2>1, SameState, LedgerStutter DEF SameClaim
  <1>4. QED BY <1>1, <1>2, <1>3 DEF Arrive

LEMMA LoginRefines ==
  ASSUME IInv, NEW r \in Reqs, LoginInsert(r)
  PROVE  (\E a \in Admins, n \in Tokens : Ledger!Open(a, n)) \/ UNCHANGED Ledger!lvars
  <1>0. TypeOK /\ ~Renewing(r) /\ req[r].adm \in Admins
    BY DEF LoginInsert, IInv, RequestOK, Remembers
  <1>1. CASE Done(r) /\ UNCHANGED <<rows, sess>>
    BY <1>0, <1>1, SameState, LedgerStutter, Answered DEF SameClaim
  <1>2. ASSUME NEW n \in Tokens, NEW a, a = req[r].adm, Grew(n, a, n, NoToken), Granting(r)
        PROVE  Ledger!Open(a, n)
    <2>1. \A q \in Reqs : SameClaim(q)
      BY <1>0, <1>2 DEF Granting, SameClaim
    <2>2. LedgerState(n) = "unused" /\ sess[n].root = n /\ LedgerState(n)' = "live"
      BY <1>0, <1>2, SentinelAssumption DEF Grew, LedgerState, IInv, LineageOK, Filed
    <2>3. sess'[n].root = n /\ sess'[n].admin = a
      BY <1>2 DEF Grew
    <2>4. \A t \in Tokens \ {n} : LedgerState(t)' = LedgerState(t) /\ sess'[t] = sess[t]
      BY <1>2, SentinelAssumption DEF Grew, LedgerState
    <2>5. QED BY <1>0, <1>2, <2>1, <2>2, <2>3, <2>4, LedgerOpen
  <1>3. QED BY <1>0, <1>1, <1>2, LoginEffect

LEMMA RotateRefines ==
  ASSUME IInv, NEW r \in Reqs, Rotate(r)
  PROVE  (\E n \in Tokens : Ledger!Renew(r, n)) \/ Ledger!Drop(r) \/ UNCHANGED Ledger!lvars
  <1>1. CASE Done(r) /\ UNCHANGED <<rows, sess>>
    BY <1>1, EndStep
  <1>2. ASSUME NEW n \in Tokens, NEW a, NEW f, NEW p,
               a = req[r].adm, f = Root(req[r].tok), p = req[r].tok,
               Grew(n, a, f, p), Granting(r)
        PROVE  Ledger!Renew(r, n)
    <2>1. Renewing(r) /\ ~Renewing(r)' /\ \A q \in Reqs \ {r} : SameClaim(q)
      BY <1>2 DEF Rotate, Granting, SameClaim
    <2>2. /\ a \in Admins /\ p \in Tokens /\ Issued(p) /\ ~Issued(n) /\ p # n
          /\ sess[p].admin = a /\ sess[p].root = f
      BY <1>2, RotateRemembers DEF Grew
    <2>3. LedgerState(n) = "unused" /\ LedgerState(n)' = "live"
      BY <1>2, <2>2, SentinelAssumption DEF Grew, LedgerState
    <2>4. LedgerState(p)' = "spent"
      BY <1>2, <2>2 DEF Grew, LedgerState
    <2>5. sess'[n].root = sess[p].root /\ sess'[n].admin = sess[p].admin
      BY <1>2, <2>2 DEF Grew
    <2>6. \A t \in Tokens \ {n, p} : LedgerState(t)' = LedgerState(t)
      BY <1>2 DEF Grew, LedgerState
    <2>7. \A t \in Tokens \ {n} : sess'[t] = sess[t]
      BY <1>2 DEF Grew
    <2>8. QED BY <1>2, <2>1, <2>2, <2>3, <2>4, <2>5, <2>6, <2>7, LedgerRenew
  <1>3. QED BY <1>1, <1>2, RotateEffect

LEMMA LogoutRefines ==
  ASSUME IInv, NEW r \in Reqs, LogoutOne(r) \/ LogoutAll(r)
  PROVE  \E a \in Admins, T \in SUBSET Tokens : Ledger!End(a, T)
  <1> DEFINE a == req[r].adm
  <1>0. now \in Nat /\ TypeOK /\ LineageOK
    BY TTLAssumption DEF IInv, TypeOK, Time
  <1>1. a \in Admins /\ UNCHANGED sess /\ Done(r) /\ ~Renewing(r)
    BY DEF LogoutOne, LogoutAll, IInv, RequestOK, Remembers
  <1>2. \A q \in Reqs : SameClaim(q)
    BY <1>0, <1>1, Answered DEF SameClaim
  <1>3. PICK T : rows' = Revoked(rows, T) /\ \A t \in T : Stored(t) /\ t \in Tokens => sess[t].admin = a
    BY <1>0 DEF LogoutOne, LogoutAll, IInv, RequestOK, Remembers, LineageOK, Filed
  <1>4. \A t \in Tokens : /\ Unrevoked(t)' => Unrevoked(t)
                          /\ Unrevoked(t) /\ ~Unrevoked(t)' => sess[t].admin = a
    BY <1>0, <1>3, RevokedRow DEF TypeOK
  <1>5. \E T1 \in SUBSET Tokens : Ledger!End(a, T1)
    <2> HIDE DEF a
    <2>1. QED BY <1>1, <1>2, <1>4, RevokeStep
  <1>6. QED BY <1>1, <1>5

LEMMA DeleteRefines ==
  ASSUME IInv, NEW a \in Admins, Delete(a)
  PROVE  \E T \in SUBSET Tokens : Ledger!End(a, T)
  <1>1. UNCHANGED sess /\ \A q \in Reqs : SameClaim(q)
    BY DEF Delete, SameClaim
  <1>2. \A t \in Tokens : /\ Unrevoked(t)' => Unrevoked(t)
                          /\ Unrevoked(t) /\ ~Unrevoked(t)' => rows[t].admin = a
    BY DEF Delete
  <1>3. \A t \in Tokens : Stored(t) => rows[t].admin = sess[t].admin
    BY DEF IInv, LineageOK, Filed
  <1>4. QED BY <1>1, <1>2, <1>3, RevokeStep

\* The steps between two statements that touch neither the table nor a claim,
\* or that give a claim up.
LEMMA ReadRefines ==
  ASSUME IInv, NEW r \in Reqs,
         \/ RefreshLoad(r) \/ Grant(r) \/ LogoutLookup(r) \/ MeLoad(r) \/ MeAnswer(r) \/ Fail(r)
  PROVE  Ledger!Drop(r) \/ UNCHANGED Ledger!lvars
  <1>1. UNCHANGED <<rows, sess>>
    BY DEF RefreshLoad, Grant, LogoutLookup, MeLoad, MeAnswer, Fail
  <1>2. CASE Done(r)
    BY <1>1, <1>2, EndStep
  <1>3. ASSUME ~Done(r)
        PROVE  SameClaim(r) /\ \E x : req' = [req EXCEPT ![r] = x]
    BY <1>3 DEF RefreshLoad, Grant, LogoutLookup, MeLoad, MeAnswer, Fail, SameClaim,
                IInv, TypeOK, Request
  <1>4. QED BY <1>1, <1>2, <1>3, QuietStep DEF IInv

LEMMA WorldRefines ==
  ASSUME UNCHANGED <<rows, sess, req>> PROVE UNCHANGED Ledger!lvars
  BY SameState, LedgerStutter DEF SameClaim

LEMMA RefinesStep ==
  ASSUME IInv, [Next]_vars PROVE [Ledger!Next]_(Ledger!lvars)
  <1>1. ASSUME NEW r \in Reqs, Arrive(r) PROVE [Ledger!Next]_(Ledger!lvars)
    BY <1>1, ArriveRefines DEF Ledger!Next
  <1>2. ASSUME NEW r \in Reqs, Continue(r) \/ Fail(r) PROVE [Ledger!Next]_(Ledger!lvars)
    BY <1>2, LoginRefines, RotateRefines, LogoutRefines, ReadRefines DEF Continue, Ledger!Next
  <1>3. CASE Administer
    <2>1. ASSUME NEW a \in Admins, Delete(a) PROVE Ledger!Next
      BY <2>1, DeleteRefines DEF Ledger!Next
    <2>2. ASSUME NEW a \in Admins, Deactivate(a) \/ Activate(a) PROVE UNCHANGED Ledger!lvars
      BY <2>2, WorldRefines DEF Deactivate, Activate
    <2>3. QED BY <1>3, <2>1, <2>2 DEF Administer
  <1>4. CASE Tick \/ UNCHANGED vars
    BY <1>4, WorldRefines DEF Tick, vars
  <1>5. QED BY <1>1, <1>2, <1>3, <1>4 DEF Next

\* Every behaviour of AdminSessions is one of the ledger.
THEOREM Implementation == Spec => ImplementsLedger
  <1>1. Init => Ledger!Init
    BY RefinesInit
  <1>2. IInv /\ [Next]_vars => [Ledger!Next]_(Ledger!lvars)
    BY RefinesStep
  <1>3. QED BY <1>1, <1>2, Invariance, PTL DEF Spec, ImplementsLedger, Ledger!Spec

\* A session keeps its owner: every token of it, however often refreshed, is its
\* first token's account's.
THEOREM OneOwner == Spec => []OneOwnerPerSession
  <1>1. IInv => OneOwnerPerSession
    <2> SUFFICES ASSUME IInv, NEW t \in Tokens, LedgerState(t) # "unused"
                 PROVE  sess[t].admin = sess[sess[t].root].admin
      BY DEF OneOwnerPerSession, Ledger!OneOwnerPerSession, IInv, TypeOK, Lineage
    <2>1. Issued(t)
      BY DEF LedgerState
    <2>2. QED BY <2>1 DEF IInv, LineageOK, Filed, Root
  <1>2. QED BY <1>1, Invariance, PTL

=============================================================================
