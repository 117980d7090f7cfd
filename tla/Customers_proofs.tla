-------------------------- MODULE Customers_proofs --------------------------
(***************************************************************************)
(* Proofs about Customers: what is stored was signed, answers are not mixed *)
(* up, rows are stable, and a profile past its window stays away.           *)
(***************************************************************************)
EXTENDS Customers, FiniteSetTheorems, TLAPS

Taken == {v \in Users : Known(v)}

\* The id a new row gets is a natural number beyond those in use.
LEMMA NextId ==
  ASSUME TypeOK
  PROVE  IsFiniteSet(Taken) /\ Cardinality(Taken) \in Nat
BY UsersAssumption, FS_Subset, FS_CardinalityType DEF Taken

\* One more row.
LEMMA OneMore ==
  ASSUME TypeOK, NEW u \in Users, ~Known(u), NEW row \in Row, users' = [users EXCEPT ![u] = row]
  PROVE  /\ Taken' = Taken \union {u}
         /\ Cardinality(Taken') = Cardinality(Taken) + 1
<1>1. Taken' = Taken \union {u}
  BY RowAssumption DEF Taken, Known, TypeOK
<1>2. u \notin Taken
  BY DEF Taken
<1> QED BY <1>1, <1>2, NextId, FS_AddElement

\* What the upsert makes of a row.
LEMMA UpsertedRow ==
  ASSUME TypeOK, NEW u \in Users, NEW n \in Profiles
  PROVE  /\ Upserted(u, n) \in Row
         /\ Upserted(u, n).name = Nullable(n)
         /\ Known(u) => Upserted(u, n).id = users[u].id /\ Upserted(u, n).created = users[u].created
         /\ ~Known(u) => Upserted(u, n).id = 1 + Cardinality(Taken)
<1>1. Nullable(n) \in Names \union {Null}
  BY DEF Nullable, Profiles
<1>2. CASE Known(u)
  <2>1. users[u] \in Row
    BY <1>2 DEF TypeOK, Known
  <2> QED BY <1>1, <1>2, <2>1 DEF Upserted, Row
<1>3. CASE ~Known(u)
  <2>1. 1 + Cardinality(Taken) \in Nat /\ now \in Nat
    BY NextId, WindowAssumption DEF TypeOK
  <2>2. Upserted(u, n) = [id |-> 1 + Cardinality(Taken), name |-> Nullable(n), created |-> now]
    BY <1>3 DEF Upserted, Taken
  <2> QED BY <1>1, <1>3, <2>1, <2>2 DEF Row
<1> QED BY <1>2, <1>3

\* What an upsert does.
LEMMA UpsertEffect ==
  ASSUME IInv, NEW r \in Reqs, Upsert(r)
  PROVE  \E u \in Users, n \in Profiles, row \in Row :
           /\ req[r].pay \in signed /\ req[r].pay.user = u /\ req[r].pay.name = n
           /\ At(r, "upsert")
           /\ row = Upserted(u, n)
           /\ users' = [users EXCEPT ![u] = row]
           /\ req' = [req EXCEPT ![r].pc = "answer", ![r].row = row]
           /\ UNCHANGED <<signed, now>>
<1>1. req[r].pay \in signed /\ req[r].pay.user \in Users /\ req[r].pay.name \in Profiles
  BY DEF Upsert, IInv, TypeOK, HandsOK, At, Request, Payload
<1>2. Upserted(req[r].pay.user, req[r].pay.name) \in Row
  BY <1>1, UpsertedRow DEF IInv
<1> QED BY <1>1, <1>2 DEF Upsert

----------------------------------------------------------------------------
LEMMA UpsertKeeps ==
  ASSUME IInv, NEW r \in Reqs, Upsert(r)
  PROVE  IInv'
<1>1. PICK u \in Users, n \in Profiles, row \in Row :
           /\ req[r].pay \in signed /\ req[r].pay.user = u /\ req[r].pay.name = n
           /\ At(r, "upsert")
           /\ row = Upserted(u, n)
           /\ users' = [users EXCEPT ![u] = row]
           /\ req' = [req EXCEPT ![r].pc = "answer", ![r].row = row]
           /\ UNCHANGED <<signed, now>>
  BY UpsertEffect
<1>2. /\ row.name = Nullable(n)
      /\ Known(u) => row.id = users[u].id /\ row.created = users[u].created
      /\ ~Known(u) => row.id = 1 + Cardinality(Taken)
  BY <1>1, UpsertedRow DEF IInv
<1>3. /\ req'[r].pc = "answer" /\ req'[r].row = row /\ req'[r].pay = req[r].pay
      /\ \A q \in Reqs \ {r} : req'[q] = req[q]
      /\ req' \in [Reqs -> Request]
  BY <1>1 DEF IInv, TypeOK, Request, PCs
<1>4. TypeOK'
  BY <1>1, <1>3 DEF IInv, TypeOK
<1>5. /\ Known(u)' /\ users'[u] = row
      /\ \A v \in Users \ {u} : users'[v] = users[v] /\ Known(v)' = Known(v)
  BY <1>1, RowAssumption DEF IInv, TypeOK, Known
<1>6. IdsOK'
  <2>1. Cardinality(Taken) \in Nat /\ \A v \in Users :
          Known(v) => users[v].id \in 1 .. Cardinality(Taken)
    BY NextId DEF IInv, IdsOK, Taken
  <2>2. CASE Known(u)
    <3>1. Taken' = Taken
      BY <1>5, <2>2 DEF Taken
    <3> QED BY <1>2, <1>5, <2>1, <2>2, <3>1 DEF IInv, IdsOK, Taken
  <2>3. CASE ~Known(u)
    <3>1. Cardinality(Taken') = Cardinality(Taken) + 1
      BY <1>1, <2>3, OneMore DEF IInv
    <3>2. \A v \in Users \ {u} : Known(v) => row.id # users[v].id
      BY <1>2, <2>1, <2>3
    <3>3. row.id \in 1 .. Cardinality(Taken')
      BY <1>2, <2>1, <2>3, <3>1
    <3>4. \A v \in Users \ {u} : Known(v)' => users'[v].id \in 1 .. Cardinality(Taken')
      BY <1>5, <2>1, <3>1
    <3> QED BY <1>5, <3>2, <3>3, <3>4 DEF IInv, IdsOK, Taken
  <2> QED BY <2>2, <2>3
<1>7. HandsOK'
  BY <1>1, <1>3 DEF IInv, HandsOK, At
<1>8. AnswersOK'
  <2> SUFFICES ASSUME NEW q \in Reqs, NEW v \in Users, At(q, "answer")', req'[q].pay.user = v
               PROVE  /\ Known(v)' /\ users'[v].id = req'[q].row.id
                      /\ users'[v].created = req'[q].row.created
                      /\ req'[q].row.name = Nullable(req'[q].pay.name)
    BY DEF AnswersOK, Nullable
  <2>1. CASE q = r
    BY <1>1, <1>2, <1>3, <1>5, <2>1
  <2>2. CASE q # r
    <3>1. At(q, "answer") /\ req'[q] = req[q]
      BY <1>3, <2>2 DEF At
    <3>2. /\ Known(v) /\ users[v].id = req[q].row.id
          /\ users[v].created = req[q].row.created
          /\ req[q].row.name = Nullable(req[q].pay.name)
      BY <3>1 DEF IInv, AnswersOK
    <3> QED BY <1>2, <1>5, <3>1, <3>2
  <2> QED BY <2>1, <2>2
<1>9. StoredWasSigned'
  BY <1>1, <1>2, <1>5 DEF IInv, StoredWasSigned, Nullable
<1> QED BY <1>4, <1>6, <1>7, <1>8, <1>9 DEF IInv

\* The other steps write no row.
LEMMA OthersKeep ==
  ASSUME IInv, [Next]_vars, \A r \in Reqs : ~Upsert(r)
  PROVE  IInv'
<1>1. users' = users /\ signed \subseteq signed'
  BY DEF Next, vars, Sign, Authenticate, Answer, Fail, Refuse, Tick
<1>2. TypeOK' /\ HandsOK' /\ AnswersOK'
  <2>1. ASSUME NEW u \in Users, NEW n \in Profiles, Sign(u, n)
        PROVE  TypeOK' /\ HandsOK' /\ AnswersOK'
    <3>1. \A d \in (0 - Drift) .. Drift : now + d \in (0 - Drift) .. (MaxTime + Drift)
      BY WindowAssumption DEF IInv, TypeOK
    <3>2. TypeOK'
      BY <2>1, <3>1 DEF Sign, IInv, TypeOK, Payload
    <3> QED BY <2>1, <3>2 DEF Sign, IInv, HandsOK, AnswersOK, At, Known
  <2>2. ASSUME NEW r \in Reqs, NEW p \in Payload, Authenticate(r, p)
        PROVE  TypeOK' /\ HandsOK' /\ AnswersOK'
    <3>1. /\ req'[r].pc = "upsert" /\ req'[r].pay = p /\ p \in signed
          /\ \A q \in Reqs \ {r} : req'[q] = req[q]
          /\ req' \in [Reqs -> Request]
      BY <2>2 DEF Authenticate, Verified, IInv, TypeOK, IdleRequest, NoAnswer, Request, PCs, Row
    <3> QED BY <2>2, <3>1 DEF Authenticate, IInv, TypeOK, HandsOK, AnswersOK, At, Known
  <2>3. ASSUME NEW r \in Reqs, Answer(r) \/ Fail(r)
        PROVE  TypeOK' /\ HandsOK' /\ AnswersOK'
    <3>1. /\ req'[r].pc = "idle"
          /\ \A q \in Reqs \ {r} : req'[q] = req[q]
          /\ req' \in [Reqs -> Request]
          /\ UNCHANGED <<signed, users, now>>
      <4>1. IdleRequest \in Request /\ IdleRequest.pc = "idle"
        BY UsersAssumption, WindowAssumption
        DEF IdleRequest, Request, PCs, NoPayload, Payload, Profiles, NoAnswer, Row
      <4> QED BY <2>3, <4>1 DEF Answer, Fail, IInv, TypeOK
    <3> QED BY <3>1 DEF IInv, TypeOK, HandsOK, AnswersOK, At, Known
  <2>4. CASE Tick
    BY <2>4, WindowAssumption DEF Tick, IInv, TypeOK, HandsOK, AnswersOK, At, Known
  <2>5. CASE UNCHANGED vars
    BY <2>5 DEF vars, IInv, TypeOK, HandsOK, AnswersOK, At, Known
  <2> QED BY <2>1, <2>2, <2>3, <2>4, <2>5 DEF Next, Refuse
<1>3. IdsOK'
  BY <1>1 DEF IInv, IdsOK, Known
<1>4. StoredWasSigned'
  BY <1>1 DEF IInv, StoredWasSigned, Known
<1> QED BY <1>2, <1>3, <1>4 DEF IInv

\* The inductive invariant: ids are those of the rows, each once; a request holds what Telegram
\* signed and answers with its customer's row.
THEOREM Invariance == Spec => []IInv
<1>1. Init => IInv
  <2> SUFFICES ASSUME Init PROVE IInv
    OBVIOUS
  <2>1. IdleRequest \in Request /\ IdleRequest.pc = "idle"
    BY UsersAssumption, WindowAssumption
    DEF IdleRequest, Request, PCs, NoPayload, Payload, Profiles, NoAnswer, Row
  <2> QED BY <2>1, WindowAssumption DEF Init, IInv, TypeOK, IdsOK, HandsOK, AnswersOK,
          StoredWasSigned, At, Known
<1>2. IInv /\ [Next]_vars => IInv'
  BY UpsertKeeps, OthersKeep
<1> QED BY <1>1, <1>2, PTL DEF Spec

----------------------------------------------------------------------------
\* Whatever is stored about a customer, Telegram has signed for that customer.
THEOREM Provenance == Spec => []StoredWasSigned
<1>1. IInv => StoredWasSigned
  BY DEF IInv
<1> QED BY <1>1, Invariance, PTL

\* A request answers with the profile it was sent with, under its own customer's id.
THEOREM Answers == Spec => []AnswerIsOwnProfile
<1>1. ASSUME IInv PROVE AnswerIsOwnProfile
  <2>1. \A r \in Reqs : At(r, "answer") => \E u \in Users :
          /\ req[r].pay.user = u /\ Known(u) /\ req[r].row.id = users[u].id
          /\ req[r].row.name = Nullable(req[r].pay.name)
    BY <1>1 DEF IInv, TypeOK, Request, Payload, AnswersOK
  <2>2. \A u, v \in Users : Known(u) /\ Known(v) /\ users[u].id = users[v].id => u = v
    BY <1>1 DEF IInv, IdsOK
  <2> QED BY <2>1, <2>2 DEF AnswerIsOwnProfile
<1> QED BY <1>1, Invariance, PTL

\* The id and the creation time of a customer's row never change.
THEOREM Stability == Spec => RowIsStable
<1>1. ASSUME IInv, [Next]_vars, NEW u \in Users, Known(u)
      PROVE  Known(u)' /\ users'[u].id = users[u].id /\ users'[u].created = users[u].created
  <2>1. CASE users' = users
    BY <1>1, <2>1 DEF Known
  <2>2. ASSUME NEW r \in Reqs, Upsert(r)
        PROVE  Known(u)' /\ users'[u].id = users[u].id /\ users'[u].created = users[u].created
    <3>1. PICK w \in Users, n \in Profiles, row \in Row :
            row = Upserted(w, n) /\ users' = [users EXCEPT ![w] = row]
      BY <1>1, <2>2, UpsertEffect
    <3>2. Known(w) => row.id = users[w].id /\ row.created = users[w].created
      BY <1>1, <3>1, UpsertedRow DEF IInv
    <3> QED BY <1>1, <3>1, <3>2, RowAssumption DEF IInv, TypeOK, Known
  <2> QED BY <1>1, <2>1, <2>2 DEF Next, vars, Sign, Authenticate, Answer, Fail, Refuse, Tick
<1>2. IInv /\ [Next]_vars =>
        [\A u \in Users : Known(u) =>
           Known(u)' /\ users'[u].id = users[u].id /\ users'[u].created = users[u].created]_vars
  BY <1>1
<1> QED BY <1>2, Invariance, PTL DEF Spec, RowIsStable

\* A profile all of whose payloads are past the window, and in nobody's hands,
\* does not come back unless Telegram signs it again.
THEOREM Replay == Spec => PastProfileStaysPast
<1> DEFINE Anew(u, n) == \E p \in signed' \ signed : p.user = u /\ p.name = n
<1>1. ASSUME IInv, [Next]_vars, NEW u \in Users, NEW n \in Profiles, Replaced(u, n)
      PROVE  Replaced(u, n)' \/ Anew(u, n)
  <2> USE DEF Replaced, Past
  <2>1. ASSUME NEW w \in Users, NEW k \in Profiles, Sign(w, k) PROVE Replaced(u, n)' \/ Anew(u, n)
    BY <1>1, <2>1 DEF Sign, Known, At, Nullable
  <2>2. ASSUME NEW r \in Reqs, NEW p \in Payload, Authenticate(r, p) PROVE Replaced(u, n)'
    <3>1. p \in signed /\ ~(p.date + MaxAge < now) /\ p.date \in Int /\ now \in Int
      BY <1>1, <2>2, WindowAssumption DEF Authenticate, Verified, InWindow, Payload, IInv, TypeOK
    <3>2. ~(p.user = u /\ p.name = n)
      BY <1>1, <3>1
    <3>3. /\ req'[r].pay = p /\ \A q \in Reqs \ {r} : req'[q] = req[q]
          /\ UNCHANGED <<signed, users, now>>
      BY <1>1, <2>2 DEF Authenticate, IInv, TypeOK, IdleRequest
    <3> QED BY <1>1, <3>2, <3>3 DEF Known, At, Nullable
  <2>3. ASSUME NEW r \in Reqs, Upsert(r) PROVE Replaced(u, n)'
    <3>1. PICK w \in Users, k \in Profiles, row \in Row :
            /\ req[r].pay.user = w /\ req[r].pay.name = k /\ At(r, "upsert")
            /\ row = Upserted(w, k)
            /\ users' = [users EXCEPT ![w] = row]
            /\ req' = [req EXCEPT ![r].pc = "answer", ![r].row = row]
            /\ UNCHANGED <<signed, now>>
      BY <1>1, <2>3, UpsertEffect
    <3>2. row.name = Nullable(k)
      BY <1>1, <3>1, UpsertedRow DEF IInv
    <3>3. \A x, y \in Profiles : Nullable(x) = Nullable(y) => x = y
      BY NullAssumption DEF Nullable, Profiles
    <3>4. Known(u)' /\ users'[u].name # Nullable(n)
      BY <1>1, <3>1, <3>2, <3>3, RowAssumption DEF IInv, TypeOK, Known
    <3>5. \A q \in Reqs : At(q, "upsert")' => At(q, "upsert") /\ req'[q].pay = req[q].pay
      BY <1>1, <3>1 DEF At, IInv, TypeOK, Request
    <3> QED BY <1>1, <3>1, <3>4, <3>5 DEF Nullable
  <2>4. ASSUME NEW r \in Reqs, Answer(r) \/ Fail(r) PROVE Replaced(u, n)'
    <3>1. \A q \in Reqs : At(q, "upsert")' => At(q, "upsert") /\ req'[q].pay = req[q].pay
      BY <1>1, <2>4 DEF Answer, Fail, IdleRequest, At, IInv, TypeOK
    <3> QED BY <1>1, <2>4, <3>1 DEF Answer, Fail, Known, Nullable
  <2>5. CASE Tick
    <3>1. now' = now + 1 /\ now \in Int /\ \A p \in signed : p.date \in Int
      BY <1>1, <2>5, WindowAssumption DEF Tick, IInv, TypeOK, Payload
    <3> QED BY <1>1, <2>5, <3>1, WindowAssumption DEF Tick, Known, At, Nullable
  <2>6. CASE UNCHANGED vars
    BY <1>1, <2>6 DEF vars, Known, At, Nullable
  <2> QED BY <1>1, <2>1, <2>2, <2>3, <2>4, <2>5, <2>6 DEF Next, Refuse
<1>2. IInv /\ [Next]_vars =>
        [\A u \in Users, n \in Profiles : Replaced(u, n) => Replaced(u, n)' \/ Anew(u, n)]_vars
  BY <1>1
<1> QED BY <1>2, Invariance, PTL DEF Spec, PastProfileStaysPast

=============================================================================
