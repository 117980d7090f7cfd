------------------------------ MODULE Customers ------------------------------
(***************************************************************************)
(* The storefront's side of backend/internal/auth: a customer has no        *)
(* session, every request carries initData that Telegram has signed         *)
(* (initdata.go), RequireInitData (auth.go) verifies it, and GET /me writes *)
(* the profile it carries into the customer's row and answers with the row  *)
(* (MeCustomer in service.go, UpsertCustomerByTelegramID in repo.go).       *)
(*                                                                          *)
(* A payload is the customer, the profile and auth_date; what Telegram has  *)
(* signed is a set, and the HMAC is membership in it.  The username and the *)
(* two names travel together and are one value, with one conversion: an     *)
(* empty one is stored as NULL.  Requests run side by side, in any number   *)
(* of replicas; the upsert is one statement, and what RETURNING returns is  *)
(* what it wrote.                                                           *)
(***************************************************************************)
EXTENDS Integers, FiniteSets

CONSTANTS
  Users,      \* Telegram users
  Names,      \* profiles
  Empty,      \* the profile of a user who has removed name and username
  Null,       \* SQL NULL
  NoRow,      \* no row of users has this telegram_id
  Reqs,       \* slots for requests in flight
  MaxAge,     \* InitDataMaxAge
  Skew,       \* how far auth_date may lie ahead of the host's clock
  Drift,      \* how far Telegram's clock and the host's may differ
  MaxTime,    \* bound on the clock
  MaxSigned   \* bound on the payloads Telegram signs

ASSUME WindowAssumption ==
  /\ {MaxAge, Skew, Drift, MaxTime, MaxSigned} \subseteq Nat

ASSUME UsersAssumption == IsFiniteSet(Users) /\ Users # {}

ASSUME NullAssumption == Empty \notin Names /\ Null \notin Names

Profiles == Names \union {Empty}
Payload == [user: Users, name: Profiles, date: (0 - Drift) .. (MaxTime + Drift)]
Row == [id: Nat, name: Names \union {Null}, created: Nat]

ASSUME RowAssumption == NoRow \notin Row

VARIABLES
  signed,   \* the payloads Telegram has signed so far; clients keep them
  users,    \* telegram_id -> its row of users
  req,      \* request slot -> what it is doing
  now       \* the host's clock

vars == <<signed, users, req, now>>

----------------------------------------------------------------------------
\* upsert: RequireInitData has attached the payload's user to the request.
\* answer: the row is in hand, and what is left is to send it.
PCs == {"idle", "upsert", "answer"}

NoPayload == [user |-> CHOOSE u \in Users : TRUE, name |-> Empty, date |-> 0]
NoAnswer == [id |-> 0, name |-> Null, created |-> 0]

Request == [pc: PCs, pay: Payload, row: Row]
IdleRequest == [pc |-> "idle", pay |-> NoPayload, row |-> NoAnswer]

At(r, pc) == req[r].pc = pc
Known(u) == users[u] # NoRow

Init ==
  /\ signed = {}
  /\ users = [u \in Users |-> NoRow]
  /\ req = [r \in Reqs |-> IdleRequest]
  /\ now = 0

\* NULL for an empty string, as the upsert's arguments are built.
Nullable(n) == IF n = Empty THEN Null ELSE n

\* Broken variant of InWindow: one tick too old is let in.
InWindowLate(date) == now - date <= MaxAge + 1 /\ date <= now + Skew

\* The freshness window, both ends included.
InWindow(date) == now - date <= MaxAge /\ date <= now + Skew

\* Broken variant of Verified: the hash is not compared.
VerifiedByDate(p) == InWindow(p.date)

\* VerifyInitData.
Verified(p) == InWindow(p.date) /\ p \in signed

----------------------------------------------------------------------------
\* A Telegram client opens the shop: Telegram signs the profile the user has now.
Sign(u, n) ==
  /\ Cardinality(signed) < MaxSigned
  /\ \E d \in (0 - Drift) .. Drift :
       signed' = signed \union {[user |-> u, name |-> n, date |-> now + d]}
  /\ UNCHANGED <<users, req, now>>

\* GET /me passes RequireInitData, with a payload of whatever age.
Authenticate(r, p) ==
  /\ At(r, "idle")
  /\ Verified(p)
  /\ req' = [req EXCEPT ![r] = [IdleRequest EXCEPT !.pc = "upsert", !.pay = p]]
  /\ UNCHANGED <<signed, users, now>>

\* Broken variants of Upserted: a NULL does not overwrite (COALESCE); the row is
\* replaced (REPLACE, or DELETE and INSERT).
UpsertedKeeping(u, n) ==
  IF Known(u) THEN [users[u] EXCEPT !.name = IF n = Empty THEN @ ELSE n]
              ELSE [id |-> 1 + Cardinality({v \in Users : Known(v)}), name |-> Nullable(n), created |-> now]
UpsertedAnew(u, n) ==
  [id |-> 1 + Cardinality({v \in Users : Known(v)}), name |-> Nullable(n), created |-> now]

\* INSERT ... ON CONFLICT (telegram_id) DO UPDATE: the new row, or the old one
\* with this profile.  Ids that a conflict uses up are left out.
Upserted(u, n) ==
  IF Known(u) THEN [users[u] EXCEPT !.name = Nullable(n)]
              ELSE [id |-> 1 + Cardinality({v \in Users : Known(v)}), name |-> Nullable(n), created |-> now]

Upsert(r) ==
  LET p == req[r].pay
      row == Upserted(p.user, p.name)
  IN
  /\ At(r, "upsert")
  /\ users' = [users EXCEPT ![p.user] = row]
  /\ req' = [req EXCEPT ![r].pc = "answer", ![r].row = row]
  /\ UNCHANGED <<signed, now>>

\* 200 with the row.
Answer(r) ==
  /\ At(r, "answer")
  /\ req' = [req EXCEPT ![r] = IdleRequest]
  /\ UNCHANGED <<signed, users, now>>

\* 401: no header, another scheme, a payload that is malformed, stale, not
\* Telegram's, or without a user.
Refuse(r) == At(r, "idle") /\ UNCHANGED vars

\* A database error, a client that went away, a crash of the replica.
Fail(r) ==
  /\ ~At(r, "idle")
  /\ req' = [req EXCEPT ![r] = IdleRequest]
  /\ UNCHANGED <<signed, users, now>>

Tick ==
  /\ now < MaxTime
  /\ now' = now + 1
  /\ UNCHANGED <<signed, users, req>>

Next ==
  \/ \E u \in Users, n \in Profiles : Sign(u, n)
  \/ \E r \in Reqs :
       \/ \E p \in Payload : Authenticate(r, p)
       \/ Upsert(r) \/ Answer(r) \/ Fail(r) \/ Refuse(r)
  \/ Tick

Spec == Init /\ [][Next]_vars

----------------------------------------------------------------------------
(* Properties.                                                              *)

TypeOK ==
  /\ signed \subseteq Payload
  /\ users \in [Users -> Row \union {NoRow}]
  /\ req \in [Reqs -> Request]
  /\ now \in 0 .. MaxTime

\* Ids are those of the rows that are there, each once.
IdsOK ==
  \A u \in Users : Known(u) =>
    /\ users[u].id \in 1 .. Cardinality({v \in Users : Known(v)})
    /\ \A v \in Users : Known(v) /\ users[u].id = users[v].id => u = v

\* A payload in the hands of a request was verified.
HandsOK == \A r \in Reqs : ~At(r, "idle") => req[r].pay \in signed

\* The row a request answers with is the one it wrote, and the customer's.
AnswersOK ==
  \A r \in Reqs, u \in Users : At(r, "answer") /\ req[r].pay.user = u =>
    /\ Known(u) /\ users[u].id = req[r].row.id /\ users[u].created = req[r].row.created
    /\ req[r].row.name = Nullable(req[r].pay.name)

\* auth/service.go:208-210: the customer of MeCustomer "is only ever
\* constructed" by the verification.  Whatever is stored about a customer,
\* Telegram has signed for that customer.
StoredWasSigned ==
  \A u \in Users : Known(u) =>
    \E p \in signed : p.user = u /\ Nullable(p.name) = users[u].name

IInv == TypeOK /\ IdsOK /\ HandsOK /\ AnswersOK /\ StoredWasSigned

\* Two customers never share a row, and a request that runs while others write
\* the same customer answers with the profile it was sent with, an empty one
\* included, under the customer's own id: not with a mixture.
AnswerIsOwnProfile ==
  \A r, q \in Reqs : At(r, "answer") /\ At(q, "answer") =>
    /\ req[r].row.name = Nullable(req[r].pay.name)
    /\ req[r].row.id = req[q].row.id <=> req[r].pay.user = req[q].pay.user

\* The row of a customer is made once and is there to stay, under concurrent
\* first visits too: its id, which orders refer to, and created_at never change.
RowIsStable ==
  [][\A u \in Users : Known(u) =>
       Known(u)' /\ users'[u].id = users[u].id /\ users'[u].created = users[u].created]_vars

\* initdata.go:17-22: the window bounds how long a payload can be replayed.  Once
\* all payloads with a profile are past it and no request that was admitted with
\* one is under way, that profile does not come back unless Telegram signs it anew.
Past(u, n) ==
  /\ \A p \in signed : p.user = u /\ p.name = n => p.date + MaxAge < now
  /\ \A r \in Reqs : At(r, "upsert") => ~(req[r].pay.user = u /\ req[r].pay.name = n)

Replaced(u, n) == Known(u) /\ users[u].name # Nullable(n) /\ Past(u, n)

PastProfileStaysPast ==
  [][\A u \in Users, n \in Profiles :
       Replaced(u, n) => Replaced(u, n)' \/ \E p \in signed' \ signed : p.user = u /\ p.name = n]_vars

=============================================================================
