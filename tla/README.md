# A TLA+ model of tg-shop

tg-shop is a Telegram storefront. At this commit its Go backend implements the
Auth Module (staff sessions, the storefront's identity), the HTTP plumbing and
the database schema; every other operation of the contract answers 501. This
directory holds a TLA+ model of that backend, the TLC configurations that check
it on small instances, and theorems about it that TLAPS proves for every value
of the constants.

`PROJECT.json` lists the components, the runs, a broken variant of the code for
every property (the property must notice it), the source lines behind every
definition, the hazards of the code and the theorems.

## 1. The system

Three processes (`backend/cmd/api`, `worker`, `bot`) share PostgreSQL. `api` may
run in several replicas; each HTTP request is a goroutine of its own. Requests
share no memory but the connection pool: everything they have in common is in
PostgreSQL, and each of them reads and writes it in several statements, most of
them outside an explicit transaction.

| Component | State | Operations | Talks to |
|---|---|---|---|
| Staff session service (`auth/service.go`) | none of its own; the rows it read | `Login`, `Refresh`, `Logout`, `Me` | the `Store` interface, the access-token functions |
| Refresh-token storage (`auth/repo.go`, migration 00008) | table `admin_refresh_tokens` | insert, look up by hash, revoke one, revoke all, rotate (a transaction); cascade from `admin_users` | PostgreSQL |
| Access token (`auth/jwt.go`) | the JWT in the client's hands | issue, parse | nothing: no server state |
| Staff middleware (`auth/auth.go`) | identity in the request's context | `RequireAdminJWT`, `RequireRole` | `GetAdminByID` on every request |
| Handlers (`auth/handlers.go`) | the decoded body | five routes; refusals 400, 401, 422, 500 | the service |
| Refresh token (`auth/refresh_token.go`), password (`auth/password.go`) | none | generate and hash a token; argon2id | libraries |
| initData (`auth/initdata.go`) and customers (`MeCustomer`, `UpsertCustomerByTelegramID`) | table `users` | verify a signed, dated payload; upsert the profile | PostgreSQL |
| HTTP plumbing (`internal/httpx`) | the server and its connections | `BaseRouter`, `Run` with graceful shutdown, `RequestID`, `Logging`, `Recoverer`, the envelopes | all three processes |
| Processes (`cmd/*`) | pool, redis and rabbit connections, signal context | start in order, serve, close in reverse order | everything above |
| Schema (`migrations/`) | 19 tables, goose's version table | `goose.Up` at start of `api` | PostgreSQL |
| Contract preprocessing (`openapi/specprep`) | a document tree | `normalize` | build time only |
| Generated server (`openapi/openapi.gen.go`) | none | bind parameters, decode the body, call the domain's handler, write its response; 79 operations | nothing mounts it yet; domain slices will |

Where the difficulty lies:

* **Interleaving and stale reads.** `Refresh` reads a token's row, then the
  account, then opens a transaction: three moments, and a logout, another
  refresh, a deactivation or a deletion may come between any two. `Login`
  spends an argon2 computation between its read and its insert. `GET
  /admin/auth/me` reads the account twice.
* **Partial failure.** A request may fail after its commit: the client does not
  learn its new token and the old one is revoked.
* **Order.** Two requests commit in the order of their transactions, not of
  their arrival; a profile upsert takes whatever comes last.
* **Time.** Tokens expire while requests that saw them live go on.
* **Start and stop.** Migrations are applied by each replica of `api` without a
  lock; a shutdown gives requests ten seconds and then closes the pool they use.
* **Answers.** A handler can panic, be unable to encode its response, or refuse
  half way; three writers (net/http's, the wrapper of `Logging`, the handler)
  must agree on what the client got.

What makes each component correct:

* sessions: a token and its successor are never valid together; a client that
  refreshes one at a time has one usable token; revocation is final; a session
  that is over stays over; nobody ends a session of another account; a
  deactivated account stops being acted for; a delivered token has a row; a
  session never changes hands;
* customers: one row per `telegram_id`; the profile is one that Telegram signed
  within the window; an older profile may replace a newer one (the code takes the
  last writer), but not once its payloads have left the window;
* rotation transaction: both statements or neither, seen by nobody half way;
  every transaction ends, circles of row locks included;
* migrations: every version is applied once and in order, after any race, crash
  or rollback; nobody serves an incomplete schema; a rollback loses no account;
  every replica comes to serve;
* lifecycle: no request meets a closed pool while it is waited for; the exit code
  tells whether requests were abandoned; a process that is asked to stop stops;
* answers: every request is answered once, whole, with the status that is logged;
  no domain code runs without the credential the contract asks for, or for a
  request the contract does not allow;
* contract preprocessing: the copy means what the contract means, and no nullable
  idiom is left in it.

## 2. Modules

| Module | What it is |
|---|---|
| `AdminSessions` | the staff session lifecycle: the core |
| `SessionLedger` | what `admin_refresh_tokens` promises: the abstract specification that `AdminSessions` and `TokenTable` implement |
| `TokenTable` | the statements on `admin_refresh_tokens`, one by one, under READ COMMITTED with row locks |
| `Customers` | the storefront's identity: signed payloads, their window, the upsert of `GET /me` |
| `ServerLifecycle` | one process from its configuration to its exit |
| `HttpApi` | a request's way through one connection of `api`: middlewares, the hand-written handlers, the 501 stub, the generated server, any handler |
| `ContractRoutes`, `ContractBinding`, `ContractBodies`, `ContractAnswers` | the contract as the generated server has it: for each of the 79 operations its route, its schemes and parameters, its body, its declared statuses |
| `Migrations` | the ten migrations, the replicas that apply them, the operator who rolls them back |
| `SpecPrep` | the rewriting of the contract before code generation |
| `MC...` | symmetry sets, the contract's tables as constants of `HttpApi`, the documents of `SpecPrep` |
| `AdminSessions_proofs` | the inductive invariant and the theorems about safety and single steps |
| `AdminSessions_refines` | the proof that `AdminSessions` implements `SessionLedger` |
| `TokenTable_proofs`, `Customers_proofs`, `ServerLifecycle_proofs`, `HttpApi_proofs`, `Migrations_proofs`, `SpecPrep_proofs` | invariants and theorems of these modules, for `TokenTable` also that it implements `SessionLedger` |

How they meet: `SessionLedger` is the contract between the two views of the
token table. `AdminSessions` has the whole of each request and takes a
transaction as one step; `TokenTable` has one account and takes the
transactions apart. Both are shown to implement the ledger, so what is proved
of the ledger's steps holds of both. `Customers` shares nothing with them but the
pool, and `ServerLifecycle` says what becomes of any request when the process
starts or ends: a failure (`Fail`, `Rollback`) in the other modules. `HttpApi` is
what surrounds them: its one step `Serve` is, for the five hand-written
handlers, a whole request of `AdminSessions` or `Customers`, of which only the
outcome matters there. It takes the contract as a parameter, which the four
tables supply. `Migrations` is the step `migrate` of `ServerLifecycle` taken
apart.

### AdminSessions

State. `status` is `admin_users` (active, inactive, deleted); `rows` is
`admin_refresh_tokens`, with the account, the expiry and `revoked_at`; `jwts`
and `known` are the access and refresh tokens that reached a client; `req[r]` is
a request in flight: a program counter named for the statement it runs next, and
the local variables of the Go code (`tok` the token presented, `adm` the account
resolved, `new` the token created, `since` when the account was read, `seen`
the `is_active` then read); `now` is the clock. Two history variables take no
part in any guard: `sess` records the session a token belongs to (named by its
first token) and the token it replaced, `raced` the sessions two refreshes of
which overlapped.

| Action | Code |
|---|---|
| `Login`, `LoginInsert`, `Grant` | `Service.Login` up to the check of `is_active`; the INSERT of `issueTokenPair`; `IssueAccessToken` and the answer |
| `RefreshCheck`, `RefreshLoad`, `Rotate`, `Grant` | `Service.Refresh`: the row and its check; `GetAdminByID` and its check; `RotateRefreshToken`; the answer |
| `LogoutAuth`, `LogoutLookup`, `LogoutOne`, `LogoutAll` | `RequireAdminJWT` and `AdminLogout`; the lookup and comparison of the owner; the two UPDATEs |
| `MeAuth`, `MeLoad`, `MeAnswer` | `RequireAdminJWT`; `Service.Me`; the answer |
| `Refuse` | every refusal before anything was changed or remembered |
| `Fail` | a database error, a cancelled request, a crash, a lost answer, at any step |
| `Deactivate`, `Activate`, `Delete` | whoever writes `admin_users` (no code here does); the cascade of migration 00008 |
| `Tick` | time |

Each statement is one action and the Go code that follows it belongs to the same
action; the rotation's transaction is one action (its statements and row locks
are in `TokenTable`). A raw token, its hash and its row's id
name the same row and are one value. `Inserted` takes the moment at which Go
computed the expiry from anywhere between the read of the account and the
INSERT. Tokens are a finite pool: `TokenLeft` lets a request that will need a
token start only while one is left for it, so that the bound shows as a request
that never arrives and never as one that is stuck.

No code deletes a row of `admin_refresh_tokens` at this commit; only the cascade
does. Migration 00008 (line 28) announces a periodic cleanup of expired rows. When
that job is written it becomes an action here, `DeliveredTokenIsStored` has to
leave out expired tokens; for `SessionLedger` a row that goes is a token spent.

### SessionLedger

Tokens are unused, live or spent; a token opens a session (`Open`) or renews
another (`Claim`, then `Renew` or `Drop`); live tokens of one account are spent
together (`End`). `AdminSessions!Ledger` maps a row with `revoked_at` NULL to
live, any other issued token to spent, and the token a refresh remembers between
its check and its commit to a claim. The two-step renewal is the point:
a logout does not cancel a claim, so a session can come back from a logout, but
only through a claim that was open before: that is what the code keeps of "logout
must genuinely revoke access". That a session never changes hands is stated here
and proved of `AdminSessions`.

### TokenTable

The rows of one account, each with what is committed and what an open
transaction has written, the row locks, and connections each of which is in a
rotation (`Check`, `UpdateOld`, `Insert`, `Commit`), a login (`LoginInsert`), a
logout of one (`LogoutLookup`, `RevokeOne`) or of all sessions (`SweepStart`,
which takes the snapshot of the rows it will visit, `SweepRow`, `SweepCommit`),
or in the deletion of the account (`DeleteStart`, `CascadeRow`, `DeleteCommit`).
An UPDATE of a row that another transaction holds waits (it has no step), then
looks at the row again, as READ COMMITTED does; a row committed after the
statement began is not seen. `Rollback` ends a transaction at any statement: an
error, a cancelled context, the deadlock detector, a crash. The insert of a
session takes a share lock on the account's row for the foreign key, which is
what a deletion waits for.

### Customers

`signed` is what Telegram has signed so far, which clients may present again as
often as they like; `users` is the table; `req[r]` is a request between
`VerifyInitData` and its answer. Telegram's clock and the host's may differ by
`Drift`. The HMAC is membership in `signed`; `Nullable` is the conversion of an
empty field; `Upserted` is the row that `ON CONFLICT DO UPDATE` leaves. Several
profile fields travel together and are one value.

### ServerLifecycle

`program` chooses the steps of `run()`; `done` counts those taken and not undone,
which is also the stack of deferred calls; `pc` is `config`, `start`, `serve`
(the `select` of `httpx.Run`), `drain` (`Shutdown`), `unwind` (the deferred
calls), `exited` or `killed`; `err` is what `run()` returns. The listener, the
pool and the requests move beside it. A signal cancels the context that the
pings of `NewPool` and `redis.New` look at, and that `Migrate` and `rabbit.Dial`
do not. A request waits for its client (`reading`, `writing`), holds a
connection (`query`) or neither (`work`). Two details of `net/http` matter and
are in the model: requests still come on connections that were accepted earlier,
and a connection that `Shutdown` closes as idle may just have delivered a
request, which runs though nobody waits for it (`tracked` is FALSE).

### HttpApi

`pc` is where the request is, named for what runs next; `req` is what the client
sent and who serves it (`by`): a hand-written handler, the catch-all stub, the
generated strict server or its `Unimplemented`, or any handler at all, which a
domain slice might mount; `ctx` is what the request's context holds (the identity
a guard has put there, the bound parameters); `served` says whether domain code
was called; `sent` is net/http's writer (header out, status, the pieces of the
body), `seen` the status that the wrapper of `Logging` has kept, `log` the line.

| Action | Code |
|---|---|
| `Arrive`, `Finish` | `newRouter`: the route is a hand-written handler's or not; the connection is free again |
| `Panic` | `Recoverer` and `InternalError`, at any stage below it, before or after something was written |
| `Log` | `Logging`, after the handler has returned |
| `Stub` | `NotImplemented` |
| `Authenticate`, `Decode`, `Serve` | the guards; the head of each handler (identity, JSON, validation); the service's outcome and its answer |
| `Bind`, `Wrap`, `StrictDecode`, `Handle` (with `Visit`) | `ServerInterfaceWrapper`; `HandlerMiddlewares`; `strictHandler`, its middlewares and the domain's handler; the response's own encoding and writing; `Unimplemented` |
| `Scribble`, `Return` | a handler that writes statuses and chunks as it likes |

A body is empty, malformed, invalid or valid, which is what the handlers tell
apart; a credential has a scheme and holds or not. The generated server is one
for all operations: they differ in what `Contract...` says of them and in nothing
else. Each table has an entry per operation and one definition per resource.

Facts that the model makes visible and no property is about: a handler of the
strict server that returns neither a response nor an error leaves the client an
empty 200 that is logged as status 0; the 400 of binding and of decoding is plain
text and not the envelope, and comes from operations that declare no 400;
`HandlerMiddlewares` run after binding, so that a guard there would answer
after a 400; the hand-written login takes an empty body for empty fields (422)
where the generated server would refuse it (400). A client that goes away in the middle of a
request is `Fail` in `AdminSessions` and `ClientLeaves` in `ServerLifecycle`. Here
it matters where the code looks at the error of a write, which only the generated
responses do (`Visit`): the status is out, the body is not, or not all of it,
which counts as nothing, and the error handler's text goes the same way. The
hand-written handlers ignore that error.

A middleware of the strict server gets the writer and the handler it stands
before. `Handle` has those that pass the request on, that return something in the
handler's place or instead of what it returned, and guards that write their own
refusal and return nothing. One that writes an answer and returns a response
too would answer twice; none exists, and the type does not exclude it: it is a
rule for who writes one.

### Migrations

`db` is the schema as the set of tables and added columns, whether the roles are
seeded, and the staff accounts; `rows` is goose's table: how many rows each
version has, so that applying one twice would show; `pc[r]` and `at[r]` are where
a replica's start is and which version it is about to apply. A migration is its
statements in the order of the file, each with what it needs (`refs`); `Conflict`
is when PostgreSQL refuses a statement, `After` what statements do, `Execute` a
script in a transaction: each statement is tried on what those before it (`First`)
have left. `After` tells that by their set, which for these scripts is the same
(`StatementsInOrder`, section 4). A table that others refer to is not dropped; the
columns added to a table go with it (`Columns`).
`Ensure`, `Read`, `Apply` are goose's loop: it reads the version in one
transaction and applies the next migration in another, which is where the
replicas race. A migration and its version row are one transaction, and two
transactions that touch the same table, index or catalog row wait for each other,
so `Apply` is one step and whoever comes second fails. `Fail` is a crash or a lost
connection, `Start` the container's restart policy (`docker-compose.yml`). `Stop`,
`RollBack` and `Resume` are an operator's maintenance window: the api is stopped
before any Down runs (an assumption: nothing enforces it). `Hire` enters a staff
account, by hand as no code does, with a seeded role.

What a Down loses is no property: that of 00010 drops the full names, those below
00009 the rows of their tables. A rollback reaches them only while there are no
staff accounts, which `RollbackKeepsAccounts` is about.

### SpecPrep

A document is a heap of schemas, each with the keywords `type`, `oneOf`, `anyOf`
and `allOf`, and without a cycle (`Grounded`: `yaml.Unmarshal` refuses an anchor
that contains itself). `todo` holds the schemas that `normalize` has been called
with: Go ranges over maps in any order, so any of them is next. `Retyped` and
`Unioned` are the two rewritings, in the code's order; a schema moved under
`allOf` is visited like any other. `Write` either writes the copy or leaves a torn
file, and then the generator does not run.

What a document means is stated once, for the contract and for the copy: `Value`
is what one schema accepts of null, a string and an integer when its children
accept what `acc` says, and `Accepts` is the function that solves this equation.

## 3. Runs

| Run | Configuration | Shows |
|---|---|---|
| `sessions` | 1 account, 3 tokens, 2 requests, TTL 1, clock to 1 | type invariant, the inductive invariant, old and new token never both valid, one usable token per unraced session, delivered tokens stored, revocation final, dead sessions stay dead |
| `accounts` | 2 accounts, 2 tokens, 2 requests, TTL 2, clock to 2 | a session never changes hands and is revoked for its own account only, deactivation takes hold, every step is a step of the ledger |
| `table_rows` | 1 account, 2 tokens, 3 connections, no symmetry, fair | statements under row locks: rotation replaces one token by one, all or nothing; a logout of all kills every row it found; no row without its account; the ledger is implemented; every transaction ends |
| `logout_all` | 3 tokens, 2 connections | **violated**: a session survives a logout of all that began and ended while it was active |
| `customers` | 2 users, 2 profiles and the empty one, 2 requests, 2 payloads, window 1, clock to 3 | profiles stored were signed; answers are the customer's own; ids are stable; a replay ends with the window |
| `lifecycle` | 3 programs, 3 requests, 2 connections, no symmetry | the inductive invariant; exit code 0 is clean; the grace is kept; no transaction is cut; a process asked to stop ends |
| `http` | the whole contract, a handler that writes up to 2 chunks | the inductive invariant; the log has the client's status; answers are whole; guards hold; domain code sees well-formed requests |
| `migrations` | 2 replicas, 1 account, 2 failures, 2 maintenance windows | the schema is what its version says; nobody serves an incomplete one; rollbacks keep accounts and are refused for nothing else; every replica comes to serve |
| `specprep` | 9 schemas: a root with a type, `oneOf`, `anyOf`, `allOf` in all combinations, and a union below the union | the copy accepts what the contract accepts; no nullable idiom is left, nothing else changed |
| `rotated_once` | 1 account, 3 tokens, 2 requests | **violated**: one token, two successors |
| `undeclared_answers` | as `http` | **violated**: a status the contract does not declare |
| `late_error` | as `http` | **violated**: an error envelope after a status |

The bounds. Two requests are enough for every race between two statements, and
a third slot would only repeat them: no action looks at more than one other
request's effect. Three tokens give a session, its successor and either a second
successor (the race), a third generation, or another session. One tick passes
the expiry of a token and of a JWT issued before it; the second run has two
ticks and a longer refresh TTL, so that a JWT expires while its refresh token
lives. In `TokenTable` three connections are the least for a circle of waits with
a bystander; two tokens are two sessions or a session and its successor,
and `TokenTable_proofs` has the safety properties for any number. In
`Customers` two payloads are an old and a new profile (or two customers), two
requests any race of upserts, and the clock passes both payloads' window after
the later one was signed, with one tick by which Telegram's clock may differ. In
`ServerLifecycle` three requests let one wait while both connections are taken,
or a stalled client, a transaction and a late arrival meet; nothing there counts,
so there is no other bound. `http` has the whole contract, and two chunks are
enough for something after something; one connection, because requests meet only
in the database. In `migrations` two failures crash both replicas or one twice,
two windows let an operator roll back, come up and roll back again, all versions
are there, and one account is enough to restrict a role. In `specprep` the root
has every combination of keywords, also those that the contract does not use,
and two levels of unions are one more than a rewriting looks at. Symmetry is used
for safety and single-step properties only.

Fairness. `table_rows` assumes strong fairness of each connection's next
statement and weak fairness of the breaking of circles: PostgreSQL queues the
waiters of a row and serves them in order, so one that is able to go on again and
again does, and its detector ends a transaction of every circle of waits after
`deadlock_timeout`. Rotations and deletions do form circles (`Insert` wants the
account's row while it holds the old token's), and so do two logouts of all:
without the detector the run fails.

`lifecycle` assumes weak fairness of the main goroutine, whose waits have
timers or end when the database or the network answers or fails, and of the end
of a statement that holds a connection. Nothing is assumed of clients.

`migrations` assumes weak fairness of each replica's next step: a process that is
up goes on, and Docker restarts one that has exited (`restart: unless-stopped`).
Failures are bounded there; that an api comes up presupposes that it does not
crash for ever. Whether the operator ends a window is not assumed.

Deadlock is checked everywhere but in `lifecycle`, whose process ends, and in
`specprep`, whose tool does.

The violated runs state what the repository says and the code does not
keep:

* `service.go:115`, "a second "refresh" of an already-rotated token fails".
  It does when the refreshes come one after the other, which is what the test
  does. When both have read the row before either commits, both succeed:
  `RotateRefreshToken` does not look at how many rows its UPDATE changed.
  What remains true is `SerialSessionHasOneToken`.
* `repo.go:183`, "revokes every active session for adminUserID". Even when the
  refresh is in its transaction already, the one UPDATE waits for the row that the
  rotation holds, then finds it revoked, and does not see the successor, which was
  not committed when the statement began. The session was active when the logout
  began and is active when it has answered. What remains true is
  `LogoutAllRevokesWhatItFound`.
* `handlers.go:18`, "to match the contract's wire shapes and error envelope
  exactly". `AdminRefresh` answers 422 to a blank token, `AdminLogout` 400 to a
  body that is not JSON; the contract declares neither
  (`docs/api/openapi.yaml:175-177`, `195-198`).
* `middleware.go:82-88`, a panic after the first byte: "InternalError's own
  WriteHeader/body below becomes a no-op". The header does; the body is written,
  so the client gets a complete error envelope, under the status that was out.
  What remains true is `AnswerIsWhole` for the repository's own handlers, which
  write last, and `LogTellsTheAnswer` for all.

Two more statements of the repository are not kept, by the same window that
`DeadSessionStaysDead` and `DeactivationTakesHold` describe, and have no run of
their own. A refresh between its check and its commit inserts its successor after
a logout of all sessions (`service.go:168`, "every active session for adminID is
revoked"). And `Service.Me` does not look at `IsActive`, so an account deactivated
after the middleware's read is answered 200 with its profile (`handlers.go:37`,
"a deactivation is enforced identically").

## 4. Theorems

Those about `AdminSessions` hold for any sets of accounts, tokens and request
slots, any positive TTLs and any bound on the clock, under its named assumptions
(`TTLAssumption`: TTLs are positive, the clock's bound is a natural number;
`SentinelAssumption` and `RowAssumption`: the values that stand for absence are
not values of what may be absent).

`IInv` is the inductive invariant, in four parts. `TypeOK` types the variables.
`LineageOK` says of each token where it stands: an unissued one has no row and
no parent; an issued one has a root that is issued to the same account, and a
row unless its account was deleted; the parent of a token is issued and not
unrevoked. `RequestOK` says what a request in flight may rely on: which account
and token it holds, and that they belong together. It is needed because the
rotation uses what it read three statements earlier. `SerialOK` is about
sessions that were never raced: at most one unrevoked token (`OneToken`), at
most one refresh under way (`OneRefresh`), and that refresh holds that token
(`RefreshHoldsToken`): without the last one a rotation could leave a second
token behind, so "at most one usable token" is not inductive by itself.

* `Invariance`: `Spec => []IInv`, by `IInvInit` and `IInvStep` (one lemma per
  part: `TypeStep`, `LineageStep`, `RequestStep`, `SerialStep`; each has a case
  per action).
* From it: `Typing`, `RotationReplaces` (`OldAndNewNeverBothValid`),
  `DeliveredTokensAreStored`, `SerialSessions`.
* About steps, from the same invariant: `StepKinds` splits the steps into quiet
  ones (no token becomes usable, no request begins a renewal) and the three that
  are not; `LoginEffect` and `RotateEffect` say what the insertions do.
  `Revocations` (`RevocationIsFinal`) and `DeadSessions`
  (`DeadSessionStaysDead`) follow by these cases. `WritesStep` says who may
  write a row, `ActingStep` how a request comes to act for an account; `Owners`
  (`OnlyOwnerRevokes`) and `Deactivations` (`DeactivationTakesHold`) follow.
* `Implementation` (`AdminSessions_refines`): every behaviour is a behaviour of
  `SessionLedger`. One lemma per action of the ledger says what a step must do
  to the mapped state to be that action; one lemma per group of actions of
  `AdminSessions` shows that it does.
* `OneOwner` (`OneOwnerPerSession`): a session never changes hands. The ledger
  states it; `LineageOK` has it, because a successor is issued to the account
  that the token it replaces belongs to.

`TokenTable_proofs` holds for any tokens and connections. Its `IInv` says why a
transaction holds a row lock, what a rotation may rely on between its two
statements (the row it has revoked is its own until it ends, so no committed
state shows one without the other), and that a deletion of the account and an
insert exclude each other by the account's row. From it: `RotationReplaces`,
`RotationIsWhole`, `Orphans`, `LogoutsOfAll`, and `Implementation`: only
commits change the mapped ledger, and the lemmas `Writers` and `LedgerX` say
which step of the ledger each of them is.

`Customers_proofs` holds for any finite set of users, any profiles and requests,
and any window, skew, drift and bounds. `IInv` adds to the types that ids are
those of the rows, each once (this needs the finiteness of `Users`: a new id is
one more than the number of rows), that a request holds a payload Telegram
signed, and that the row it answers with is the customer's. From it
`Provenance`, `Answers`, `Stability` and `Replay`; the last needs that the
window only closes: time does not run back and a payload's date is fixed.

`ServerLifecycle_proofs` holds for any requests and any positive number of
connections. `IInv` relates the pool to the count of start-up steps, the
listener to `pc`, and says that a waiting request outlives `httpx.Run` only if
the grace is over or the listener broke, and that `err` then says so. It is
needed because the exit happens several steps after the decision. From it
`CleanExit`, `Grace` and `WholeTransactions`.

`HttpApi_proofs` holds for any contract whose routes are distinct and that has
the five hand-written operations (`ContractAssumption`), mounted and guarded as
the contract says (`MountAssumption`, which TLC evaluates on the real one), and
for any bound on what a handler writes. `IInv` says at which stage what has been
established (`Where`, `Passed`), that the writer and the wrapper agree on the
status at every moment and that nothing is written before a handler's last step
(`Written`), and that what is out is a whole answer (`Replied`). The second part
is why a panic in the repository's own handlers never comes late, and the first
is why a call of the service implies its guard. From it `LoggedStatus`,
`WholeAnswers`, `Gate` and `WellFormed`.

`Migrations_proofs` holds for any replicas and accounts and any number of
failures and maintenance windows. The scripts are data, ten of them, and the proof
needs no induction over them because of what they have in common: each object has
a `Level`, ten times the version that makes it plus the place of its statement
there; an Up makes its objects one level after the other, each above what it
refers to (`UpShapes`), and its Down drops them from the top (`DownShapes`). So
every schema on the way is "all objects under a level", and whether a statement
fails is a comparison of numbers (`UpWorks`, `UpFailsAgain`, `DownWorks`,
`UnseedWorks`). A Down that drops a table before one that refers to it has no such
shape. `IInv` says that there is one number, the version, which tells the version
rows, the schema and the seed (`DatabaseAt`); that accounts exist only with the
seed; and where a start may stand (`StartsAt`): a replica is about to apply a
version at most one above it, hence either the next one, which works, or one that
another has applied, which fails whole; one past the loop has seen the last. The
version goes back only while every replica is down (`StoppedForMaintenance`),
without which the last part would not be inductive.

* From it: `SchemaFollowsVersion` (`SchemaIsVersion`), `ServingIsComplete`
  (`ServingSchemaComplete`).
* About steps: `AccountsSurvive` (`RollbackKeepsAccounts`), `DownsWork`
  (`RefusedOnlyForAccounts`).
* `StatementsInOrder` justifies `After`: in every script, the set of the first
  statements does what they do one after the other.

`SpecPrep_proofs` holds for any set of documents without a cycle
(`DocumentsAssumption`), of any size.

* What schemas accept is well defined: any two solutions of the equation of
  `Accepts` agree on a set that is closed under children (`SolutionsAgree`), and
  one exists (`AcceptsSolves`). Both look at a schema that is wrong and has no
  child that is, which `Grounded` gives; no induction is needed.
* One visit settles a schema (`RewrittenFacts`), and makes of it what the first
  visit would have made of it in the contract, whatever was visited before
  (`VisitSettles`): no rewriting makes or destroys a bare null (`SameBare`).
* `IInv`: the copy is the contract with some schemas rewritten (`Halfway`), and
  there is a set of visited schemas whose children are visited or to be visited.
  The set cannot be read off the state, because a schema may be as it will be
  before it is visited.
* `MeaningSurvives` (`MeaningKept`): of a schema that says one thing, the
  rewritten form accepts what it accepted if its children do (`SameMeaning`); so
  what the contract's schemas accept solves the copy's equation, below the root,
  and the solution is unique.
* `FileIsReproducible`: what the generator reads is the contract with every schema
  rewritten, in any order of the walk; two runs do not differ.
* `NothingIsLeft` (`NothingLeft`) follows: what is read has been visited.

What only the theorems cover, because the runs are too small for it: two
overlapping rotations of different sessions that both commit (`accounts` and
`table_rows` have two tokens, this takes four).

Only model-checked: `EveryTransactionEnds`, `ServerStops` and
`EveryReplicaServes`, because liveness under fairness is out of the prover's reach.
The violated runs have no theorem either: they are counterexamples.

## 5. Not modelled, and what is left

* The domains that are described but have no code: catalogue, cart, orders,
  payment, outbox relay, notifications, media. Their routes answer 501, their
  tables are created by migrations, and no statement reads or writes a row. So
  the referential actions of these tables (CASCADE, RESTRICT, SET NULL) have no
  behaviour to be checked against.
* The fields of the generated models, the enums and their `Valid()` methods, which
  nothing calls, and the embedded copy of the contract: data without control. The
  runtime library's binding of a parameter is a choice.
* Cryptography (SHA-256, HMAC and argon2id are taken to be what they claim), and
  the encoding of a password's hash: pure functions of libraries.
* The parsing of initData's query string, of URLs and of the environment; wording,
  log lines other than their status, metrics, request ids, the frontends and the
  deployment.
* `RequireRole`: no route mounts it. In `HttpApi` it is one of the guards that may
  stand in `HandlerMiddlewares` or among the strict server's middlewares.
* The worker's loop, a ticker without an effect, and that it reports ready before
  the migrations are there: it reads no table yet.

* Two halves of a hazard: that a payload from a clock ahead is accepted no earlier
  than five minutes before its date has no property (`InWindow` has the bound); and
  the order in which the generated server refuses a bad parameter and a missing
  credential is as the code has it, with no statement to compare it with.

What would come next as the code grows: a module per domain slice behind
`HttpApi`'s strict server, with its handler in the place of `Handle`; the outbox
relay against the `outbox` table; the referential actions of the schema, once
something deletes rows; and a reference for the window of `VerifyInitData` with
the widths of Go's types.
