----------------------------- MODULE Migrations -----------------------------
(***************************************************************************)
(* The schema and how it changes: the ten migrations, statement by statement *)
(* in what one statement needs of another; the api processes, each of which  *)
(* runs goose.Up before it serves (postgres.Migrate), several at once and    *)
(* with no lock between them; crashes at any point and the restart policy of *)
(* docker-compose.yml; and an operator who stops the api to run the Downs.   *)
(*                                                                           *)
(* goose runs each migration in a transaction of its own, its version row    *)
(* included.  Two transactions that touch the same table wait for each other *)
(* (catalog rows, unique index, table lock), so a migration takes effect, or *)
(* fails, at its commit: one step.                                           *)
(***************************************************************************)
EXTENDS Integers, Sequences, Functions

CONSTANTS
  Replicas,     \* the api processes
  Accounts,     \* the staff accounts that may be entered
  MaxFailures,  \* bound on crashes and lost connections
  MaxStops      \* bound on the operator's maintenance windows

ASSUME BoundsAssumption == MaxFailures \in Nat /\ MaxStops \in Nat

----------------------------------------------------------------------------
(* The migrations: statements, in the order of the files.                   *)

Statement(what, obj, refs) == [what |-> what, obj |-> obj, refs |-> refs]

Create(t, refs) == Statement("create", t, refs)
Drop(t) == Statement("drop", t, {})
Column(t, c) == Statement("column", c, {t})
DropColumn(c) == Statement("drop", c, {})
Seed == Statement("seed", "", {})
Unseed == Statement("unseed", "", {})

Migration(up, down) == [up |-> up, down |-> down]

Outbox == Migration(<<Create("outbox", {})>>, <<Drop("outbox")>>)

\* Broken variant of UsersAndRoles: the tables are dropped in the order of their
\* creation.
UsersAndRolesForward == Migration(
  <<Create("roles", {}), Create("admin_users", {"roles"}), Create("users", {})>>,
  <<Drop("roles"), Drop("admin_users"), Drop("users")>>)

UsersAndRoles == Migration(
  <<Create("roles", {}), Create("admin_users", {"roles"}), Create("users", {})>>,
  <<Drop("users"), Drop("admin_users"), Drop("roles")>>)

CatalogDictionaries == Migration(
  <<Create("dictionaries", {}), Create("dictionary_values", {"dictionaries"}),
    Create("categories", {}), Create("field_definitions", {"categories", "dictionaries"})>>,
  <<Drop("field_definitions"), Drop("categories"), Drop("dictionary_values"),
    Drop("dictionaries")>>)

MediaProducts == Migration(
  <<Create("media", {}), Create("products", {"categories"}),
    Create("product_images", {"products", "media"}),
    Create("product_facets", {"products", "field_definitions", "dictionary_values"})>>,
  <<Drop("product_facets"), Drop("product_images"), Drop("products"), Drop("media")>>)

Content == Migration(<<Create("posts", {"media"})>>, <<Drop("posts")>>)

CommerceMethods == Migration(
  <<Create("delivery_methods", {}), Create("payment_methods", {})>>,
  <<Drop("payment_methods"), Drop("delivery_methods")>>)

Orders == Migration(
  <<Create("orders", {"users", "delivery_methods", "payment_methods"}),
    Create("order_items", {"orders", "products"}), Create("payments", {"orders"})>>,
  <<Drop("payments"), Drop("order_items"), Drop("orders")>>)

AdminRefreshTokens == Migration(
  <<Create("admin_refresh_tokens", {"admin_users"})>>, <<Drop("admin_refresh_tokens")>>)

SeedRoles == Migration(<<Seed>>, <<Unseed>>)

AdminUsersFullName ==
  Migration(<<Column("admin_users", "full_name")>>, <<DropColumn("full_name")>>)

\* What embed.go embeds, in the order goose sorts it.
Migrated ==
  <<Outbox, UsersAndRoles, CatalogDictionaries, MediaProducts, Content, CommerceMethods,
    Orders, AdminRefreshTokens, SeedRoles, AdminUsersFullName>>

Latest == Len(Migrated)

\* goose's own table comes first, with a row for version 0.
Versioning == Migration(<<Create("goose_db_version", {})>>, <<>>)

Versions == 0 .. Latest
Script(v) == IF v = 0 THEN Versioning ELSE Migrated[v]

----------------------------------------------------------------------------
(* PostgreSQL.                                                              *)

UpStatements == UNION {Range(Script(v).up) : v \in Versions}

\* The tables that refer to an object, by the statements that made them.
Referring(obj) == {s.obj : s \in {t \in UpStatements : t.what = "create" /\ obj \in t.refs}}

\* The objects that statements of some kinds are about.
About(statements, kinds) == {s.obj : s \in {t \in statements : t.what \in kinds}}

\* The columns that were added to tables: they go with them.
Columns(tables) ==
  {s.obj : s \in {t \in UpStatements : t.what = "column" /\ t.refs \intersect tables # {}}}

\* Broken variants of Conflict: the seed says ON CONFLICT DO NOTHING; the accounts'
\* foreign key to roles does not restrict.
ConflictQuietSeed(d, s) ==
  \/ s.what \in {"create", "column"} /\ (s.obj \in d.objs \/ ~(s.refs \subseteq d.objs))
  \/ s.what = "drop" /\ (s.obj \notin d.objs \/ Referring(s.obj) \intersect d.objs # {})
  \/ s.what \in {"seed", "unseed"} /\ "roles" \notin d.objs
  \/ s.what = "unseed" /\ d.staff # {}

ConflictUnrestricted(d, s) ==
  \/ s.what \in {"create", "column"} /\ (s.obj \in d.objs \/ ~(s.refs \subseteq d.objs))
  \/ s.what = "drop" /\ (s.obj \notin d.objs \/ Referring(s.obj) \intersect d.objs # {})
  \/ s.what \in {"seed", "unseed"} /\ "roles" \notin d.objs
  \/ s.what = "seed" /\ d.seeded

\* When a statement fails: the object is there already or is missing, or what it
\* refers to is; a table others refer to is not dropped; roles.code is unique, and
\* no role goes that an account refers to (ON DELETE RESTRICT).
Conflict(d, s) ==
  \/ s.what \in {"create", "column"} /\ (s.obj \in d.objs \/ ~(s.refs \subseteq d.objs))
  \/ s.what = "drop" /\ (s.obj \notin d.objs \/ Referring(s.obj) \intersect d.objs # {})
  \/ s.what \in {"seed", "unseed"} /\ "roles" \notin d.objs
  \/ s.what = "seed" /\ d.seeded
  \/ s.what = "unseed" /\ d.staff # {}

\* What statements do to the database.  No script drops what it creates or deletes
\* what it inserts, so what one has done by any of its statements is told by their set.
After(d, statements) ==
  LET made == About(statements, {"create", "column"})
      dropped == About(statements, {"drop"})
      has(kind) == \E s \in statements : s.what = kind
  IN  [objs   |-> (d.objs \union made) \ (dropped \union Columns(dropped)),
       seeded |-> (d.seeded \/ has("seed")) /\ ~has("unseed"),
       staff  |-> IF "admin_users" \in dropped THEN {} ELSE d.staff]

First(script, n) == {script[i] : i \in 1 .. n}

\* A script in a transaction: statement by statement, all of them, or an error.
Execute(d, script) ==
  [ok   |-> \A i \in DOMAIN script : ~Conflict(After(d, First(script, i - 1)), script[i]),
   data |-> After(d, First(script, Len(script)))]

----------------------------------------------------------------------------
VARIABLES
  db,           \* tables and columns; whether the roles are seeded; the staff accounts
  rows,         \* version -> its rows in goose_db_version
  pc,           \* replica -> where its start is
  at,           \* replica -> the version it is about to apply
  maintenance,  \* the operator has stopped the api
  refused,      \* the versions whose Down has failed
  failures, stops

vars == <<db, rows, pc, at, maintenance, refused, failures, stops>>

Empty == [objs |-> {}, seeded |-> FALSE, staff |-> {}]

\* goose.GetDBVersion: the highest version with a row; none at all: -1.
Version ==
  LET found == {v \in Versions : rows[v] > 0}
  IN  IF found = {} THEN -1 ELSE CHOOSE v \in found : \A u \in found : u <= v

Moves(r, to) == pc' = [pc EXCEPT ![r] = to]

\* The container starts, for the first time or again (restart: unless-stopped).
Start(r) ==
  /\ pc[r] = "down" /\ ~maintenance
  /\ Moves(r, "ensure")
  /\ UNCHANGED <<db, rows, at, maintenance, refused, failures, stops>>

\* goose.EnsureDBVersion: without its table, goose makes it.
Ensure(r) ==
  /\ pc[r] = "ensure"
  /\ IF "goose_db_version" \in db.objs
       THEN Moves(r, "read") /\ UNCHANGED at
       ELSE Moves(r, "apply") /\ at' = [at EXCEPT ![r] = 0]
  /\ UNCHANGED <<db, rows, maintenance, refused, failures, stops>>

\* The loop of goose.Up: the version is read, and the next one is due.
Read(r) ==
  /\ pc[r] = "read"
  /\ IF Version = Latest
       THEN Moves(r, "connect") /\ UNCHANGED at
       ELSE Moves(r, "apply") /\ at' = [at EXCEPT ![r] = Version + 1]
  /\ UNCHANGED <<db, rows, maintenance, refused, failures, stops>>

\* Broken variants of Apply: an error is logged and the api serves all the same; the
\* script runs outside the transaction that records it.
ApplyOnError(r) ==
  LET result == Execute(db, Script(at[r]).up) IN
  /\ pc[r] = "apply"
  /\ IF result.ok
       THEN db' = result.data /\ rows' = [rows EXCEPT ![at[r]] = @ + 1] /\ Moves(r, "read")
       ELSE UNCHANGED <<db, rows>> /\ Moves(r, "connect")
  /\ UNCHANGED <<at, maintenance, refused, failures, stops>>

ApplyUnrecorded(r) ==
  LET result == Execute(db, Script(at[r]).up) IN
  /\ pc[r] = "apply"
  /\ \/ /\ result.ok
        /\ db' = result.data /\ rows' = [rows EXCEPT ![at[r]] = @ + 1] /\ Moves(r, "read")
        /\ UNCHANGED failures
     \/ /\ result.ok /\ failures < MaxFailures
        /\ db' = result.data /\ UNCHANGED rows /\ Moves(r, "down")
        /\ failures' = failures + 1
     \/ ~result.ok /\ UNCHANGED <<db, rows, failures>> /\ Moves(r, "down")
  /\ UNCHANGED <<at, maintenance, refused, stops>>

\* One migration and its version row commit together.  If it fails, as it does when
\* another replica was first, Migrate returns the error and the process exits.
Apply(r) ==
  LET result == Execute(db, Script(at[r]).up) IN
  /\ pc[r] = "apply"
  /\ IF result.ok
       THEN db' = result.data /\ rows' = [rows EXCEPT ![at[r]] = @ + 1] /\ Moves(r, "read")
       ELSE UNCHANGED <<db, rows>> /\ Moves(r, "down")
  /\ UNCHANGED <<at, maintenance, refused, failures, stops>>

\* NewPool, redisx.New, and the listener.
Connect(r) ==
  /\ pc[r] = "connect"
  /\ Moves(r, "serving")
  /\ UNCHANGED <<db, rows, at, maintenance, refused, failures, stops>>

\* A crash, or an error that ends run: an open transaction is rolled back.
Fail(r) ==
  /\ pc[r] # "down" /\ failures < MaxFailures
  /\ Moves(r, "down")
  /\ failures' = failures + 1
  /\ UNCHANGED <<db, rows, at, maintenance, refused, stops>>

\* Staff accounts are entered by hand; each has one of the seeded roles.
Hire(a) ==
  /\ "admin_users" \in db.objs /\ db.seeded
  /\ db' = [db EXCEPT !.staff = @ \union {a}]
  /\ UNCHANGED <<rows, pc, at, maintenance, refused, failures, stops>>

\* The operator stops every api before a rollback, and starts them again.
Stop ==
  /\ ~maintenance /\ stops < MaxStops
  /\ maintenance' = TRUE /\ stops' = stops + 1
  /\ pc' = [r \in Replicas |-> "down"]
  /\ UNCHANGED <<db, rows, at, refused, failures>>

Resume ==
  /\ maintenance
  /\ maintenance' = FALSE
  /\ UNCHANGED <<db, rows, pc, at, refused, failures, stops>>

\* goose.Down: the Down of the current version and its row, in one transaction.
RollBack ==
  LET result == Execute(db, Script(Version).down) IN
  /\ maintenance /\ Version > 0
  /\ IF result.ok
       THEN db' = result.data /\ rows' = [rows EXCEPT ![Version] = @ - 1] /\ UNCHANGED refused
       ELSE refused' = refused \union {Version} /\ UNCHANGED <<db, rows>>
  /\ UNCHANGED <<pc, at, maintenance, failures, stops>>

Init ==
  /\ db = Empty
  /\ rows = [v \in Versions |-> 0]
  /\ pc = [r \in Replicas |-> "down"] /\ at = [r \in Replicas |-> 0]
  /\ maintenance = FALSE /\ refused = {} /\ failures = 0 /\ stops = 0

Step(r) == Start(r) \/ Ensure(r) \/ Read(r) \/ Apply(r) \/ Connect(r)

Next ==
  \/ \E r \in Replicas : Step(r) \/ Fail(r)
  \/ \E a \in Accounts : Hire(a)
  \/ Stop \/ Resume \/ RollBack

\* A process that is up goes on, and Docker restarts one that is not.
Spec == Init /\ [][Next]_vars /\ \A r \in Replicas : WF_vars(Step(r))

----------------------------------------------------------------------------
(* Properties.                                                              *)

\* Every variable has its type.
TypeOK ==
  /\ db.objs \subseteq {s.obj : s \in UpStatements}
  /\ db.seeded \in BOOLEAN /\ db.staff \subseteq Accounts
  /\ rows \in [Versions -> Nat]
  /\ pc \in [Replicas -> {"down", "ensure", "read", "apply", "connect", "serving"}]
  /\ at \in [Replicas -> Versions]
  /\ maintenance \in BOOLEAN /\ refused \subseteq Versions
  /\ failures \in 0 .. MaxFailures /\ stops \in 0 .. MaxStops

\* What the migrations up to a version build on an empty database.
Built(v) == After(Empty, UNION {Range(Script(u).up) : u \in 0 .. v})

\* However many replicas start at once, and wherever they crash: the version rows are
\* 0 to the version, each once (00009_seed_roles.sql:8: goose runs it exactly once),
\* and the schema is exactly what those migrations build.
SchemaIsVersion ==
  /\ TypeOK
  /\ \A v \in Versions : rows[v] = IF v <= Version THEN 1 ELSE 0
  /\ db.objs = Built(Version).objs /\ db.seeded = Built(Version).seeded

\* No api serves before the whole schema and the roles are there (main.go: migrations
\* are applied before serving), whoever applied them.
ServingSchemaComplete ==
  \A r \in Replicas : pc[r] = "serving" => Version = Latest /\ db = [Built(Latest) EXCEPT !.staff = db.staff]

\* No sequence of rollbacks, races and restarts loses a staff account: the RESTRICT of
\* admin_users.role_id stops the Down of the seed, and so every Down below it, the one
\* that drops admin_users among them.
RollbackKeepsAccounts == [][db.staff \subseteq db'.staff]_vars

\* Every Down works (tasks/TASK-20260716-core-schema-migrations.md:24), but that of the
\* seed while accounts refer to the roles.
RefusedOnlyForAccounts ==
  [][\A v \in refused' \ refused : Migrated[v] = SeedRoles /\ db.staff # {}]_vars

\* Every api comes to serve again and again, unless the operator has stopped it: one
\* that loses the race for a migration exits, is restarted, and finds it applied.
EveryReplicaServes == \A r \in Replicas : []<>(maintenance \/ pc[r] = "serving")
=============================================================================
