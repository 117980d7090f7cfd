-------------------------- MODULE Migrations_proofs --------------------------
(***************************************************************************)
(* Proofs about Migrations, for any replicas, accounts and bounds.           *)
(*                                                                         *)
(* Each object has a level: ten times the version that makes it, plus the    *)
(* place of its statement there.  A migration makes its objects level by     *)
(* level, each above what it refers to, and its Down drops them from the top *)
(* one; so every schema between two statements is all objects under a level, *)
(* and whether a statement fails is a comparison of numbers.                 *)
(***************************************************************************)
EXTENDS Migrations, TLAPS

Level ==
  [goose_db_version |-> 1, outbox |-> 11, roles |-> 21, admin_users |-> 22, users |-> 23,
   dictionaries |-> 31, dictionary_values |-> 32, categories |-> 33, field_definitions |-> 34,
   media |-> 41, products |-> 42, product_images |-> 43, product_facets |-> 44, posts |-> 51,
   delivery_methods |-> 61, payment_methods |-> 62, orders |-> 71, order_items |-> 72,
   payments |-> 73, admin_refresh_tokens |-> 81, full_name |-> 101]

Objects == DOMAIN Level

Under(level) == {o \in Objects : Level[o] < level}

----------------------------------------------------------------------------
(* The scripts.                                                             *)

\* There are ten migrations.
LEMMA LatestIsTen == Latest = 10 /\ Versions = 0 .. 10
  BY DEF Latest, Versions, Migrated

\* What the Ups are made of: an object of its level each, above what it refers to; but
\* that of version 9, which is the seed.
MakesAt(s, level) ==
  /\ s.what \in {"create", "column"}
  /\ s.obj \in Objects /\ Level[s.obj] = level /\ s.refs \subseteq Under(level)

UpShape(v) ==
  LET up == Script(v).up IN
  /\ Len(up) \in 1 .. 4 /\ DOMAIN up = 1 .. Len(up)
  /\ v # 9 => \A i \in 1 .. Len(up) : MakesAt(up[i], 10 * v + i)
  /\ v = 9 => up = <<Seed>>

\* What the Downs are made of: the same objects from the top.
DropsAt(s, level) == s.what = "drop" /\ s.obj \in Objects /\ Level[s.obj] = level

DownShape(v) ==
  LET down == Script(v).down
      n == Len(Script(v).up) IN
  /\ Len(down) = n /\ DOMAIN down = 1 .. n
  /\ v # 9 => \A i \in 1 .. n : DropsAt(down[i], 10 * v + n + 1 - i)
  /\ v = 9 => down = <<Unseed>>

\* The level of each object.
LEMMA LevelOf ==
  /\ "goose_db_version" \in Objects /\ Level["goose_db_version"] = 1
  /\ "outbox" \in Objects /\ Level["outbox"] = 11
  /\ "roles" \in Objects /\ Level["roles"] = 21
  /\ "admin_users" \in Objects /\ Level["admin_users"] = 22
  /\ "users" \in Objects /\ Level["users"] = 23
  /\ "dictionaries" \in Objects /\ Level["dictionaries"] = 31
  /\ "dictionary_values" \in Objects /\ Level["dictionary_values"] = 32
  /\ "categories" \in Objects /\ Level["categories"] = 33
  /\ "field_definitions" \in Objects /\ Level["field_definitions"] = 34
  /\ "media" \in Objects /\ Level["media"] = 41
  /\ "products" \in Objects /\ Level["products"] = 42
  /\ "product_images" \in Objects /\ Level["product_images"] = 43
  /\ "product_facets" \in Objects /\ Level["product_facets"] = 44
  /\ "posts" \in Objects /\ Level["posts"] = 51
  /\ "delivery_methods" \in Objects /\ Level["delivery_methods"] = 61
  /\ "payment_methods" \in Objects /\ Level["payment_methods"] = 62
  /\ "orders" \in Objects /\ Level["orders"] = 71
  /\ "order_items" \in Objects /\ Level["order_items"] = 72
  /\ "payments" \in Objects /\ Level["payments"] = 73
  /\ "admin_refresh_tokens" \in Objects /\ Level["admin_refresh_tokens"] = 81
  /\ "full_name" \in Objects /\ Level["full_name"] = 101
  BY DEF Objects, Level

\* Each statement makes its object at its level.
LEMMA EachMakes ==
  /\ MakesAt(Create("goose_db_version", {}), 1)
  /\ MakesAt(Create("outbox", {}), 11)
  /\ MakesAt(Create("roles", {}), 21)
  /\ MakesAt(Create("admin_users", {"roles"}), 22)
  /\ MakesAt(Create("users", {}), 23)
  /\ MakesAt(Create("dictionaries", {}), 31)
  /\ MakesAt(Create("dictionary_values", {"dictionaries"}), 32)
  /\ MakesAt(Create("categories", {}), 33)
  /\ MakesAt(Create("field_definitions", {"categories", "dictionaries"}), 34)
  /\ MakesAt(Create("media", {}), 41)
  /\ MakesAt(Create("products", {"categories"}), 42)
  /\ MakesAt(Create("product_images", {"products", "media"}), 43)
  /\ MakesAt(Create("product_facets", {"products", "field_definitions", "dictionary_values"}), 44)
  /\ MakesAt(Create("posts", {"media"}), 51)
  /\ MakesAt(Create("delivery_methods", {}), 61)
  /\ MakesAt(Create("payment_methods", {}), 62)
  /\ MakesAt(Create("orders", {"users", "delivery_methods", "payment_methods"}), 71)
  /\ MakesAt(Create("order_items", {"orders", "products"}), 72)
  /\ MakesAt(Create("payments", {"orders"}), 73)
  /\ MakesAt(Create("admin_refresh_tokens", {"admin_users"}), 81)
  /\ MakesAt(Column("admin_users", "full_name"), 101)
<1> USE LevelOf DEF MakesAt, Create, Column, Statement, Under
<1>1. MakesAt(Create("goose_db_version", {}), 1)
  OBVIOUS
<1>2. MakesAt(Create("outbox", {}), 11)
  OBVIOUS
<1>3. MakesAt(Create("roles", {}), 21)
  OBVIOUS
<1>4. MakesAt(Create("admin_users", {"roles"}), 22)
  OBVIOUS
<1>5. MakesAt(Create("users", {}), 23)
  OBVIOUS
<1>6. MakesAt(Create("dictionaries", {}), 31)
  OBVIOUS
<1>7. MakesAt(Create("dictionary_values", {"dictionaries"}), 32)
  OBVIOUS
<1>8. MakesAt(Create("categories", {}), 33)
  OBVIOUS
<1>9. MakesAt(Create("field_definitions", {"categories", "dictionaries"}), 34)
  OBVIOUS
<1>10. MakesAt(Create("media", {}), 41)
  OBVIOUS
<1>11. MakesAt(Create("products", {"categories"}), 42)
  OBVIOUS
<1>12. MakesAt(Create("product_images", {"products", "media"}), 43)
  OBVIOUS
<1>13. MakesAt(Create("product_facets", {"products", "field_definitions", "dictionary_values"}), 44)
  OBVIOUS
<1>14. MakesAt(Create("posts", {"media"}), 51)
  OBVIOUS
<1>15. MakesAt(Create("delivery_methods", {}), 61)
  OBVIOUS
<1>16. MakesAt(Create("payment_methods", {}), 62)
  OBVIOUS
<1>17. MakesAt(Create("orders", {"users", "delivery_methods", "payment_methods"}), 71)
  OBVIOUS
<1>18. MakesAt(Create("order_items", {"orders", "products"}), 72)
  OBVIOUS
<1>19. MakesAt(Create("payments", {"orders"}), 73)
  OBVIOUS
<1>20. MakesAt(Create("admin_refresh_tokens", {"admin_users"}), 81)
  OBVIOUS
<1>21. MakesAt(Column("admin_users", "full_name"), 101)
  OBVIOUS
<1>22. QED
  BY <1>1, <1>2, <1>3, <1>4, <1>5, <1>6, <1>7, <1>8, <1>9, <1>10, <1>11, <1>12, <1>13, <1>14, <1>15, <1>16, <1>17, <1>18, <1>19, <1>20, <1>21

\* An Up of one to four statements that make their objects in order has the shape.
LEMMA Shape1 ==
  ASSUME NEW v \in Versions, v # 9, NEW s1, Script(v).up = <<s1>>, MakesAt(s1, 10 * v + 1)
  PROVE  UpShape(v)
  BY DEF UpShape

\* Of two.
LEMMA Shape2 ==
  ASSUME NEW v \in Versions, v # 9, NEW s1, NEW s2, Script(v).up = <<s1, s2>>,
         MakesAt(s1, 10 * v + 1), MakesAt(s2, 10 * v + 2)
  PROVE  UpShape(v)
  BY DEF UpShape

\* Of three.
LEMMA Shape3 ==
  ASSUME NEW v \in Versions, v # 9, NEW s1, NEW s2, NEW s3, Script(v).up = <<s1, s2, s3>>,
         MakesAt(s1, 10 * v + 1), MakesAt(s2, 10 * v + 2), MakesAt(s3, 10 * v + 3)
  PROVE  UpShape(v)
  BY DEF UpShape

\* Of four.
LEMMA Shape4 ==
  ASSUME NEW v \in Versions, v # 9, NEW s1, NEW s2, NEW s3, NEW s4,
         Script(v).up = <<s1, s2, s3, s4>>,
         MakesAt(s1, 10 * v + 1), MakesAt(s2, 10 * v + 2), MakesAt(s3, 10 * v + 3),
         MakesAt(s4, 10 * v + 4)
  PROVE  UpShape(v)
  BY DEF UpShape

\* Every Up has the shape.
LEMMA UpShapes == ASSUME NEW v \in Versions PROVE UpShape(v)
<1>0. CASE v = 0
  BY <1>0, EachMakes, Shape1 DEF Script, Migration, Migrated, Versioning
<1>1. CASE v = 1
  BY <1>1, EachMakes, Shape1 DEF Script, Migration, Migrated, Outbox
<1>2. CASE v = 2
  BY <1>2, EachMakes, Shape3 DEF Script, Migration, Migrated, UsersAndRoles
<1>3. CASE v = 3
  BY <1>3, EachMakes, Shape4 DEF Script, Migration, Migrated, CatalogDictionaries
<1>4. CASE v = 4
  BY <1>4, EachMakes, Shape4 DEF Script, Migration, Migrated, MediaProducts
<1>5. CASE v = 5
  BY <1>5, EachMakes, Shape1 DEF Script, Migration, Migrated, Content
<1>6. CASE v = 6
  BY <1>6, EachMakes, Shape2 DEF Script, Migration, Migrated, CommerceMethods
<1>7. CASE v = 7
  BY <1>7, EachMakes, Shape3 DEF Script, Migration, Migrated, Orders
<1>8. CASE v = 8
  BY <1>8, EachMakes, Shape1 DEF Script, Migration, Migrated, AdminRefreshTokens
<1>9. CASE v = 9
  BY <1>9, EachMakes DEF UpShape, Script, Migration, Migrated, SeedRoles
<1>10. CASE v = 10
  BY <1>10, EachMakes, Shape1 DEF Script, Migration, Migrated, AdminUsersFullName
<1>11. QED
  BY LatestIsTen, <1>0, <1>1, <1>2, <1>3, <1>4, <1>5, <1>6, <1>7, <1>8, <1>9, <1>10

\* The same of the Downs.
LEMMA EachDrops ==
  /\ \A o \in Objects : DropsAt(Drop(o), Level[o])
  /\ \A o \in Objects : DropsAt(DropColumn(o), Level[o])
  BY DEF DropsAt, Drop, DropColumn, Statement

\* A Down of one to four statements that drop their objects in order has the shape.
LEMMA DownShape1 ==
  ASSUME NEW v \in Versions, v # 9,
         NEW u1,
         NEW s1,
         Script(v).up = <<u1>>, Script(v).down = <<s1>>,
         DropsAt(s1, 10 * v + 1)
  PROVE  DownShape(v)
  BY LatestIsTen DEF DownShape

\* Of two.
LEMMA DownShape2 ==
  ASSUME NEW v \in Versions, v # 9,
         NEW u1, NEW u2,
         NEW s1, NEW s2,
         Script(v).up = <<u1, u2>>, Script(v).down = <<s1, s2>>,
         DropsAt(s1, 10 * v + 2), DropsAt(s2, 10 * v + 1)
  PROVE  DownShape(v)
  BY LatestIsTen DEF DownShape

\* Of three.
LEMMA DownShape3 ==
  ASSUME NEW v \in Versions, v # 9,
         NEW u1, NEW u2, NEW u3,
         NEW s1, NEW s2, NEW s3,
         Script(v).up = <<u1, u2, u3>>, Script(v).down = <<s1, s2, s3>>,
         DropsAt(s1, 10 * v + 3), DropsAt(s2, 10 * v + 2), DropsAt(s3, 10 * v + 1)
  PROVE  DownShape(v)
  BY LatestIsTen DEF DownShape

\* Of four.
LEMMA DownShape4 ==
  ASSUME NEW v \in Versions, v # 9,
         NEW u1, NEW u2, NEW u3, NEW u4,
         NEW s1, NEW s2, NEW s3, NEW s4,
         Script(v).up = <<u1, u2, u3, u4>>, Script(v).down = <<s1, s2, s3, s4>>,
         DropsAt(s1, 10 * v + 4), DropsAt(s2, 10 * v + 3), DropsAt(s3, 10 * v + 2), DropsAt(s4, 10 * v + 1)
  PROVE  DownShape(v)
  BY LatestIsTen DEF DownShape

\* Every Down has the shape.
LEMMA DownShapes == ASSUME NEW v \in 1 .. Latest PROVE DownShape(v)
<1>1. CASE v = 1
  <2>1. DropsAt(Drop("outbox"), 10 * v + 1)
    BY <1>1, EachDrops, LevelOf
  <2>2. QED
    BY <1>1, <2>1, LatestIsTen, DownShape1 DEF Script, Migration, Migrated, Outbox
<1>2. CASE v = 2
  <2>1. /\ DropsAt(Drop("users"), 10 * v + 3)
        /\ DropsAt(Drop("admin_users"), 10 * v + 2)
        /\ DropsAt(Drop("roles"), 10 * v + 1)
    BY <1>2, EachDrops, LevelOf
  <2>2. QED
    BY <1>2, <2>1, LatestIsTen, DownShape3 DEF Script, Migration, Migrated, UsersAndRoles
<1>3. CASE v = 3
  <2>1. /\ DropsAt(Drop("field_definitions"), 10 * v + 4)
        /\ DropsAt(Drop("categories"), 10 * v + 3)
        /\ DropsAt(Drop("dictionary_values"), 10 * v + 2)
        /\ DropsAt(Drop("dictionaries"), 10 * v + 1)
    BY <1>3, EachDrops, LevelOf
  <2>2. QED
    BY <1>3, <2>1, LatestIsTen, DownShape4 DEF Script, Migration, Migrated, CatalogDictionaries
<1>4. CASE v = 4
  <2>1. /\ DropsAt(Drop("product_facets"), 10 * v + 4)
        /\ DropsAt(Drop("product_images"), 10 * v + 3)
        /\ DropsAt(Drop("products"), 10 * v + 2)
        /\ DropsAt(Drop("media"), 10 * v + 1)
    BY <1>4, EachDrops, LevelOf
  <2>2. QED
    BY <1>4, <2>1, LatestIsTen, DownShape4 DEF Script, Migration, Migrated, MediaProducts
<1>5. CASE v = 5
  <2>1. DropsAt(Drop("posts"), 10 * v + 1)
    BY <1>5, EachDrops, LevelOf
  <2>2. QED
    BY <1>5, <2>1, LatestIsTen, DownShape1 DEF Script, Migration, Migrated, Content
<1>6. CASE v = 6
  <2>1. /\ DropsAt(Drop("payment_methods"), 10 * v + 2)
        /\ DropsAt(Drop("delivery_methods"), 10 * v + 1)
    BY <1>6, EachDrops, LevelOf
  <2>2. QED
    BY <1>6, <2>1, LatestIsTen, DownShape2 DEF Script, Migration, Migrated, CommerceMethods
<1>7. CASE v = 7
  <2>1. /\ DropsAt(Drop("payments"), 10 * v + 3)
        /\ DropsAt(Drop("order_items"), 10 * v + 2)
        /\ DropsAt(Drop("orders"), 10 * v + 1)
    BY <1>7, EachDrops, LevelOf
  <2>2. QED
    BY <1>7, <2>1, LatestIsTen, DownShape3 DEF Script, Migration, Migrated, Orders
<1>8. CASE v = 8
  <2>1. DropsAt(Drop("admin_refresh_tokens"), 10 * v + 1)
    BY <1>8, EachDrops, LevelOf
  <2>2. QED
    BY <1>8, <2>1, LatestIsTen, DownShape1 DEF Script, Migration, Migrated, AdminRefreshTokens
<1>9. CASE v = 9
  BY <1>9 DEF DownShape, Script, Migration, Migrated, SeedRoles
<1>10. CASE v = 10
  <2>1. DropsAt(DropColumn("full_name"), 10 * v + 1)
    BY <1>10, EachDrops, LevelOf
  <2>2. QED
    BY <1>10, <2>1, LatestIsTen, DownShape1 DEF Script, Migration, Migrated, AdminUsersFullName
<1>11. QED
  BY LatestIsTen, <1>1, <1>2, <1>3, <1>4, <1>5, <1>6, <1>7, <1>8, <1>9, <1>10

\* Every object is made by a statement, that at its level.
MadeBy(o, v) ==
  /\ v \in Versions \ {9}
  /\ \E i \in 1 .. Len(Script(v).up) : Script(v).up[i].obj = o

\* Every object is made by some version.
LEMMA EachMade == \A o \in Objects : \E v \in Versions : MadeBy(o, v)
<1>0. \A o \in {"goose_db_version"} : MadeBy(o, 0)
  BY LatestIsTen DEF MadeBy, Script, Migration, Migrated, Versioning, Create, Column, Statement
<1>1. \A o \in {"outbox"} : MadeBy(o, 1)
  BY LatestIsTen DEF MadeBy, Script, Migration, Migrated, Outbox, Create, Column, Statement
<1>2. \A o \in {"roles", "admin_users", "users"} : MadeBy(o, 2)
  BY LatestIsTen DEF MadeBy, Script, Migration, Migrated, UsersAndRoles, Create, Column, Statement
<1>3. \A o \in {"dictionaries", "dictionary_values", "categories", "field_definitions"} : MadeBy(o, 3)
  BY LatestIsTen DEF MadeBy, Script, Migration, Migrated, CatalogDictionaries, Create, Column, Statement
<1>4. \A o \in {"media", "products", "product_images", "product_facets"} : MadeBy(o, 4)
  <2>1. /\ Script(4).up[1].obj = "media" /\ Script(4).up[2].obj = "products"
        /\ Script(4).up[3].obj = "product_images" /\ Script(4).up[4].obj = "product_facets"
        /\ Len(Script(4).up) = 4
    BY LatestIsTen DEF Script, Migration, Migrated, MediaProducts, Create, Statement
  <2>2. QED
    BY <2>1, LatestIsTen DEF MadeBy
<1>5. \A o \in {"posts"} : MadeBy(o, 5)
  BY LatestIsTen DEF MadeBy, Script, Migration, Migrated, Content, Create, Column, Statement
<1>6. \A o \in {"delivery_methods", "payment_methods"} : MadeBy(o, 6)
  BY LatestIsTen DEF MadeBy, Script, Migration, Migrated, CommerceMethods, Create, Column, Statement
<1>7. \A o \in {"orders", "order_items", "payments"} : MadeBy(o, 7)
  BY LatestIsTen DEF MadeBy, Script, Migration, Migrated, Orders, Create, Column, Statement
<1>8. \A o \in {"admin_refresh_tokens"} : MadeBy(o, 8)
  BY LatestIsTen DEF MadeBy, Script, Migration, Migrated, AdminRefreshTokens, Create, Column, Statement
<1>9. \A o \in {"full_name"} : MadeBy(o, 10)
  BY LatestIsTen DEF MadeBy, Script, Migration, Migrated, AdminUsersFullName, Create, Column, Statement
<1>10. QED
  BY <1>0, <1>1, <1>2, <1>3, <1>4, <1>5, <1>6, <1>7, <1>8, <1>9, LatestIsTen DEF Objects, Level

\* The level of an object tells where it is made.
LEMMA MadeAtLevel ==
  ASSUME NEW o \in Objects
  PROVE  \E v \in Versions \ {9}, i \in 1 .. 4 :
           /\ i \in 1 .. Len(Script(v).up)
           /\ Script(v).up[i].obj = o /\ Level[o] = 10 * v + i
<1>1. PICK v \in Versions : MadeBy(o, v)
  BY EachMade
<1>2. PICK i \in 1 .. Len(Script(v).up) : Script(v).up[i].obj = o
  BY <1>1 DEF MadeBy
<1>3. v # 9 /\ i \in 1 .. 4 /\ MakesAt(Script(v).up[i], 10 * v + i)
  BY <1>1, <1>2, UpShapes DEF MadeBy, UpShape
<1>4. QED
  BY <1>2, <1>3 DEF MakesAt

\* No two objects have the same level.
LEMMA LevelsDiffer ==
  ASSUME NEW o \in Objects, NEW p \in Objects, Level[o] = Level[p]
  PROVE  o = p
<1>1. PICK v \in Versions \ {9}, i \in 1 .. 4 : Script(v).up[i].obj = o /\ Level[o] = 10 * v + i
  BY MadeAtLevel
<1>2. PICK w \in Versions \ {9}, j \in 1 .. 4 : Script(w).up[j].obj = p /\ Level[p] = 10 * w + j
  BY MadeAtLevel
<1>3. v \in 0 .. 10 /\ w \in 0 .. 10 /\ 10 * v + i = 10 * w + j
  BY <1>1, <1>2, LatestIsTen
<1>4. v = w /\ i = j
  BY <1>3
<1>5. QED
  BY <1>1, <1>2, <1>4

\* Levels are small numbers.
LEMMA LevelType == ASSUME NEW o \in Objects PROVE Level[o] \in 1 .. 104
<1>1. PICK v \in Versions \ {9}, i \in 1 .. 4 : Level[o] = 10 * v + i
  BY MadeAtLevel
<1>2. QED
  BY <1>1, UpShapes, LatestIsTen DEF UpShape

\* Levels of two versions compare as the versions do.
LEMMA LevelsOfVersion ==
  ASSUME NEW v \in 0 .. 10, NEW w \in 0 .. 10, NEW n \in 1 .. 4, NEW i \in 1 .. 4,
         w = v => i <= n
  PROVE  10 * w + i < 10 * (v + 1) <=> 10 * w + i < 10 * v + n + 1
  OBVIOUS

\* What is under the levels of a version is what its Up and those before make.
LEMMA UnderNext ==
  ASSUME NEW v \in Versions, v # 9, NEW n, n = Len(Script(v).up)
  PROVE  Under(10 * v + n + 1) = Under(10 * (v + 1))
<1>1. v \in 0 .. 10 /\ n \in 1 .. 4
  BY UpShapes, LatestIsTen DEF UpShape
<1>2. ASSUME NEW o \in Objects
      PROVE  Level[o] < 10 * (v + 1) <=> Level[o] < 10 * v + n + 1
  <2>1. PICK w \in Versions \ {9}, i \in 1 .. 4 :
          i \in 1 .. Len(Script(w).up) /\ Level[o] = 10 * w + i
    BY MadeAtLevel
  <2>2. w \in 0 .. 10 /\ (w = v => i <= n)
    BY <2>1, LatestIsTen
  <2>3. 10 * w + i < 10 * (v + 1) <=> 10 * w + i < 10 * v + n + 1
    BY <1>1, <2>2, LevelsOfVersion
  <2>4. QED
    BY <2>1, <2>3
<1>3. QED
  BY <1>2 DEF Under

\* Version 9 makes no object.
LEMMA UnderSeed == Under(90) = Under(100)
<1>1. ASSUME NEW o \in Objects, Level[o] < 100 PROVE Level[o] < 90
  <2>1. PICK w \in Versions \ {9}, i \in 1 .. 4 : Level[o] = 10 * w + i
    BY MadeAtLevel
  <2>2. QED
    BY <1>1, <2>1, UpShapes, LatestIsTen DEF UpShape
<1>2. QED
  BY <1>1, LevelType DEF Under

\* Nothing is at the level of a version itself.
LEMMA NoObjectAt == ASSUME NEW o \in Objects, NEW v \in 0 .. 11 PROVE Level[o] # 10 * v
<1>1. PICK w \in Versions \ {9}, i \in 1 .. 4 : Level[o] = 10 * w + i
  BY MadeAtLevel
<1>2. w \in 0 .. 10
  BY LatestIsTen
<1>3. 10 * w + i # 10 * v
  BY <1>2
<1>4. QED
  BY <1>1, <1>3

----------------------------------------------------------------------------
(* What a script does to a schema that is at a version.                     *)

\* A database at a version: the objects up to it, the roles since version 9.
AtVersion(n, staff) == [objs |-> Under(10 * (n + 1)), seeded |-> n >= 9, staff |-> staff]

\* A comparison is one of the two booleans.
LEMMA SeededOrNot == ASSUME NEW n PROVE \E seeded \in BOOLEAN : seeded = (n >= 9)
<1>1. CASE n >= 9
  <2>1. TRUE = (n >= 9)
    BY <1>1
  <2>2. QED
    BY <2>1, Zenon
<1>2. CASE ~(n >= 9)
  <2>1. FALSE = (n >= 9)
    BY <1>2
  <2>2. QED
    BY <2>1, Zenon
<1>3. QED
  BY <1>1, <1>2

\* The same with the level where its objects end, for schemas between two versions.
Flags == BOOLEAN

Holding(level, seeded, staff) == [objs |-> Under(level), seeded |-> seeded, staff |-> staff]

\* No column goes where no table does.
LEMMA ColumnsOfNone == Columns({}) = {}
  BY DEF Columns

\* A prefix of an Up adds the next levels ...
LEMMA AfterMakes ==
  ASSUME NEW v \in Versions, v # 9, NEW k \in 0 .. Len(Script(v).up),
         NEW seeded \in BOOLEAN, NEW staff
  PROVE  After(Holding(10 * v, seeded, staff), First(Script(v).up, k))
           = Holding(10 * v + k + 1, seeded, staff)
<1> DEFINE S == First(Script(v).up, k)
           made == About(S, {"create", "column"})
<1> USE DEF First
<1>0. Len(Script(v).up) \in 1 .. 4
  BY UpShapes DEF UpShape
<1>1. v \in 0 .. 10 /\ k \in 0 .. 4
  <2>1. \A n \in 1 .. 4 : k \in 0 .. n => k \in 0 .. 4
    OBVIOUS
  <2>2. QED
    BY <2>1, <1>0, LatestIsTen
<1>2. \A i \in 1 .. k : i \in 1 .. 4 /\ MakesAt(Script(v).up[i], 10 * v + i)
  BY <1>1, UpShapes DEF UpShape
<1>3. \A s \in S : s.what \in {"create", "column"}
  BY <1>2 DEF MakesAt
<1>4. made = {o \in Objects : \E i \in 1 .. k : Level[o] = 10 * v + i}
  <2>1. ASSUME NEW o \in made PROVE o \in Objects /\ \E i \in 1 .. k : Level[o] = 10 * v + i
    BY <1>2 DEF MakesAt, About
  <2>2. ASSUME NEW o \in Objects, NEW i \in 1 .. k, Level[o] = 10 * v + i PROVE o \in made
    <3>1. MakesAt(Script(v).up[i], 10 * v + i) /\ Script(v).up[i] \in S
      BY <1>2
    <3>2. o = Script(v).up[i].obj
      BY <2>2, <3>1, LevelsDiffer DEF MakesAt
    <3>3. QED
      BY <3>1, <3>2, <1>3 DEF About
  <2>3. QED
    BY <2>1, <2>2
<1>5. ASSUME NEW o \in Objects
      PROVE  Level[o] < 10 * v + k + 1
               <=> Level[o] < 10 * v \/ \E i \in 1 .. k : Level[o] = 10 * v + i
  <2>1. PICK l \in 1 .. 104 : Level[o] = l
    BY LevelType
  <2>2. l # 10 * v
    BY <1>1, <2>1, NoObjectAt
  <2>3. l < 10 * v + k + 1 => l < 10 * v \/ \E i \in 1 .. k : l = 10 * v + i
    <3>1. SUFFICES ASSUME l < 10 * v + k + 1, ~(l < 10 * v) PROVE l - 10 * v \in 1 .. k /\ l = 10 * v + (l - 10 * v)
      OBVIOUS
    <3>2. QED
      BY <1>1, <2>2, <3>1
  <2>4. l < 10 * v \/ (\E i \in 1 .. k : l = 10 * v + i) => l < 10 * v + k + 1
    BY <1>1
  <2>5. QED
    BY <2>1, <2>3, <2>4
<1>6. Under(10 * v) \union made = Under(10 * v + k + 1)
  BY <1>4, <1>5 DEF Under
<1>7. About(S, {"drop"}) = {}
  BY <1>3 DEF About
<1>8. ~(\E s \in S : s.what = "seed") /\ ~(\E s \in S : s.what = "unseed")
  BY <1>3
<1> HIDE DEF S, made
<1>9. After(Holding(10 * v, seeded, staff), S) = Holding(10 * v + k + 1, seeded, staff)
  <2>1. (Under(10 * v) \union made) \ ({} \union {}) = Under(10 * v + k + 1)
    BY <1>6
  <2>2. QED
    BY <1>7, <1>8, <2>1, ColumnsOfNone DEF After, Holding, made
<1>10. QED
  BY <1>9 DEF S

\* ... none does nothing.
LEMMA AfterNone ==
  ASSUME NEW level, NEW seeded \in BOOLEAN, NEW staff, NEW script,
         NEW d, d = Holding(level, seeded, staff)
  PROVE  After(d, First(script, 0)) = d
<1>1. First(script, 0) = {}
  BY DEF First
<1>2. After(d, {}) = d
  <2>1. About({}, {"create", "column"}) = {} /\ About({}, {"drop"}) = {}
    BY DEF About
  <2>2. QED
    BY <2>1, ColumnsOfNone DEF After, Holding
<1>3. QED
  BY <1>1, <1>2

\* The Up of the next version works from where the last one ends.
LEMMA UpMakes ==
  ASSUME NEW v \in Versions, v # 9, NEW up, up = Script(v).up,
         NEW seeded \in BOOLEAN, NEW staff
  PROVE  Execute(Holding(10 * v, seeded, staff), up)
           = [ok |-> TRUE, data |-> Holding(10 * (v + 1), seeded, staff)]
<1> DEFINE d == Holding(10 * v, seeded, staff)
<1>1. PICK n \in 1 .. 4 : n = Len(up) /\ DOMAIN up = 1 .. n
  BY UpShapes DEF UpShape
<1>2. v \in 0 .. 10 /\ \A i \in 1 .. n : MakesAt(up[i], 10 * v + i)
  BY <1>1, LatestIsTen, UpShapes DEF UpShape
<1>3. ASSUME NEW i \in 1 .. n PROVE ~Conflict(After(d, First(up, i - 1)), up[i])
  <2>1. i - 1 \in 0 .. n /\ 10 * v + (i - 1) + 1 = 10 * v + i
    BY <1>1, <1>2
  <2>2. After(d, First(up, i - 1)) = Holding(10 * v + (i - 1) + 1, seeded, staff)
    BY <1>1, <2>1, AfterMakes
  <2>3. MakesAt(up[i], 10 * v + i)
    BY <1>2
  <2>4. Level[up[i].obj] = 10 * v + i /\ ~(10 * v + i < 10 * v + i)
    BY <1>2, <2>3 DEF MakesAt
  <2>5. ~Conflict(Holding(10 * v + i, seeded, staff), up[i])
    BY <2>3, <2>4 DEF Conflict, Holding, MakesAt, Under
  <2>6. QED
    BY <2>1, <2>2, <2>5
<1>4. n \in 0 .. Len(up)
  BY <1>1
<1>5. After(d, First(up, n)) = Holding(10 * v + n + 1, seeded, staff)
  BY <1>4, AfterMakes
<1>6. Holding(10 * v + n + 1, seeded, staff) = Holding(10 * (v + 1), seeded, staff)
  BY <1>1, UnderNext DEF Holding
<1> HIDE DEF d
<1>7. Execute(d, up) = [ok |-> TRUE, data |-> Holding(10 * (v + 1), seeded, staff)]
  BY <1>1, <1>3, <1>5, <1>6 DEF Execute
<1>8. QED
  BY <1>7 DEF d

\* So does the seed, which needs the roles.
LEMMA SeedWorks ==
  ASSUME NEW staff
  PROVE  Execute(AtVersion(8, staff), <<Seed>>) = [ok |-> TRUE, data |-> AtVersion(9, staff)]
<1> DEFINE d == AtVersion(8, staff)
<1>0. PICK no \in BOOLEAN : ~no
  OBVIOUS
<1>1. d = Holding(90, no, staff)
  <2>1. 10 * (8 + 1) = 90 /\ (8 >= 9) = no
    BY <1>0
  <2>2. QED
    BY <2>1 DEF AtVersion, Holding
<1>2. After(d, First(<<Seed>>, 0)) = d
  BY <1>1, AfterNone
<1>3. "roles" \in Under(90)
  BY LevelOf DEF Under
<1>4. ~Conflict(d, Seed)
  BY <1>0, <1>1, <1>3 DEF Conflict, Holding, Seed, Statement
<1>5. First(<<Seed>>, 1) = {Seed}
  BY DEF First
<1>6. After(d, {Seed}) = AtVersion(9, staff)
  <2>1. Seed.what = "seed"
    BY DEF Seed, Statement
  <2>2. /\ About({Seed}, {"create", "column"}) = {}
        /\ About({Seed}, {"drop"}) = {}
        /\ \E s \in {Seed} : s.what = "seed"
        /\ ~(\E s \in {Seed} : s.what = "unseed")
    BY <2>1 DEF About
  <2>3. After(d, {Seed}) = [objs |-> Under(90), seeded |-> TRUE, staff |-> staff]
    <3>1. (Under(90) \union {}) \ ({} \union {}) = Under(90) /\ "admin_users" \notin {}
      OBVIOUS
    <3>2. After(d, {Seed}) = [objs |-> Under(90), seeded |-> (no \/ TRUE) /\ ~FALSE, staff |-> staff]
      BY <1>1, <2>2, <3>1, ColumnsOfNone DEF After, Holding
    <3>3. ((no \/ TRUE) /\ ~FALSE) = TRUE
      BY Zenon
    <3>4. QED
      BY <3>2, <3>3
  <2>4. 10 * (9 + 1) = 100 /\ (9 >= 9) = TRUE
    OBVIOUS
  <2>5. AtVersion(9, staff) = [objs |-> Under(100), seeded |-> TRUE, staff |-> staff]
    BY <2>4 DEF AtVersion
  <2>6. QED
    BY <2>3, <2>5, UnderSeed
<1> HIDE DEF d
<1>7. Len(<<Seed>>) = 1 /\ DOMAIN <<Seed>> = 1 .. 1 /\ <<Seed>>[1] = Seed
  OBVIOUS
<1>8. \A i \in 1 .. 1 : i = 1 /\ i - 1 = 0
  OBVIOUS
<1>9. Execute(d, <<Seed>>) = [ok |-> TRUE, data |-> AtVersion(9, staff)]
  BY <1>2, <1>4, <1>5, <1>6, <1>7, <1>8 DEF Execute
<1>10. QED
  BY <1>9 DEF d

\* The Up of the next version always works, and leads there ...
LEMMA UpWorks ==
  ASSUME NEW v \in Versions, NEW staff
  PROVE  Execute(AtVersion(v - 1, staff), Script(v).up) = [ok |-> TRUE, data |-> AtVersion(v, staff)]
<1>1. v \in 0 .. 10
  BY LatestIsTen
<1>2. CASE v # 9
  <2>1. PICK seeded \in BOOLEAN : seeded = (v >= 9)
    BY SeededOrNot
  <2>2. 10 * (v - 1 + 1) = 10 * v /\ (v - 1 >= 9) = seeded
    BY <1>1, <1>2, <2>1
  <2>3. AtVersion(v - 1, staff) = Holding(10 * v, seeded, staff)
    BY <2>2 DEF AtVersion, Holding
  <2>4. AtVersion(v, staff) = Holding(10 * (v + 1), seeded, staff)
    BY <2>1 DEF AtVersion, Holding
  <2>5. QED
    BY <1>2, <2>3, <2>4, UpMakes
<1>3. CASE v = 9
  <2>1. Script(v).up = <<Seed>> /\ v - 1 = 8
    BY <1>3, UpShapes DEF UpShape
  <2>2. QED
    BY <1>3, <2>1, SeedWorks
<1>4. QED
  BY <1>2, <1>3

\* ... and that of a version the schema has already never does: its first statement
\* makes what is there.
LEMMA UpFailsAgain ==
  ASSUME NEW v \in Versions, NEW n \in v .. Latest, NEW staff
  PROVE  ~Execute(AtVersion(n, staff), Script(v).up).ok
<1> DEFINE d == AtVersion(n, staff)
<1>1. v \in 0 .. 10 /\ n \in 0 .. 10 /\ v <= n
  BY LatestIsTen
<1>2. 1 \in DOMAIN Script(v).up
  BY UpShapes DEF UpShape
<1>3. After(d, First(Script(v).up, 0)) = d
  <2>1. PICK seeded \in BOOLEAN : seeded = (n >= 9)
    BY SeededOrNot
  <2>2. d = Holding(10 * (n + 1), seeded, staff)
    BY <2>1 DEF AtVersion, Holding
  <2>3. QED
    BY <2>2, AfterNone
<1>4. Conflict(d, Script(v).up[1])
  <2>1. CASE v # 9
    <3>1. PICK len \in 1 .. 4 : len = Len(Script(v).up)
      BY UpShapes DEF UpShape
    <3>2. MakesAt(Script(v).up[1], 10 * v + 1)
      BY <2>1, <3>1, UpShapes DEF UpShape
    <3>3. 10 * v + 1 < 10 * (n + 1)
      BY <1>1
    <3>4. Script(v).up[1].obj \in d.objs
      BY <3>2, <3>3 DEF MakesAt, Under, AtVersion
    <3>5. QED
      BY <3>2, <3>4 DEF Conflict, MakesAt
  <2>2. CASE v = 9
    <3>1. Script(v).up = <<Seed>> /\ Seed.what = "seed"
      BY <2>2, UpShapes DEF UpShape, Seed, Statement
    <3>2. d.seeded
      BY <1>1, <2>2 DEF AtVersion
    <3>3. QED
      BY <3>1, <3>2 DEF Conflict
  <2>3. QED
    BY <2>1, <2>2
<1> HIDE DEF d
<1>5. ~Execute(d, Script(v).up).ok
  <2>1. 1 - 1 = 0
    OBVIOUS
  <2>2. QED
    BY <1>2, <1>3, <1>4, <2>1 DEF Execute
<1>6. QED
  BY <1>5 DEF d

\* What a statement refers to is below what it makes.
LEMMA RefersBelow ==
  ASSUME NEW s \in UpStatements, NEW o \in s.refs, o \in Objects
  PROVE  s.obj \in Objects /\ Level[o] < Level[s.obj]
<1>1. PICK v \in Versions : s \in Range(Script(v).up)
  BY DEF UpStatements
<1>2. PICK i \in DOMAIN Script(v).up : s = Script(v).up[i]
  BY <1>1 DEF Range
<1>3. v # 9
  <2>1. SUFFICES ASSUME v = 9 PROVE FALSE
    OBVIOUS
  <2>2. Script(v).up = <<Seed>> /\ Seed.refs = {}
    BY <2>1, UpShapes DEF UpShape, Seed, Statement
  <2>3. QED
    BY <1>2, <2>2
<1>4. MakesAt(Script(v).up[i], 10 * v + i)
  BY <1>2, <1>3, UpShapes DEF UpShape
<1>5. QED
  BY <1>2, <1>4 DEF MakesAt, Under

\* What refers to an object is made above it ...
LEMMA ReferringAbove ==
  ASSUME NEW o \in Objects, NEW p \in Referring(o)
  PROVE  p \in Objects /\ Level[o] < Level[p]
<1>1. PICK s \in UpStatements : p = s.obj /\ o \in s.refs
  BY DEF Referring
<1>2. QED
  BY <1>1, RefersBelow

\* ... and so is a column above its table.
LEMMA ColumnsAbove ==
  ASSUME NEW tables \in SUBSET Objects, NEW p \in Columns(tables)
  PROVE  p \in Objects /\ \E o \in tables : Level[o] < Level[p]
<1>1. PICK s \in UpStatements : p = s.obj /\ s.refs \intersect tables # {}
  BY DEF Columns
<1>2. PICK o \in tables : o \in s.refs
  BY <1>1
<1>3. QED
  BY <1>1, <1>2, RefersBelow

\* k levels under a top.
LEMMA Lowered ==
  ASSUME NEW top \in Int, NEW k \in Nat, NEW l \in Int
  PROVE  l < top - k <=> l < top /\ ~(\E i \in 1 .. k : l = top - i)
<1>1. l < top /\ ~(l < top - k) => top - l \in 1 .. k /\ l = top - (top - l)
  OBVIOUS
<1>2. QED
  BY <1>1

\* Only the Down of version 2 drops the accounts' table.
LEMMA StaffLevel ==
  ASSUME NEW v \in 0 .. 10, NEW n \in 1 .. 4, NEW i \in 1 .. n, 10 * v + n + 1 - i = 22
  PROVE  v = 2
  OBVIOUS

\* A prefix of a Down takes the highest levels; the accounts go with their table.
DropsFrom(down, v, n) == \A i \in 1 .. n : DropsAt(down[i], 10 * v + n + 1 - i)

Dropping(v, n, k, down, staff, top, low) ==
  /\ v \in 0 .. 10 /\ n \in 1 .. 4 /\ k \in 0 .. n
  /\ DropsFrom(down, v, n)
  /\ v = 2 => staff = {}
  /\ top = 10 * v + n + 1 /\ low = top - k

\* What such a prefix leaves.
LEMMA AfterDrops ==
  ASSUME NEW v, NEW n, NEW k, NEW down, NEW staff, NEW top, NEW low,
         Dropping(v, n, k, down, staff, top, low), NEW seeded \in Flags
  PROVE  After(Holding(top, seeded, staff), First(down, k)) = Holding(low, seeded, staff)
<1> USE DEF Dropping
<1> DEFINE S == First(down, k)
           dropped == About(S, {"drop"})
<1>1. top \in Int /\ k \in Nat /\ low = top - k
  OBVIOUS
<1>2. \A i \in 1 .. k : i \in 1 .. n /\ DropsAt(down[i], top - i)
  <2>1. \A i \in 1 .. k : i \in 1 .. n
    OBVIOUS
  <2>2. QED
    BY <2>1 DEF DropsFrom
<1>3. \A s \in S : s.what = "drop"
  BY <1>2 DEF DropsAt, First
<1>4. dropped = {o \in Objects : \E i \in 1 .. k : Level[o] = top - i}
  <2>1. ASSUME NEW o \in dropped PROVE o \in Objects /\ \E i \in 1 .. k : Level[o] = top - i
    BY <1>2 DEF DropsAt, First, About
  <2>2. ASSUME NEW o \in Objects, NEW i \in 1 .. k, Level[o] = top - i PROVE o \in dropped
    <3>1. DropsAt(down[i], top - i) /\ down[i] \in S
      BY <1>2 DEF First
    <3>2. o = down[i].obj
      BY <2>2, <3>1, LevelsDiffer DEF DropsAt
    <3>3. QED
      BY <3>1, <3>2, <1>3 DEF About
  <2>3. QED
    BY <2>1, <2>2
<1>5. ASSUME NEW o \in Objects
      PROVE  Level[o] < low
               <=> Level[o] < top /\ ~(\E i \in 1 .. k : Level[o] = top - i)
  <2>1. PICK l \in 1 .. 104 : Level[o] = l
    BY LevelType
  <2>2. l < low
          <=> l < top /\ ~(\E i \in 1 .. k : l = top - i)
    BY <1>1, Lowered
  <2>3. QED
    BY <2>1, <2>2
<1>6. ASSUME NEW p \in Columns(dropped), p \in Under(low) PROVE FALSE
  <2>1. dropped \in SUBSET Objects
    BY <1>4
  <2>2. PICK o \in dropped : p \in Objects /\ Level[o] < Level[p]
    BY <1>6, <2>1, ColumnsAbove
  <2>3. PICK i \in 1 .. k : o \in Objects /\ Level[o] = top - i
    BY <1>4, <2>2
  <2>4. Level[p] < low /\ Level[p] \in 1 .. 104
    BY <1>6, <2>2, LevelType DEF Under
  <2>5. QED
    BY <1>1, <2>2, <2>3, <2>4
<1>7. Under(top) \ (dropped \union Columns(dropped)) = Under(low)
  <2>1. Under(top) \ dropped = Under(low)
    BY <1>4, <1>5 DEF Under
  <2>2. QED
    BY <1>6, <2>1
<1>8. /\ About(S, {"create", "column"}) = {}
      /\ ~(\E s \in S : s.what = "seed") /\ ~(\E s \in S : s.what = "unseed")
  BY <1>3 DEF About
<1>9. "admin_users" \in dropped => staff = {}
  <2>1. ASSUME NEW i \in 1 .. k, top - i = 22 PROVE v = 2
    BY <1>2, <2>1, StaffLevel
  <2>2. QED
    BY <1>4, <2>1, LevelOf
<1> HIDE DEF S, dropped
<1>10. After(Holding(top, seeded, staff), S) = Holding(low, seeded, staff)
  <2>1. (Under(top) \union {}) \ (dropped \union Columns(dropped)) = Under(low)
    BY <1>7
  <2>2. (IF "admin_users" \in dropped THEN {} ELSE staff) = staff
    BY <1>9
  <2>3. ((seeded \/ FALSE) /\ ~FALSE) = seeded
    BY Zenon DEF Flags
  <2>4. QED
    BY <1>8, <2>1, <2>2, <2>3 DEF After, Holding, dropped
<1>11. QED
  BY <1>10 DEF S

\* The Down of a version but the seed's works from where its Up ends, if the accounts
\* are not there to be lost.
LEMMA DownDrops ==
  ASSUME NEW v \in 1 .. Latest, v # 9, NEW down, down = Script(v).down,
         NEW seeded \in Flags, NEW staff, v = 2 => staff = {}
  PROVE  Execute(Holding(10 * (v + 1), seeded, staff), down)
           = [ok |-> TRUE, data |-> Holding(10 * v, seeded, staff)]
<1>1. v \in 0 .. 10 /\ v \in Versions
  BY LatestIsTen
<1>2. PICK n \in 1 .. 4 : n = Len(Script(v).up)
  BY <1>1, UpShapes DEF UpShape
<1>3. n = Len(down) /\ DOMAIN down = 1 .. n /\ DropsFrom(down, v, n)
  BY <1>2, DownShapes DEF DownShape, DropsFrom
<1> DEFINE d == Holding(10 * v + n + 1, seeded, staff)
<1>4. Holding(10 * (v + 1), seeded, staff) = d
  BY <1>1, <1>2, UnderNext DEF Holding
<1> HIDE DEF d
<1>5. ASSUME NEW k \in 0 .. n, NEW low, low = 10 * v + n + 1 - k
      PROVE  After(d, First(down, k)) = Holding(low, seeded, staff)
  <2>1. PICK top : top = 10 * v + n + 1
    OBVIOUS
  <2>2. low = top - k
    BY <1>5, <2>1
  <2>3. After(Holding(top, seeded, staff), First(down, k)) = Holding(low, seeded, staff)
    <3>1. Dropping(v, n, k, down, staff, top, low)
      BY <1>1, <1>3, <2>1, <2>2 DEF Dropping
    <3>2. QED
      BY <3>1, AfterDrops
  <2>4. QED
    BY <2>1, <2>3 DEF d
<1>6. ASSUME NEW i \in 1 .. n PROVE ~Conflict(After(d, First(down, i - 1)), down[i])
  <2>1. PICK k \in 0 .. n : k = i - 1
    OBVIOUS
  <2>3. PICK l \in Nat : l = 10 * v + n + 1 - i /\ l + 1 = 10 * v + n + 1 - k
    BY <1>1, <2>1
  <2>2. After(d, First(down, k)) = Holding(l + 1, seeded, staff)
    BY <1>5, <2>3
  <2>4. DropsAt(down[i], l)
    BY <1>3, <2>3 DEF DropsFrom
  <2>5. down[i].obj \in Under(l + 1)
    BY <2>4 DEF DropsAt, Under
  <2>6. ASSUME NEW p \in Referring(down[i].obj), p \in Under(l + 1) PROVE FALSE
    <3>1. p \in Objects /\ Level[p] < l + 1 /\ Level[down[i].obj] = l
      BY <2>4, <2>6 DEF DropsAt, Under
    <3>2. l < Level[p]
      BY <2>4, <3>1, ReferringAbove DEF DropsAt
    <3>3. Level[p] \in 1 .. 104
      BY <3>1, LevelType
    <3>4. QED
      BY <3>1, <3>2, <3>3
  <2>7. down[i].what = "drop"
    BY <2>4 DEF DropsAt
  <2>8. ~Conflict(Holding(l + 1, seeded, staff), down[i])
    BY <2>5, <2>6, <2>7 DEF Conflict, Holding
  <2>9. QED
    BY <2>1, <2>2, <2>8
<1>7. After(d, First(down, n)) = Holding(10 * v, seeded, staff)
  <2>1. n \in 0 .. n /\ 10 * v + n + 1 - n = 10 * v + 1
    BY <1>1
  <2>2. After(d, First(down, n)) = Holding(10 * v + n + 1 - n, seeded, staff)
    BY <1>5, <2>1
  <2>3. ASSUME NEW o \in Objects PROVE Level[o] < 10 * v + 1 <=> Level[o] < 10 * v
    <3>1. PICK l \in 1 .. 104 : Level[o] = l /\ l # 10 * v
      BY <1>1, LevelType, NoObjectAt
    <3>2. l < 10 * v + 1 <=> l < 10 * v
      BY <1>1, <3>1
    <3>3. QED
      BY <3>1, <3>2
  <2>4. QED
    BY <2>1, <2>2, <2>3 DEF Holding, Under
<1>8. Execute(d, down) = [ok |-> TRUE, data |-> Holding(10 * v, seeded, staff)]
  BY <1>3, <1>6, <1>7 DEF Execute
<1>9. QED
  BY <1>4, <1>8

\* The same of the database at a version.
LEMMA DownWorks ==
  ASSUME NEW v \in 1 .. Latest, v # 9, NEW staff, v = 2 => staff = {}
  PROVE  Execute(AtVersion(v, staff), Script(v).down)
           = [ok |-> TRUE, data |-> AtVersion(v - 1, staff)]
<1>1. v \in 0 .. 10
  BY LatestIsTen
<1>2. PICK seeded \in BOOLEAN : seeded = (v >= 9)
  BY SeededOrNot
<1>3. 10 * (v - 1 + 1) = 10 * v /\ (v - 1 >= 9) = seeded
  BY <1>1, <1>2
<1>4. AtVersion(v - 1, staff) = Holding(10 * v, seeded, staff)
  BY <1>3 DEF AtVersion, Holding
<1>5. AtVersion(v, staff) = Holding(10 * (v + 1), seeded, staff)
  BY <1>2 DEF AtVersion, Holding
<1>6. QED
  BY <1>4, <1>5, DownDrops DEF Flags

\* That of the seed works if and only if no account has a role.
LEMMA UnseedWorks ==
  ASSUME NEW staff
  PROVE  LET result == Execute(AtVersion(9, staff), Script(9).down) IN
         /\ result.ok <=> staff = {}
         /\ result.data = AtVersion(8, staff)
<1> DEFINE d == AtVersion(9, staff)
<1>0. PICK yes \in BOOLEAN : yes = TRUE
  OBVIOUS
<1>1. d = Holding(100, yes, staff)
  <2>1. 10 * (9 + 1) = 100 /\ (9 >= 9) = TRUE
    OBVIOUS
  <2>2. QED
    BY <1>0, <2>1 DEF AtVersion, Holding
<1>2. After(d, First(<<Unseed>>, 0)) = d
  BY <1>1, AfterNone
<1>3. "roles" \in Under(100)
  BY LevelOf DEF Under
<1>4. Conflict(d, Unseed) <=> staff # {}
  BY <1>0, <1>1, <1>3 DEF Conflict, Holding, Unseed, Statement
<1>5. First(<<Unseed>>, 1) = {Unseed}
  BY DEF First
<1>6. After(d, {Unseed}) = AtVersion(8, staff)
  <2>1. Unseed.what = "unseed"
    BY DEF Unseed, Statement
  <2>2. /\ About({Unseed}, {"create", "column"}) = {}
        /\ About({Unseed}, {"drop"}) = {}
        /\ ~(\E s \in {Unseed} : s.what = "seed")
        /\ \E s \in {Unseed} : s.what = "unseed"
    BY <2>1 DEF About
  <2>3. After(d, {Unseed}) = [objs |-> Under(100), seeded |-> FALSE, staff |-> staff]
    <3>1. (Under(100) \union {}) \ ({} \union {}) = Under(100) /\ "admin_users" \notin {}
      OBVIOUS
    <3>2. After(d, {Unseed}) = [objs |-> Under(100), seeded |-> (yes \/ FALSE) /\ ~TRUE, staff |-> staff]
      BY <1>1, <2>2, <3>1, ColumnsOfNone DEF After, Holding
    <3>3. ((yes \/ FALSE) /\ ~TRUE) = FALSE
      BY Zenon
    <3>4. QED
      BY <3>2, <3>3
  <2>4. 10 * (8 + 1) = 90 /\ (8 >= 9) = FALSE
    OBVIOUS
  <2>5. AtVersion(8, staff) = [objs |-> Under(90), seeded |-> FALSE, staff |-> staff]
    BY <2>4 DEF AtVersion
  <2>6. QED
    BY <2>3, <2>5, UnderSeed
<1> HIDE DEF d
<1>7. Len(<<Unseed>>) = 1 /\ DOMAIN <<Unseed>> = 1 .. 1 /\ <<Unseed>>[1] = Unseed
  OBVIOUS
<1>8. \A i \in 1 .. 1 : i = 1 /\ i - 1 = 0
  OBVIOUS
<1>9. 1 \in 1 .. 1
  OBVIOUS
<1>10. (Execute(d, <<Unseed>>).ok <=> staff = {}) /\ Execute(d, <<Unseed>>).data = AtVersion(8, staff)
  BY <1>2, <1>4, <1>5, <1>6, <1>7, <1>8, <1>9 DEF Execute
<1>11. Script(9).down = <<Unseed>>
  BY DownShapes, LatestIsTen DEF DownShape
<1>12. QED
  BY <1>10, <1>11 DEF d

\* What a statement of a version's Up is.
OfVersion(s, v) ==
  \/ v # 9 /\ \E level \in 10 * v + 1 .. 10 * v + 4 : MakesAt(s, level)
  \/ v = 9 /\ s = Seed

\* Every statement of an Up is of its version.
LEMMA EachOfVersion ==
  ASSUME NEW v \in Versions, NEW s \in Range(Script(v).up)
  PROVE  OfVersion(s, v)
<1>1. PICK i \in DOMAIN Script(v).up : s = Script(v).up[i]
  BY DEF Range
<1>2. CASE v # 9
  <2>1. PICK n \in 1 .. 4 : DOMAIN Script(v).up = 1 .. n
    BY UpShapes DEF UpShape
  <2>2. i \in 1 .. 4 /\ MakesAt(s, 10 * v + i)
    BY <1>1, <1>2, <2>1, UpShapes DEF UpShape
  <2>3. 10 * v + i \in 10 * v + 1 .. 10 * v + 4
    BY <2>2, LatestIsTen
  <2>4. QED
    BY <1>2, <2>2, <2>3 DEF OfVersion
<1>3. CASE v = 9
  <2>1. Script(v).up = <<Seed>>
    BY <1>3, UpShapes DEF UpShape
  <2>2. QED
    BY <1>1, <1>3, <2>1 DEF OfVersion
<1>4. QED
  BY <1>2, <1>3

\* Built is the schema of a version, without accounts.
LEMMA BuiltIs ==
  ASSUME NEW n \in -1 .. Latest
  PROVE  /\ Built(n).objs = Under(10 * (n + 1))
         /\ Built(n).seeded = (n >= 9)
         /\ Built(n).staff = {}
         /\ Built(n) = [objs |-> Built(n).objs, seeded |-> Built(n).seeded, staff |-> Built(n).staff]
<1> DEFINE S == UNION {Range(Script(u).up) : u \in 0 .. n}
           made == About(S, {"create", "column"})
<1>1. n \in -1 .. 10 /\ \A u \in 0 .. n : u \in Versions /\ u \in 0 .. 10
  BY LatestIsTen
<1>2. ASSUME NEW s \in S PROVE \E u \in 0 .. n : OfVersion(s, u)
  BY <1>1, EachOfVersion
<1>3. \A s \in S : s.what \in {"create", "column", "seed"} /\ (s.what = "seed" => n >= 9)
  <2>1. Seed.what = "seed"
    BY DEF Seed, Statement
  <2>2. ASSUME NEW s \in S, NEW u \in 0 .. n, OfVersion(s, u)
        PROVE  s.what \in {"create", "column", "seed"} /\ (s.what = "seed" => n >= 9)
    BY <1>1, <2>1, <2>2 DEF OfVersion, MakesAt
  <2>3. QED
    BY <1>2, <2>2
<1>4. n >= 9 => Seed \in S
  <2>1. SUFFICES ASSUME n >= 9 PROVE Seed \in S
    OBVIOUS
  <2>2. 9 \in 0 .. n /\ Script(9).up = <<Seed>>
    BY <1>1, <2>1, UpShapes, LatestIsTen DEF UpShape
  <2>3. Seed \in Range(<<Seed>>)
    BY DEF Range
  <2>4. QED
    BY <2>2, <2>3
<1>5. made \subseteq Under(10 * (n + 1))
  <2>1. ASSUME NEW s \in S, s.what \in {"create", "column"}
        PROVE  s.obj \in Objects /\ Level[s.obj] < 10 * (n + 1)
    <3>1. PICK u \in 0 .. n : OfVersion(s, u)
      BY <1>2
    <3>2. s # Seed
      <4>1. Seed.what = "seed"
        BY DEF Seed, Statement
      <4>2. QED
        BY <2>1, <4>1
    <3>3. PICK level \in 10 * u + 1 .. 10 * u + 4 : MakesAt(s, level)
      BY <3>1, <3>2 DEF OfVersion
    <3>4. level < 10 * (n + 1)
      BY <1>1
    <3>5. QED
      BY <3>3, <3>4 DEF MakesAt
  <2>2. QED
    BY <2>1 DEF Under, About
<1>6. Under(10 * (n + 1)) \subseteq made
  <2>1. ASSUME NEW o \in Objects, Level[o] < 10 * (n + 1) PROVE o \in made
    <3>1. PICK v \in Versions \ {9}, i \in 1 .. 4 :
            /\ i \in 1 .. Len(Script(v).up)
            /\ Script(v).up[i].obj = o /\ Level[o] = 10 * v + i
      BY MadeAtLevel
    <3>2. v \in 0 .. 10 /\ 10 * v + i < 10 * (n + 1)
      BY <2>1, <3>1, LatestIsTen
    <3>3. v \in 0 .. n
      BY <1>1, <3>2
    <3>4. i \in DOMAIN Script(v).up /\ MakesAt(Script(v).up[i], 10 * v + i)
      BY <3>1, UpShapes DEF UpShape
    <3>5. Script(v).up[i] \in S
      BY <3>3, <3>4 DEF Range
    <3>6. Script(v).up[i].what \in {"create", "column"}
      BY <3>4 DEF MakesAt
    <3>7. QED
      BY <3>1, <3>5, <3>6 DEF About
  <2>2. QED
    BY <2>1 DEF Under
<1>7. /\ About(S, {"drop"}) = {}
      /\ ~(\E s \in S : s.what = "unseed")
      /\ (\E s \in S : s.what = "seed") <=> n >= 9
  <2>1. Seed.what = "seed"
    BY DEF Seed, Statement
  <2>2. QED
    BY <1>3, <1>4, <2>1 DEF About
<1> HIDE DEF S, made
<1>8. Built(n) = [objs |-> ({} \union made) \ ({} \union {}), seeded |-> (FALSE \/ \E s \in S : s.what = "seed") /\ ~FALSE,
                  staff |-> {}]
  BY <1>7, ColumnsOfNone DEF Built, After, Empty, made, S
<1>9. made = Under(10 * (n + 1))
  BY <1>5, <1>6
<1>10. ({} \union made) \ ({} \union {}) = made
  OBVIOUS
<1>11. Built(n).objs = made /\ Built(n).staff = {}
  BY <1>8, <1>10
<1>12. Built(n).seeded = ((FALSE \/ \E s \in S : s.what = "seed") /\ ~FALSE)
  BY <1>8
<1>13. Built(n).seeded = (n >= 9)
  <2>1. ((FALSE \/ \E s \in S : s.what = "seed") /\ ~FALSE) = (n >= 9)
    BY <1>7
  <2>2. QED
    BY <1>12, <2>1
<1>14. Built(n) = [objs |-> Built(n).objs, seeded |-> Built(n).seeded, staff |-> Built(n).staff]
  BY <1>8
<1>15. QED
  BY <1>9, <1>11, <1>13, <1>14

----------------------------------------------------------------------------
(* A script is its statements, one after the other.                          *)

\* The statements up to one are those before it, and itself.
LEMMA FirstNext ==
  ASSUME NEW script, NEW n \in Nat, NEW i \in 1 .. n
  PROVE  First(script, i) = First(script, i - 1) \union {script[i]}
<1>1. 1 .. i = (1 .. i - 1) \union {i}
  OBVIOUS
<1>2. QED
  BY <1>1 DEF First

\* S does not drop what s creates, nor delete what s inserts.
Gone(S) == About(S, {"drop"}) \union Columns(About(S, {"drop"}))

Apart(S, s) ==
  /\ s.what \in {"create", "column"} => s.obj \notin Gone(S)
  /\ s.what = "seed" => \A t \in S : t.what # "unseed"
  /\ s.what \in {"create", "column", "seed", "drop", "unseed"}

\* Where nothing is dropped nothing goes.
LEMMA NothingGone == ASSUME NEW S, \A t \in S : t.what # "drop" PROVE Gone(S) = {}
<1>1. About(S, {"drop"}) = {}
  BY DEF About
<1>2. QED
  BY <1>1, ColumnsOfNone DEF Gone

\* What two sets of statements are about, and what goes with them.
LEMMA AboutBoth ==
  ASSUME NEW S, NEW T, NEW kinds
  PROVE  About(S \union T, kinds) = About(S, kinds) \union About(T, kinds)
  BY DEF About

LEMMA GoneBoth == ASSUME NEW S, NEW T PROVE Gone(S \union T) = Gone(S) \union Gone(T)
<1>1. PICK A, B : A = About(S, {"drop"}) /\ B = About(T, {"drop"})
  OBVIOUS
<1>2. About(S \union T, {"drop"}) = A \union B
  BY <1>1, AboutBoth
<1>3. Columns(A \union B) = Columns(A) \union Columns(B)
  BY DEF Columns
<1>4. QED
  BY <1>1, <1>2, <1>3 DEF Gone

\* Then s comes after S.
LEMMA AfterOne ==
  ASSUME NEW d, NEW S, NEW s, Apart(S, s)
  PROVE  After(d, S \union {s}) = After(After(d, S), {s})
<1> DEFINE made(T) == About(T, {"create", "column"})
           dropped(T) == About(T, {"drop"})
           seed(T) == \E t \in T : t.what = "seed"
           unseed(T) == \E t \in T : t.what = "unseed"
           all == S \union {s}
           one == {s}
<1>1. \A e, T : After(e, T) = [objs |-> (e.objs \union made(T)) \ Gone(T),
                               seeded |-> (e.seeded \/ seed(T)) /\ ~unseed(T),
                               staff |-> IF "admin_users" \in dropped(T) THEN {} ELSE e.staff]
  BY DEF After, Gone
<1>2. After(After(d, S), one)
        = [objs |-> (((d.objs \union made(S)) \ Gone(S)) \union made(one)) \ Gone(one),
           seeded |-> (((d.seeded \/ seed(S)) /\ ~unseed(S)) \/ seed(one)) /\ ~unseed(one),
           staff |-> IF "admin_users" \in dropped(one) THEN {}
                     ELSE IF "admin_users" \in dropped(S) THEN {} ELSE d.staff]
  BY DEF After, Gone
<1>3. /\ made(all) = made(S) \union made(one)
      /\ dropped(all) = dropped(S) \union dropped(one)
      /\ Gone(all) = Gone(S) \union Gone(one)
  BY AboutBoth, GoneBoth
<1>4. made(one) \intersect Gone(S) = {}
  BY DEF Apart, About
<1>5. (seed(all) <=> seed(S) \/ seed(one)) /\ (unseed(all) <=> unseed(S) \/ unseed(one))
  OBVIOUS
<1>6. seed(one) => ~unseed(S)
  BY DEF Apart
<1>7. (d.objs \union made(all)) \ Gone(all)
        = (((d.objs \union made(S)) \ Gone(S)) \union made(one)) \ Gone(one)
  BY <1>3, <1>4
<1>8. ((d.seeded \/ seed(all)) /\ ~unseed(all))
        = ((((d.seeded \/ seed(S)) /\ ~unseed(S)) \/ seed(one)) /\ ~unseed(one))
  BY <1>5, <1>6
<1>9. (IF "admin_users" \in dropped(all) THEN {} ELSE d.staff)
        = (IF "admin_users" \in dropped(one) THEN {}
           ELSE IF "admin_users" \in dropped(S) THEN {} ELSE d.staff)
  BY <1>3
<1>10. QED
  BY <1>1, <1>2, <1>7, <1>8, <1>9

\* What a migration does, told by the set of its statements, is what they do one after
\* the other: no script drops what it creates or deletes what it inserts.
THEOREM StatementsInOrder ==
  ASSUME NEW v \in Versions, NEW script \in {Script(v).up, Script(v).down},
         NEW i \in 1 .. Len(script), NEW d
  PROVE  After(d, First(script, i)) = After(After(d, First(script, i - 1)), {script[i]})
<1>1. PICK n : n = Len(script)
  OBVIOUS
<1>2. CASE script = Script(v).up
  <2>1. n \in 1 .. 4 /\ \A j \in 1 .. n : script[j].what \in {"create", "column", "seed"}
    <3>1. CASE v # 9
      BY <1>1, <1>2, <3>1, UpShapes DEF UpShape, MakesAt
    <3>2. CASE v = 9
      <4>1. script = <<Seed>>
        BY <1>2, <3>2, UpShapes DEF UpShape
      <4>2. Seed.what = "seed"
        BY DEF Seed, Statement
      <4>3. n = 1 /\ script[1] = Seed
        BY <1>1, <4>1
      <4>4. n \in 1 .. 4 /\ \A j \in 1 .. n : script[j] = Seed
        BY <4>3
      <4>5. QED
        BY <4>2, <4>4
    <3>3. QED
      BY <3>1, <3>2
  <2>2. Apart(First(script, i - 1), script[i])
    <3>1. \A s \in First(script, i - 1) : s.what \in {"create", "column", "seed"}
      BY <1>1, <2>1 DEF First
    <3>2. Gone(First(script, i - 1)) = {}
      BY <3>1, NothingGone
    <3>3. QED
      BY <1>1, <2>1, <3>1, <3>2 DEF Apart
  <2>3. First(script, i) = First(script, i - 1) \union {script[i]}
    BY <1>1, <2>1, FirstNext
  <2>4. QED
    BY <2>2, <2>3, AfterOne
<1>3. CASE v # 0 /\ script = Script(v).down
  <2>1. v \in 1 .. Latest
    BY <1>3, LatestIsTen
  <2>2. n \in 1 .. 4 /\ \A j \in 1 .. n : script[j].what \in {"drop", "unseed"}
    <3>1. CASE v # 9
      <4>1. n \in 1 .. 4 /\ \A j \in 1 .. n : DropsAt(script[j], 10 * v + n + 1 - j)
        BY <1>1, <1>3, <2>1, <3>1, UpShapes, DownShapes DEF UpShape, DownShape
      <4>2. QED
        BY <4>1 DEF DropsAt
    <3>2. CASE v = 9
      <4>1. script = <<Unseed>>
        BY <1>3, <2>1, <3>2, DownShapes DEF DownShape
      <4>2. Unseed.what = "unseed"
        BY DEF Unseed, Statement
      <4>3. n = 1 /\ script[1] = Unseed
        BY <1>1, <4>1
      <4>4. n \in 1 .. 4 /\ \A j \in 1 .. n : script[j] = Unseed
        BY <4>3
      <4>5. QED
        BY <4>2, <4>4
    <3>3. QED
      BY <3>1, <3>2
  <2>3. Apart(First(script, i - 1), script[i])
    BY <1>1, <2>2 DEF First, Apart
  <2>4. First(script, i) = First(script, i - 1) \union {script[i]}
    BY <1>1, <2>2, FirstNext
  <2>5. QED
    BY <2>3, <2>4, AfterOne
<1>4. CASE v = 0 /\ script = Script(v).down
  BY <1>4 DEF Script, Versioning, Migration
<1>5. QED
  BY <1>2, <1>3, <1>4

----------------------------------------------------------------------------
(* The inductive invariant.                                                 *)

PcType == [Replicas -> {"down", "ensure", "read", "apply", "connect", "serving"}]

TypesOK ==
  /\ db.staff \subseteq Accounts
  /\ pc \in PcType
  /\ at \in [Replicas -> Versions]
  /\ maintenance \in BOOLEAN /\ refused \subseteq Versions
  /\ failures \in 0 .. MaxFailures /\ stops \in 0 .. MaxStops

RowsTo(n) == [v \in Versions |-> IF v <= n THEN 1 ELSE 0]

\* At each moment the database is at one version, rows and schema both; accounts have
\* roles that are seeded.
DatabaseAt(n) ==
  /\ rows = RowsTo(n)
  /\ db = AtVersion(n, db.staff)
  /\ db.staff # {} => n >= 9

\* A start is never ahead of the version it has read by more than one, and one that
\* has left the loop is at the last.
StartsAt(n) ==
  \A r \in Replicas :
    /\ pc[r] = "read" => n >= 0
    /\ pc[r] = "apply" => at[r] <= n + 1
    /\ pc[r] \in {"connect", "serving"} => n = Latest

\* The versions go back only while every api is stopped.
StoppedForMaintenance == maintenance => \A r \in Replicas : pc[r] = "down"

IInv ==
  /\ TypesOK
  /\ StoppedForMaintenance
  /\ \E n \in -1 .. Latest : DatabaseAt(n) /\ StartsAt(n)

\* goose reads the version the database is at.
LEMMA VersionIs ==
  ASSUME NEW n \in -1 .. Latest, DatabaseAt(n)
  PROVE  Version = n
<1> DEFINE found == {v \in Versions : rows[v] > 0}
<1>1. n \in -1 .. 10 /\ Versions = 0 .. 10
  BY LatestIsTen
<1>2. found = 0 .. n
  BY <1>1 DEF DatabaseAt, RowsTo
<1>3. CASE n = -1
  <2>1. found = {}
    BY <1>2, <1>3
  <2>2. QED
    BY <1>3, <2>1 DEF Version
<1>4. CASE n >= 0
  <2>1. found # {} /\ n \in found /\ \A u \in found : u <= n
    BY <1>1, <1>2, <1>4
  <2>2. ASSUME NEW v \in found, \A u \in found : u <= v PROVE v = n
    BY <1>1, <1>2, <2>1, <2>2
  <2>3. (CHOOSE v \in found : \A u \in found : u <= v) = n
    <3> HIDE DEF found
    <3>1. QED
      BY <2>1, <2>2
  <2>4. QED
    BY <2>1, <2>3 DEF Version
<1>5. QED
  BY <1>1, <1>3, <1>4

\* Its table is there once a version is.
LEMMA GooseTable ==
  ASSUME NEW n \in -1 .. Latest, DatabaseAt(n)
  PROVE  "goose_db_version" \in db.objs <=> n >= 0
<1>1. n \in -1 .. 10
  BY LatestIsTen
<1>2. db.objs = Under(10 * (n + 1))
  BY DEF DatabaseAt, AtVersion
<1>3. 1 < 10 * (n + 1) <=> n >= 0
  BY <1>1
<1>4. QED
  BY <1>2, <1>3, LevelOf DEF Under

\* The invariant holds of an empty database.
LEMMA InitIInv == Init => IInv
<1> SUFFICES ASSUME Init PROVE IInv
  OBVIOUS
<1> USE DEF Init
<1>1. TypesOK /\ StoppedForMaintenance
  <2>1. 0 \in Versions /\ 0 \in 0 .. MaxFailures /\ 0 \in 0 .. MaxStops
    BY LatestIsTen, BoundsAssumption
  <2>2. db.staff = {}
    BY DEF Empty
  <2>3. QED
    BY <2>1, <2>2 DEF TypesOK, PcType, StoppedForMaintenance
<1>2. DatabaseAt(-1)
  <2>1. Under(0) = {}
    BY LevelType DEF Under
  <2>2. 10 * (-1 + 1) = 0 /\ (-1 >= 9) = FALSE
    OBVIOUS
  <2>3. Empty = AtVersion(-1, {})
    BY <2>1, <2>2 DEF Empty, AtVersion
  <2>4. rows = RowsTo(-1)
    BY LatestIsTen DEF RowsTo
  <2>5. Empty.staff = {}
    BY DEF Empty
  <2>6. QED
    BY <2>3, <2>4, <2>5 DEF DatabaseAt
<1>3. StartsAt(-1)
  BY DEF StartsAt
<1>4. -1 \in -1 .. Latest
  BY LatestIsTen
<1>5. QED
  BY <1>1, <1>2, <1>3, <1>4 DEF IInv

\* Starts, restarts, crashes and the operator's hand leave the database alone.
LEMMA SameDatabase ==
  ASSUME NEW n, DatabaseAt(n), UNCHANGED <<db, rows>>
  PROVE  DatabaseAt(n)'
  BY DEF DatabaseAt, RowsTo, AtVersion, Under

\* Where a start is changes alone.
LEMMA MovesTypes ==
  ASSUME pc \in PcType, NEW r \in Replicas, NEW to,
         to \in {"down", "ensure", "read", "apply", "connect", "serving"}, Moves(r, to)
  PROVE  /\ pc' \in PcType /\ pc'[r] = to
         /\ \A q \in Replicas \ {r} : pc'[q] = pc[q]
  BY DEF Moves, PcType

\* Each Up either takes the database to the next version or fails and leaves it.
LEMMA ApplyEffect ==
  ASSUME NEW n \in -1 .. Latest, DatabaseAt(n), StartsAt(n), TypesOK, NEW r \in Replicas, Apply(r)
  PROVE  \/ /\ at[r] = n + 1 /\ n + 1 \in Versions
            /\ db' = AtVersion(n + 1, db.staff) /\ rows' = [rows EXCEPT ![n + 1] = @ + 1]
            /\ Moves(r, "read")
         \/ UNCHANGED <<db, rows>> /\ Moves(r, "down")
<1>1. n \in -1 .. 10 /\ Versions = 0 .. 10 /\ at[r] \in 0 .. 10 /\ at[r] <= n + 1
  BY LatestIsTen DEF TypesOK, StartsAt, Apply
<1>2. db = AtVersion(n, db.staff)
  BY DEF DatabaseAt
<1>3. CASE at[r] = n + 1
  <2>1. n + 1 \in Versions /\ n + 1 - 1 = n
    BY <1>1, <1>3
  <2>2. Execute(AtVersion(n, db.staff), Script(n + 1).up) = [ok |-> TRUE, data |-> AtVersion(n + 1, db.staff)]
    BY <2>1, UpWorks
  <2>3. Execute(db, Script(at[r]).up) = [ok |-> TRUE, data |-> AtVersion(n + 1, db.staff)]
    BY <1>2, <1>3, <2>2
  <2>4. QED
    BY <1>3, <2>1, <2>3 DEF Apply
<1>4. CASE at[r] <= n
  <2>1. at[r] \in Versions /\ n \in at[r] .. Latest
    BY <1>1, <1>4
  <2>2. ~Execute(AtVersion(n, db.staff), Script(at[r]).up).ok
    BY <2>1, UpFailsAgain
  <2>3. ~Execute(db, Script(at[r]).up).ok
    BY <1>2, <2>2
  <2>4. QED
    BY <2>3 DEF Apply
<1>5. QED
  BY <1>1, <1>3, <1>4

\* A version's row is added and taken away.
LEMMA RowsUp ==
  ASSUME NEW n \in -1 .. Latest, n + 1 \in Versions
  PROVE  [RowsTo(n) EXCEPT ![n + 1] = @ + 1] = RowsTo(n + 1)
<1>1. n \in -1 .. 9 /\ Versions = 0 .. 10
  BY LatestIsTen
<1>2. ASSUME NEW v \in Versions
      PROVE  [RowsTo(n) EXCEPT ![n + 1] = @ + 1][v] = RowsTo(n + 1)[v]
  <2>1. CASE v = n + 1
    <3>1. RowsTo(n)[v] = 0 /\ RowsTo(n + 1)[v] = 1
      BY <1>1, <2>1 DEF RowsTo
    <3>2. QED
      BY <2>1, <3>1 DEF RowsTo
  <2>2. CASE v # n + 1
    <3>1. v <= n <=> v <= n + 1
      BY <1>1, <2>2
    <3>2. QED
      BY <2>2, <3>1 DEF RowsTo
  <2>3. QED
    BY <2>1, <2>2
<1>3. QED
  BY <1>2 DEF RowsTo

\* Taking the row of the last version away.
LEMMA RowsDown ==
  ASSUME NEW n \in 1 .. Latest
  PROVE  [RowsTo(n) EXCEPT ![n] = @ - 1] = RowsTo(n - 1)
<1>1. n \in 1 .. 10 /\ Versions = 0 .. 10
  BY LatestIsTen
<1>2. ASSUME NEW v \in Versions
      PROVE  [RowsTo(n) EXCEPT ![n] = @ - 1][v] = RowsTo(n - 1)[v]
  <2>1. CASE v = n
    <3>1. RowsTo(n)[v] = 1 /\ RowsTo(n - 1)[v] = 0
      BY <1>1, <2>1 DEF RowsTo
    <3>2. QED
      BY <2>1, <3>1 DEF RowsTo
  <2>2. CASE v # n
    <3>1. v <= n <=> v <= n - 1
      BY <1>1, <2>2
    <3>2. QED
      BY <2>2, <3>1 DEF RowsTo
  <2>3. QED
    BY <2>1, <2>2
<1>3. QED
  BY <1>2 DEF RowsTo

\* A replica's steps keep the invariant, wherever the other replicas are.
LEMMA StepIInv ==
  ASSUME IInv, NEW r \in Replicas, Step(r) \/ Fail(r)
  PROVE  IInv'
<1> USE DEF IInv
<1>1. PICK n \in -1 .. Latest : DatabaseAt(n) /\ StartsAt(n)
  OBVIOUS
<1>2. n \in -1 .. 10 /\ Versions = 0 .. 10 /\ Latest = 10
  BY LatestIsTen
<1>3. pc \in PcType /\ TypesOK /\ StoppedForMaintenance
  BY DEF TypesOK
<1>4. CASE Start(r)
  <2>1. /\ pc' \in PcType /\ pc'[r] = "ensure" /\ \A q \in Replicas \ {r} : pc'[q] = pc[q]
    BY <1>3, <1>4, MovesTypes DEF Start
  <2>2. TypesOK'
    BY <1>3, <1>4, <2>1 DEF TypesOK, Start
  <2>3. StoppedForMaintenance'
    BY <1>4 DEF StoppedForMaintenance, Start
  <2>4. DatabaseAt(n)' /\ StartsAt(n)'
    BY <1>1, <1>4, <2>1, SameDatabase DEF StartsAt, Start
  <2>5. QED
    BY <2>2, <2>3, <2>4
<1>5. CASE Ensure(r)
  <2>1. ~maintenance
    BY <1>3, <1>5 DEF StoppedForMaintenance, Ensure
  <2>2. PICK to \in {"read", "apply"} : Moves(r, to)
    BY <1>5 DEF Ensure
  <2>3. /\ pc' \in PcType /\ pc'[r] = to /\ \A q \in Replicas \ {r} : pc'[q] = pc[q]
    BY <1>3, <2>2, MovesTypes
  <2>4. at' \in [Replicas -> Versions] /\ \A q \in Replicas \ {r} : at'[q] = at[q]
    BY <1>2, <1>3, <1>5 DEF TypesOK, Ensure
  <2>5. TypesOK'
    BY <1>3, <1>5, <2>3, <2>4 DEF TypesOK, Ensure
  <2>6. StoppedForMaintenance'
    BY <1>5, <2>1 DEF StoppedForMaintenance, Ensure
  <2>7. (to = "read" => n >= 0) /\ (to = "apply" => at'[r] = 0)
    BY <1>1, <1>3, <1>5, <2>3, GooseTable DEF TypesOK, Ensure, Moves, PcType
  <2>8. DatabaseAt(n)' /\ StartsAt(n)'
    BY <1>1, <1>2, <1>5, <2>3, <2>4, <2>7, SameDatabase DEF StartsAt, Ensure
  <2>9. QED
    BY <2>5, <2>6, <2>8
<1>6. CASE Read(r)
  <2>1. ~maintenance
    BY <1>3, <1>6 DEF StoppedForMaintenance, Read
  <2>2. PICK to \in {"connect", "apply"} : Moves(r, to)
    BY <1>6 DEF Read
  <2>3. /\ pc' \in PcType /\ pc'[r] = to /\ \A q \in Replicas \ {r} : pc'[q] = pc[q]
    BY <1>3, <2>2, MovesTypes
  <2>4. Version = n /\ n >= 0
    BY <1>1, <1>6, VersionIs DEF StartsAt, Read
  <2>5. /\ at' \in [Replicas -> Versions] /\ \A q \in Replicas \ {r} : at'[q] = at[q]
        /\ to = "connect" => n = Latest
        /\ to = "apply" => at'[r] = n + 1
    BY <1>2, <1>3, <1>6, <2>3, <2>4 DEF TypesOK, Read, Moves, PcType
  <2>6. TypesOK'
    BY <1>3, <1>6, <2>3, <2>5 DEF TypesOK, Read
  <2>7. StoppedForMaintenance'
    BY <1>6, <2>1 DEF StoppedForMaintenance, Read
  <2>8. DatabaseAt(n)' /\ StartsAt(n)'
    BY <1>1, <1>2, <1>6, <2>3, <2>5, SameDatabase DEF StartsAt, Read
  <2>9. QED
    BY <2>6, <2>7, <2>8
<1>7. CASE Apply(r)
  <2>1. ~maintenance /\ UNCHANGED <<at, maintenance, refused, failures, stops>>
    BY <1>3, <1>7 DEF StoppedForMaintenance, Apply
  <2>2. StoppedForMaintenance'
    BY <2>1 DEF StoppedForMaintenance
  <2>3. CASE /\ at[r] = n + 1 /\ n + 1 \in Versions
             /\ db' = AtVersion(n + 1, db.staff) /\ rows' = [rows EXCEPT ![n + 1] = @ + 1]
             /\ Moves(r, "read")
    <3>1. /\ pc' \in PcType /\ pc'[r] = "read" /\ \A q \in Replicas \ {r} : pc'[q] = pc[q]
      BY <1>3, <2>3, MovesTypes
    <3>2. db'.staff = db.staff
      BY <2>3 DEF AtVersion
    <3>3. TypesOK'
      BY <1>3, <2>1, <3>1, <3>2 DEF TypesOK
    <3>4. rows' = RowsTo(n + 1)
      <4>1. rows = RowsTo(n)
        BY <1>1 DEF DatabaseAt
      <4>2. QED
        BY <2>3, <4>1, RowsUp
    <3>5. DatabaseAt(n + 1)'
      <4>1. db' = AtVersion(n + 1, db'.staff)
        BY <2>3, <3>2
      <4>2. db'.staff # {} => n + 1 >= 9
        BY <1>1, <1>2, <3>2 DEF DatabaseAt
      <4>3. QED
        BY <3>4, <4>1, <4>2 DEF DatabaseAt, RowsTo, AtVersion, Under
    <3>6. StartsAt(n + 1)'
      BY <1>1, <1>2, <2>1, <2>3, <3>1, <1>3 DEF StartsAt, TypesOK
    <3>7. n + 1 \in -1 .. Latest
      BY <1>2, <2>3
    <3>8. QED
      BY <2>2, <3>3, <3>5, <3>6, <3>7
  <2>4. CASE UNCHANGED <<db, rows>> /\ Moves(r, "down")
    <3>1. /\ pc' \in PcType /\ pc'[r] = "down" /\ \A q \in Replicas \ {r} : pc'[q] = pc[q]
      BY <1>3, <2>4, MovesTypes
    <3>2. TypesOK'
      BY <1>3, <2>1, <2>4, <3>1 DEF TypesOK
    <3>3. DatabaseAt(n)' /\ StartsAt(n)'
      BY <1>1, <2>1, <2>4, <3>1, SameDatabase DEF StartsAt
    <3>4. QED
      BY <2>2, <3>2, <3>3
  <2>5. QED
    BY <1>1, <1>3, <1>7, <2>3, <2>4, ApplyEffect
<1>8. CASE Connect(r)
  <2>1. /\ pc' \in PcType /\ pc'[r] = "serving" /\ \A q \in Replicas \ {r} : pc'[q] = pc[q]
    BY <1>3, <1>8, MovesTypes DEF Connect
  <2>2. TypesOK'
    BY <1>3, <1>8, <2>1 DEF TypesOK, Connect
  <2>3. StoppedForMaintenance'
    BY <1>3, <1>8 DEF StoppedForMaintenance, Connect
  <2>4. DatabaseAt(n)' /\ StartsAt(n)'
    BY <1>1, <1>8, <2>1, SameDatabase DEF StartsAt, Connect
  <2>5. QED
    BY <2>2, <2>3, <2>4
<1>9. CASE Fail(r)
  <2>1. /\ pc' \in PcType /\ pc'[r] = "down" /\ \A q \in Replicas \ {r} : pc'[q] = pc[q]
    BY <1>3, <1>9, MovesTypes DEF Fail
  <2>2. failures' \in 0 .. MaxFailures
    BY <1>3, <1>9, BoundsAssumption DEF TypesOK, Fail
  <2>3. TypesOK'
    BY <1>3, <1>9, <2>1, <2>2 DEF TypesOK, Fail
  <2>4. StoppedForMaintenance'
    BY <1>3, <1>9, <2>1 DEF StoppedForMaintenance, Fail
  <2>5. DatabaseAt(n)' /\ StartsAt(n)'
    BY <1>1, <1>9, <2>1, SameDatabase DEF StartsAt, Fail
  <2>6. QED
    BY <2>3, <2>4, <2>5
<1>10. QED
  BY <1>4, <1>5, <1>6, <1>7, <1>8, <1>9 DEF Step

\* So does an account that is entered ...
LEMMA HireIInv ==
  ASSUME IInv, NEW a \in Accounts, Hire(a)
  PROVE  IInv'
<1> USE DEF IInv, Hire
<1>1. PICK n \in -1 .. Latest : DatabaseAt(n) /\ StartsAt(n)
  OBVIOUS
<1>2. db = AtVersion(n, db.staff) /\ n >= 9
  <2>1. db = AtVersion(n, db.staff)
    BY <1>1 DEF DatabaseAt
  <2>2. AtVersion(n, db.staff).seeded = (n >= 9)
    BY DEF AtVersion
  <2>3. db.seeded
    OBVIOUS
  <2>4. QED
    BY <2>1, <2>2, <2>3
<1>3. db' = AtVersion(n, db.staff \union {a})
  <2>1. db' = [AtVersion(n, db.staff) EXCEPT !.staff = @ \union {a}]
    BY <1>2
  <2>2. QED
    BY <2>1 DEF AtVersion
<1>4. db'.staff = db.staff \union {a}
  BY <1>3 DEF AtVersion
<1>5. DatabaseAt(n)'
  <2>1. rows' = RowsTo(n)
    BY <1>1 DEF DatabaseAt
  <2>2. QED
    BY <1>2, <1>3, <1>4, <2>1 DEF DatabaseAt, RowsTo, AtVersion, Under
<1>6. TypesOK' /\ StoppedForMaintenance'
  BY <1>4 DEF TypesOK, StoppedForMaintenance, PcType
<1>7. StartsAt(n)'
  BY <1>1 DEF StartsAt
<1>8. QED
  BY <1>5, <1>6, <1>7

\* Each Down takes the database one version back, or is that of the seed, whose roles
\* are in use, and leaves it.
LEMMA RollBackEffect ==
  ASSUME NEW n \in -1 .. Latest, DatabaseAt(n), RollBack
  PROVE  /\ n \in 1 .. Latest
         /\ \/ /\ n = 9 => db.staff = {}
               /\ db' = AtVersion(n - 1, db.staff) /\ rows' = [rows EXCEPT ![n] = @ - 1]
               /\ UNCHANGED refused
            \/ /\ n = 9 /\ db.staff # {}
               /\ UNCHANGED <<db, rows>> /\ refused' = refused \union {n}
<1>1. Version = n /\ n \in 1 .. Latest
  BY VersionIs, LatestIsTen DEF RollBack
<1>2. db = AtVersion(n, db.staff)
  BY DEF DatabaseAt
<1>3. CASE n # 9
  <2>1. n = 2 => db.staff = {}
    BY DEF DatabaseAt
  <2>2. Execute(AtVersion(n, db.staff), Script(n).down) = [ok |-> TRUE, data |-> AtVersion(n - 1, db.staff)]
    BY <1>1, <1>3, <2>1, DownWorks
  <2>3. Execute(db, Script(Version).down) = [ok |-> TRUE, data |-> AtVersion(n - 1, db.staff)]
    BY <1>1, <1>2, <2>2
  <2>4. QED
    BY <1>1, <1>3, <2>3 DEF RollBack
<1>4. CASE n = 9
  <2>1. /\ Execute(AtVersion(9, db.staff), Script(9).down).ok <=> db.staff = {}
        /\ Execute(AtVersion(9, db.staff), Script(9).down).data = AtVersion(8, db.staff)
    BY UnseedWorks
  <2>2. /\ Execute(db, Script(Version).down).ok <=> db.staff = {}
        /\ Execute(db, Script(Version).down).data = AtVersion(n - 1, db.staff)
    <3>1. n - 1 = 8
      BY <1>4
    <3>2. QED
      BY <1>1, <1>2, <1>4, <2>1, <3>1
  <2>3. QED
    BY <1>1, <1>4, <2>2 DEF RollBack
<1>5. QED
  BY <1>3, <1>4

\* ... a rollback, which runs while every replica is down ...
LEMMA RollBackIInv == ASSUME IInv, RollBack PROVE IInv'
<1> USE DEF IInv
<1>1. PICK n \in -1 .. Latest : DatabaseAt(n) /\ StartsAt(n)
  OBVIOUS
<1>2. /\ maintenance /\ \A r \in Replicas : pc[r] = "down"
      /\ UNCHANGED <<pc, at, maintenance, failures, stops>>
  BY DEF RollBack, StoppedForMaintenance
<1>3. StoppedForMaintenance'
  BY <1>2 DEF StoppedForMaintenance
<1>4. \A m : StartsAt(m)'
  BY <1>2 DEF StartsAt
<1>5. n \in 1 .. Latest /\ n \in 1 .. 10 /\ n \in Versions /\ n - 1 \in -1 .. Latest
  BY <1>1, RollBackEffect, LatestIsTen
<1>6. CASE /\ n = 9 => db.staff = {}
           /\ db' = AtVersion(n - 1, db.staff) /\ rows' = [rows EXCEPT ![n] = @ - 1]
           /\ UNCHANGED refused
  <2>1. db'.staff = db.staff
    BY <1>6 DEF AtVersion
  <2>2. TypesOK'
    BY <1>2, <1>6, <2>1 DEF TypesOK, PcType
  <2>3. rows' = RowsTo(n - 1)
    BY <1>1, <1>5, <1>6, RowsDown DEF DatabaseAt
  <2>4. db'.staff # {} => n - 1 >= 9
    BY <1>1, <1>5, <1>6, <2>1 DEF DatabaseAt
  <2>5. DatabaseAt(n - 1)'
    BY <1>6, <2>1, <2>3, <2>4 DEF DatabaseAt, RowsTo, AtVersion, Under
  <2>6. QED
    BY <1>3, <1>4, <1>5, <2>2, <2>5
<1>7. CASE UNCHANGED <<db, rows>> /\ refused' = refused \union {n}
  <2>1. TypesOK'
    BY <1>2, <1>5, <1>7 DEF TypesOK, PcType
  <2>2. DatabaseAt(n)'
    BY <1>1, <1>7, SameDatabase
  <2>3. QED
    BY <1>3, <1>4, <2>1, <2>2
<1>8. QED
  BY <1>1, <1>6, <1>7, RollBackEffect

\* ... and the rest of a maintenance window.
LEMMA OperatorIInv == ASSUME IInv, Stop \/ Resume PROVE IInv'
<1> USE DEF IInv
<1>1. PICK n \in -1 .. Latest : DatabaseAt(n) /\ StartsAt(n)
  OBVIOUS
<1>2. CASE Stop
  <2>1. stops' \in 0 .. MaxStops
    BY <1>2, BoundsAssumption DEF TypesOK, Stop
  <2>2. TypesOK' /\ StoppedForMaintenance'
    BY <1>2, <2>1 DEF TypesOK, PcType, StoppedForMaintenance, Stop
  <2>3. DatabaseAt(n)' /\ StartsAt(n)'
    BY <1>1, <1>2, SameDatabase DEF StartsAt, Stop
  <2>4. QED
    BY <2>2, <2>3
<1>3. CASE Resume
  <2>1. TypesOK' /\ StoppedForMaintenance'
    BY <1>3 DEF TypesOK, PcType, StoppedForMaintenance, Resume
  <2>2. DatabaseAt(n)' /\ StartsAt(n)'
    BY <1>1, <1>3, SameDatabase DEF StartsAt, Resume
  <2>3. QED
    BY <2>1, <2>2
<1>4. QED
  BY <1>2, <1>3

\* The invariant is inductive.
LEMMA NextIInv == IInv /\ [Next]_vars => IInv'
<1>1. ASSUME IInv, UNCHANGED vars PROVE IInv'
  BY <1>1 DEF IInv, vars, TypesOK, PcType, StoppedForMaintenance, StartsAt, DatabaseAt, RowsTo,
              AtVersion, Under
<1>2. ASSUME IInv, Next PROVE IInv'
  BY <1>2, StepIInv, HireIInv, RollBackIInv, OperatorIInv DEF Next
<1>3. QED
  BY <1>1, <1>2

\* At every moment the schema and the version rows are those of one version, whatever
\* starts, crashes, races and rollbacks have led there.
THEOREM Invariance == Spec => []IInv
<1>1. Init => IInv
  BY InitIInv
<1>2. IInv /\ [Next]_vars => IInv'
  BY NextIInv
<1>3. QED
  BY <1>1, <1>2, PTL DEF Spec

----------------------------------------------------------------------------
(* The properties.                                                          *)

\* It types the variables.
LEMMA IInvTypes == IInv => TypeOK
<1> SUFFICES ASSUME IInv PROVE TypeOK
  OBVIOUS
<1>1. PICK n \in -1 .. Latest : DatabaseAt(n)
  BY DEF IInv
<1>2. n \in -1 .. 10 /\ Versions = 0 .. 10
  BY LatestIsTen
<1>3. db.objs \subseteq {s.obj : s \in UpStatements}
  <2>1. db.objs = Under(10 * (n + 1))
    BY <1>1 DEF DatabaseAt, AtVersion
  <2>2. ASSUME NEW o \in Objects
        PROVE  o \in {s.obj : s \in UpStatements}
    <3>1. PICK v \in Versions, i \in 1 .. 4 : i \in 1 .. Len(Script(v).up) /\ Script(v).up[i].obj = o
      BY MadeAtLevel
    <3>2. Script(v).up[i] \in UpStatements
      BY <3>1, UpShapes DEF UpShape, Range, UpStatements
    <3>3. QED
      BY <3>1, <3>2
  <2>3. QED
    BY <2>1, <2>2 DEF Under
<1>4. db.seeded \in BOOLEAN
  <2>1. db.seeded = (n >= 9)
    BY <1>1 DEF DatabaseAt, AtVersion
  <2>2. QED
    BY <2>1
<1>5. rows \in [Versions -> Nat]
  BY <1>1 DEF DatabaseAt, RowsTo
<1>6. QED
  BY <1>3, <1>4, <1>5 DEF TypeOK, IInv, TypesOK, PcType

\* A database at a version has the schema that the Ups build.
LEMMA AtVersionIsBuilt ==
  ASSUME NEW n \in -1 .. Latest, DatabaseAt(n)
  PROVE  /\ db.objs = Built(n).objs /\ db.seeded = Built(n).seeded
         /\ db = [Built(n) EXCEPT !.staff = db.staff]
<1>1. db = AtVersion(n, db.staff)
  BY DEF DatabaseAt
<1>2. db.objs = Under(10 * (n + 1)) /\ db.seeded = (n >= 9)
  BY <1>1 DEF AtVersion
<1>3. db = [objs |-> db.objs, seeded |-> db.seeded, staff |-> db.staff]
  BY <1>1 DEF AtVersion
<1>4. Built(n).seeded = (n >= 9)
  BY BuiltIs
<1>5. db.objs = Built(n).objs /\ db.seeded = Built(n).seeded
  BY <1>2, <1>4, BuiltIs
<1>6. [Built(n) EXCEPT !.staff = db.staff]
        = [objs |-> Built(n).objs, seeded |-> Built(n).seeded, staff |-> db.staff]
  BY BuiltIs
<1>7. QED
  BY <1>3, <1>5, <1>6

\* The version rows are 0 to the version, each once, and the schema is exactly what the
\* migrations up to it build, for any number of replicas, crashes and rollbacks.
THEOREM SchemaFollowsVersion == Spec => []SchemaIsVersion
<1>1. IInv => SchemaIsVersion
  <2> SUFFICES ASSUME IInv PROVE SchemaIsVersion
    OBVIOUS
  <2>1. PICK n \in -1 .. Latest : DatabaseAt(n)
    BY DEF IInv
  <2>2. Version = n
    BY <2>1, VersionIs
  <2>3. \A v \in Versions : rows[v] = IF v <= n THEN 1 ELSE 0
    BY <2>1 DEF DatabaseAt, RowsTo
  <2>4. QED
    BY <2>1, <2>2, <2>3, IInvTypes, AtVersionIsBuilt DEF SchemaIsVersion
<1>2. QED
  BY <1>1, Invariance, PTL

\* No api serves before the whole schema and the roles are there.
THEOREM ServingIsComplete == Spec => []ServingSchemaComplete
<1>1. IInv => ServingSchemaComplete
  <2> SUFFICES ASSUME IInv, NEW r \in Replicas, pc[r] = "serving"
               PROVE  Version = Latest /\ db = [Built(Latest) EXCEPT !.staff = db.staff]
    BY DEF ServingSchemaComplete
  <2>1. PICK n \in -1 .. Latest : DatabaseAt(n) /\ StartsAt(n)
    BY DEF IInv
  <2>2. n = Latest
    BY <2>1 DEF StartsAt
  <2>3. QED
    BY <2>1, <2>2, VersionIs, AtVersionIsBuilt
<1>2. QED
  BY <1>1, Invariance, PTL

\* No step of a replica touches accounts or fails a Down.
LEMMA StepDatabase ==
  ASSUME IInv, NEW r \in Replicas, Step(r) \/ Fail(r)
  PROVE  db'.staff = db.staff /\ refused' = refused
<1>1. PICK n \in -1 .. Latest : DatabaseAt(n) /\ StartsAt(n)
  BY DEF IInv
<1>2. CASE Apply(r)
  BY <1>1, <1>2, ApplyEffect DEF IInv, Apply, AtVersion
<1>3. CASE ~Apply(r)
  BY <1>3 DEF Step, Start, Ensure, Read, Connect, Fail
<1>4. QED
  BY <1>2, <1>3

\* No step loses a staff account: the Down that drops their table comes after that of
\* the seed, which does not work while there are any.
THEOREM AccountsSurvive == Spec => RollbackKeepsAccounts
<1>1. ASSUME IInv, [Next]_vars PROVE [db.staff \subseteq db'.staff]_vars
  <2>1. CASE UNCHANGED vars
    BY <2>1
  <2>2. CASE \E r \in Replicas : Step(r) \/ Fail(r)
    BY <1>1, <2>2, StepDatabase
  <2>3. CASE \E a \in Accounts : Hire(a)
    <3>1. PICK n \in -1 .. Latest : db = AtVersion(n, db.staff)
      BY <1>1 DEF IInv, DatabaseAt
    <3>2. PICK a \in Accounts : db' = [db EXCEPT !.staff = @ \union {a}]
      BY <2>3 DEF Hire
    <3>3. db'.staff = db.staff \union {a}
      BY <3>1, <3>2 DEF AtVersion
    <3>4. QED
      BY <3>3
  <2>4. CASE Stop \/ Resume
    BY <2>4 DEF Stop, Resume
  <2>5. CASE RollBack
    <3>1. PICK n \in -1 .. Latest : DatabaseAt(n)
      BY <1>1 DEF IInv
    <3>2. QED
      BY <2>5, <3>1, RollBackEffect DEF AtVersion
  <2>6. QED
    BY <1>1, <2>1, <2>2, <2>3, <2>4, <2>5 DEF Next
<1>2. QED
  BY <1>1, Invariance, PTL DEF Spec, RollbackKeepsAccounts

\* Every Down works but that of the seed, while accounts refer to the roles.
THEOREM DownsWork == Spec => RefusedOnlyForAccounts
<1>1. ASSUME IInv, [Next]_vars
      PROVE  [\A v \in refused' \ refused : Migrated[v] = SeedRoles /\ db.staff # {}]_vars
  <2>1. CASE UNCHANGED vars
    BY <2>1
  <2>2. CASE \E r \in Replicas : Step(r) \/ Fail(r)
    BY <1>1, <2>2, StepDatabase
  <2>3. CASE (\E a \in Accounts : Hire(a)) \/ Stop \/ Resume
    BY <2>3 DEF Hire, Stop, Resume
  <2>4. CASE RollBack
    <3>1. PICK n \in -1 .. Latest : DatabaseAt(n)
      BY <1>1 DEF IInv
    <3>2. Migrated[9] = SeedRoles
      BY DEF Migrated
    <3>3. QED
      BY <2>4, <3>1, <3>2, RollBackEffect
  <2>5. QED
    BY <1>1, <2>1, <2>2, <2>3, <2>4 DEF Next
<1>2. QED
  BY <1>1, Invariance, PTL DEF Spec, RefusedOnlyForAccounts
=============================================================================
