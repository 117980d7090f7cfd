-------------------------- MODULE SpecPrep_proofs --------------------------
(***************************************************************************)
(* Proofs about specprep, for every set of documents without a cycle: the    *)
(* rewriting settles each schema at its first visit and keeps what it        *)
(* accepts, and the walk leaves nothing out.                                 *)
(***************************************************************************)
EXTENDS SpecPrep, FiniteSetTheorems, TLAPS

\* A schema before or after its rewriting.
Shapes ==
  [list : BOOLEAN, types : Seq(Types), oneOf : Seq(Ids), anyOf : Seq(Ids), allOf : Seq(Ids),
   nullable : BOOLEAN]

Heaps == [Ids -> Shapes]

\* What normalize makes of a schema of h.
Rewritten(h, n) == Unioned(h, Retyped(h[n]))

\* d is h with some of its schemas rewritten.
Halfway(h, d) == \A n \in Ids : d[n] \in {h[n], Rewritten(h, n)}

----------------------------------------------------------------------------
(* Sequences of one and of two.                                              *)

\* The sequence made of one element.
LEMMA OneElement ==
  ASSUME NEW x
  PROVE  SetToSeq({x}) = <<x>>
<1>1. Cardinality({x}) = 1
  BY FS_Singleton
<1>2. <<x>> \in [1 .. 1 -> {x}] /\ IsInjective(<<x>>)
  BY DEF IsInjective
<1>3. \A f : f \in [1 .. 1 -> {x}] => f = <<x>>
  <2>1. ASSUME NEW f, f \in [1 .. 1 -> {x}] PROVE f = <<x>>
    <3>1. f = [i \in 1 .. 1 |-> x] /\ <<x>> = [i \in 1 .. 1 |-> x]
      BY <2>1
    <3>. QED BY <3>1
  <2>. QED BY <2>1
<1>. QED BY <1>1, <1>2, <1>3 DEF SetToSeq

\* The members of a short sequence.
LEMMA ShortSets ==
  /\ ToSet(<<>>) = {}
  /\ \A x : ToSet(<<x>>) = {x}
BY DEF ToSet

\* The members of a sequence of two.
LEMMA PairSet ==
  ASSUME NEW T, NEW s \in Seq(T), Len(s) = 2
  PROVE  ToSet(s) = {s[1], s[2]} /\ DOMAIN s = {1, 2} /\ s[1] \in T /\ s[2] \in T
<1>1. DOMAIN s = 1 .. 2
  OBVIOUS
<1>2. 1 .. 2 = {1, 2}
  OBVIOUS
<1>3. DOMAIN s = {1, 2}
  BY <1>1, <1>2
<1>4. ToSet(s) = {s[1], s[2]}
  BY <1>3 DEF ToSet
<1>5. s[1] \in T /\ s[2] \in T
  OBVIOUS
<1>. QED BY <1>3, <1>4, <1>5

\* The members of a sequence are those of its set.
LEMMA MembersTyped ==
  ASSUME NEW T, NEW s \in Seq(T)
  PROVE  ToSet(s) \subseteq T
BY DEF ToSet

----------------------------------------------------------------------------
(* What a schema accepts is well defined: the equation of Accepts has one     *)
(* solution on every closed set of schemas, by the schema of a set that has    *)
(* no child in it.                                                           *)

\* f says what the schemas of S accept.
Solves(h, f, S) == \A n \in S : f[n] = Value(h[n], f)

\* The children of a schema are schemas.
LEMMA ChildrenTyped ==
  ASSUME NEW h \in Heaps, NEW n \in Ids
  PROVE  Children(h[n]) \subseteq Ids
BY MembersTyped DEF Heaps, Shapes, Children

\* What a schema accepts depends on its children alone.
LEMMA ValueLocal ==
  ASSUME NEW s, NEW f, NEW g, \A m \in Children(s) : f[m] = g[m]
  PROVE  Value(s, f) = Value(s, g)
<1>1. \A i \in DOMAIN s.oneOf : f[s.oneOf[i]] = g[s.oneOf[i]]
  BY DEF Children, ToSet
<1>2. \A m \in ToSet(s.anyOf) : f[m] = g[m]
  BY DEF Children
<1>3. \A m \in ToSet(s.allOf) : f[m] = g[m]
  BY DEF Children
<1>4. ASSUME NEW v
      PROVE  {j \in DOMAIN s.oneOf : v \in f[s.oneOf[j]]} = {j \in DOMAIN s.oneOf : v \in g[s.oneOf[j]]}
  BY <1>1
<1>. QED BY <1>2, <1>3, <1>4 DEF Value

\* Two solutions agree on a closed set.
LEMMA SolutionsAgree ==
  ASSUME NEW h \in Heaps, Grounded(h), NEW S \in SUBSET Ids, Closed(h, S),
         NEW f, NEW g, Solves(h, f, S), Solves(h, g, S)
  PROVE  \A n \in S : f[n] = g[n]
<1>. DEFINE Differ == {n \in S : f[n] # g[n]}
<1>1. ASSUME Differ # {} PROVE FALSE
  <2>1. PICK n \in Differ : Children(h[n]) \intersect Differ = {}
    BY <1>1 DEF Grounded
  <2>2. \A m \in Children(h[n]) : f[m] = g[m]
    BY <2>1 DEF Closed
  <2>3. Value(h[n], f) = Value(h[n], g)
    BY <2>2, ValueLocal
  <2>. QED BY <2>1, <2>3 DEF Solves
<1>. QED BY <1>1

\* A solution on the closed set S.
Attempt(h, S, f) == S \in SUBSET Ids /\ Closed(h, S) /\ Solves(h, f, S)

\* What any attempt says of a schema.
LEMMA AttemptsAgree ==
  ASSUME NEW h \in Heaps, Grounded(h), NEW S, NEW T, NEW f, NEW g,
         Attempt(h, S, f), Attempt(h, T, g)
  PROVE  \A n \in S \intersect T : f[n] = g[n]
<1>1. S \intersect T \in SUBSET Ids /\ Closed(h, S \intersect T)
  BY DEF Attempt, Closed
<1>2. Solves(h, f, S \intersect T) /\ Solves(h, g, S \intersect T)
  BY DEF Attempt, Solves
<1>. QED BY <1>1, <1>2, SolutionsAgree

\* An attempt extends to a schema whose children it covers.
LEMMA AttemptExtends ==
  ASSUME NEW h \in Heaps, NEW S, NEW f, Attempt(h, S, f),
         NEW n \in Ids, Children(h[n]) \subseteq S, n \notin S
  PROVE  Attempt(h, S \union {n},
                 [m \in S \union {n} |-> IF m = n THEN Value(h[n], f) ELSE f[m]])
<1>. DEFINE T == S \union {n}
            g == [m \in T |-> IF m = n THEN Value(h[n], f) ELSE f[m]]
<1>1. T \in SUBSET Ids /\ Closed(h, T)
  BY DEF Attempt, Closed
<1>2. \A m \in S : g[m] = f[m]
  OBVIOUS
<1>3. ASSUME NEW m \in T PROVE g[m] = Value(h[m], g)
  <2>1. \A k \in Children(h[m]) : g[k] = f[k]
    BY <1>2 DEF Attempt, Closed
  <2>2. Value(h[m], f) = Value(h[m], g)
    BY <2>1, <1>1, ValueLocal
  <2>3. g[m] = Value(h[m], f)
    BY DEF Attempt, Solves
  <2>. QED BY <2>2, <2>3
<1>. QED BY <1>1, <1>3 DEF Attempt, Solves

\* The members of Accepts(h) solve its equation.
LEMMA AcceptsSolves ==
  ASSUME NEW h \in Heaps, Grounded(h)
  PROVE  Accepts(h) = [n \in Ids |-> Value(h[n], Accepts(h))]
<1>. DEFINE Good == {n \in Ids : \E S, f : Attempt(h, S, f) /\ n \in S}
            F == [n \in Ids |-> CHOOSE v : \E S, f : Attempt(h, S, f) /\ n \in S /\ v = f[n]]
<1>1. ASSUME NEW S, NEW f, Attempt(h, S, f), NEW n \in S PROVE F[n] = f[n]
  <2>1. \E v : \E T, g : Attempt(h, T, g) /\ n \in T /\ v = g[n]
    BY <1>1
  <2>2. n \in Ids
    BY <1>1 DEF Attempt
  <2>3. PICK T, g : Attempt(h, T, g) /\ n \in T /\ F[n] = g[n]
    BY <2>1, <2>2
  <2>. QED BY <1>1, <2>3, AttemptsAgree
<1>2. ASSUME NEW n \in Good PROVE Children(h[n]) \subseteq Good /\ F[n] = Value(h[n], F)
  <2>1. PICK S, f : Attempt(h, S, f) /\ n \in S
    OBVIOUS
  <2>2. Children(h[n]) \subseteq S /\ S \subseteq Ids
    BY <2>1 DEF Attempt, Closed
  <2>3. Children(h[n]) \subseteq Good
    BY <2>1, <2>2
  <2>4. \A m \in Children(h[n]) : F[m] = f[m]
    BY <2>1, <2>2, <1>1
  <2>5. Value(h[n], F) = Value(h[n], f)
    BY <2>1, <2>2, <2>4, ValueLocal
  <2>6. F[n] = f[n] /\ f[n] = Value(h[n], f)
    BY <2>1, <1>1 DEF Attempt, Solves
  <2>. QED BY <2>3, <2>5, <2>6
<1>3. Attempt(h, Good, F)
  BY <1>2 DEF Attempt, Closed, Solves
<1>4. Good = Ids
  <2>1. ASSUME Ids \ Good # {} PROVE FALSE
    <3>1. PICK n \in Ids \ Good : Children(h[n]) \intersect (Ids \ Good) = {}
      BY <2>1 DEF Grounded
    <3>2. Children(h[n]) \subseteq Good
      BY <3>1, ChildrenTyped
    <3>3. \E f : Attempt(h, Good \union {n}, f)
      BY <1>3, <3>1, <3>2, AttemptExtends
    <3>. QED BY <3>1, <3>3
  <2>. QED BY <2>1
<1>5. F = [n \in Ids |-> Value(h[n], F)]
  BY <1>2, <1>4
<1>. HIDE DEF F
<1>. QED BY <1>5 DEF Accepts
----------------------------------------------------------------------------
(* What the rewriting of one schema does.                                    *)

\* A document is a heap.
LEMMA DocumentIsHeap ==
  ASSUME NEW h \in Documents
  PROVE  h \in [Ids -> Schemas] /\ h \in Heaps /\ Grounded(h) /\ (\A n \in Ids : h[n].nullable = FALSE)
<1>1. h \in [Ids -> Schemas] /\ Grounded(h)
  BY DocumentsAssumption
<1>2. ASSUME NEW n \in Ids PROVE h[n] \in Shapes /\ h[n].nullable = FALSE
  BY <1>1 DEF Schemas, Shapes
<1>. QED BY <1>1, <1>2 DEF Heaps

\* The type beside null: one, and the list has no third.
LEMMA OtherType ==
  ASSUME NEW s \in Shapes, nullableOtherType(s) # {}
  PROVE  \E t \in Types : /\ t # Null /\ nullableOtherType(s) = {t}
                          /\ ToSet(s.types) = {t, Null} /\ s.types # <<>>
<1>1. s.list /\ Len(s.types) = 2 /\ Null \in ToSet(s.types)
  BY DEF nullableOtherType
<1>2. s.types \in Seq(Types)
  BY DEF Shapes
<1>3. /\ ToSet(s.types) = {s.types[1], s.types[2]}
      /\ s.types[1] \in Types /\ s.types[2] \in Types
  BY <1>1, <1>2, PairSet
<1>4. nullableOtherType(s) = ToSet(s.types) \ {Null}
  BY <1>1 DEF nullableOtherType
<1>5. s.types # <<>>
  BY <1>1
<1>6. PICK t \in nullableOtherType(s) : TRUE
  OBVIOUS
<1>7. t \in Types /\ t # Null
  BY <1>3, <1>4, <1>6
<1>8. ToSet(s.types) = {t, Null}
  BY <1>1, <1>3, <1>4, <1>6, <1>7
<1>. QED BY <1>4, <1>5, <1>7, <1>8

\* The schema beside a bare null: one, and the union has no third.
LEMMA Collapsed ==
  ASSUME NEW h, NEW items \in Seq(Ids), collapseNullableUnion(h, items) # {}
  PROVE  \E x, b \in Ids :
           /\ collapseNullableUnion(h, items) = {x}
           /\ isBareNullSchema(h, b) /\ ~isBareNullSchema(h, x)
           /\ DOMAIN items = {1, 2} /\ ToSet(items) = {x, b}
           /\ \/ items[1] = x /\ items[2] = b
              \/ items[1] = b /\ items[2] = x
<1>1. Len(items) = 2 /\ \E n \in ToSet(items) : isBareNullSchema(h, n)
  BY DEF collapseNullableUnion
<1>2. /\ ToSet(items) = {items[1], items[2]} /\ DOMAIN items = {1, 2}
      /\ items[1] \in Ids /\ items[2] \in Ids
  BY <1>1, PairSet
<1>3. collapseNullableUnion(h, items) = {n \in ToSet(items) : ~isBareNullSchema(h, n)}
  BY <1>1 DEF collapseNullableUnion
<1>4. PICK x \in ToSet(items) : ~isBareNullSchema(h, x)
  BY <1>3
<1>5. PICK b \in ToSet(items) : isBareNullSchema(h, b)
  BY <1>1
<1>6. \/ items[1] = x /\ items[2] = b
      \/ items[1] = b /\ items[2] = x
  BY <1>2, <1>4, <1>5
<1>7. ToSet(items) = {x, b}
  BY <1>2, <1>6
<1>8. collapseNullableUnion(h, items) = {x}
  BY <1>3, <1>4, <1>5, <1>7
<1>. QED BY <1>2, <1>4, <1>5, <1>6, <1>7, <1>8

\* An absent union is none.
LEMMA NoneCollapsed ==
  ASSUME NEW h
  PROVE  collapseNullableUnion(h, <<>>) = {}
BY DEF collapseNullableUnion

\* A type keyword, retyped or as it was.
LEMMA RetypedIs ==
  ASSUME NEW s \in Shapes
  PROVE  \/ nullableOtherType(s) = {} /\ Retyped(s) = s
         \/ \E t \in Types :
              /\ nullableOtherType(s) # {}
              /\ t # Null /\ ToSet(s.types) = {t, Null} /\ s.types # <<>>
              /\ Retyped(s) = [s EXCEPT !.list = FALSE, !.types = <<t>>, !.nullable = TRUE]
<1>1. CASE nullableOtherType(s) = {}
  BY <1>1 DEF Retyped
<1>2. CASE nullableOtherType(s) # {}
  <2>1. PICK t \in Types : /\ t # Null /\ nullableOtherType(s) = {t}
                           /\ ToSet(s.types) = {t, Null} /\ s.types # <<>>
    BY <1>2, OtherType
  <2>2. SetToSeq(nullableOtherType(s)) = <<t>>
    BY <2>1, OneElement
  <2>. QED BY <1>2, <2>1, <2>2 DEF Retyped
<1>. QED BY <1>1, <1>2
\* What Retyped leaves of a schema.
LEMMA RetypedFacts ==
  ASSUME NEW s \in Shapes
  PROVE  /\ Retyped(s) \in Shapes
         /\ Retyped(s).oneOf = s.oneOf /\ Retyped(s).anyOf = s.anyOf /\ Retyped(s).allOf = s.allOf
         /\ nullableOtherType(Retyped(s)) = {}
         /\ Retyped(s) = s \/ Retyped(s).nullable = TRUE
         /\ s.list = FALSE => Retyped(s) = s
<1>1. CASE nullableOtherType(s) = {} /\ Retyped(s) = s
  BY <1>1
<1>2. ASSUME NEW t \in Types, nullableOtherType(s) # {},
             Retyped(s) = [s EXCEPT !.list = FALSE, !.types = <<t>>, !.nullable = TRUE]
      PROVE  /\ Retyped(s) \in Shapes
             /\ Retyped(s).oneOf = s.oneOf /\ Retyped(s).anyOf = s.anyOf /\ Retyped(s).allOf = s.allOf
             /\ nullableOtherType(Retyped(s)) = {}
             /\ Retyped(s).nullable = TRUE
             /\ s.list # FALSE
  <2>1. <<t>> \in Seq(Types)
    OBVIOUS
  <2>2. Retyped(s) \in Shapes /\ Retyped(s).list = FALSE /\ Retyped(s).nullable = TRUE
    BY <1>2, <2>1 DEF Shapes
  <2>3. Retyped(s).oneOf = s.oneOf /\ Retyped(s).anyOf = s.anyOf /\ Retyped(s).allOf = s.allOf
    BY <1>2 DEF Shapes
  <2>4. nullableOtherType(Retyped(s)) = {}
    BY <2>2 DEF nullableOtherType
  <2>5. s.list # FALSE
    BY <1>2 DEF nullableOtherType
  <2>. QED BY <2>2, <2>3, <2>4, <2>5
<1>. QED BY <1>1, <1>2, RetypedIs

\* What a schema becomes, by the schemas its two unions collapse to.
Becomes(s, one, any, w) ==
  /\ one = {} /\ any = {} => w = s
  /\ \A x \in Ids : one = {x} /\ any = {} =>
       w = [s EXCEPT !.oneOf = <<>>, !.allOf = <<x>>, !.nullable = TRUE]
  /\ \A y \in Ids : one = {} /\ any = {y} =>
       w = [s EXCEPT !.anyOf = <<>>, !.allOf = <<y>>, !.nullable = TRUE]
  /\ \A x, y \in Ids : one = {x} /\ any = {y} =>
       w = [s EXCEPT !.oneOf = <<>>, !.anyOf = <<>>, !.allOf = <<y>>, !.nullable = TRUE]

\* What Unioned makes of a schema.
LEMMA UnionedIs ==
  ASSUME NEW h, NEW s \in Shapes
  PROVE  Becomes(s, collapseNullableUnion(h, s.oneOf), collapseNullableUnion(h, s.anyOf), Unioned(h, s))
<1>. DEFINE one == collapseNullableUnion(h, s.oneOf)
            any == collapseNullableUnion(h, s.anyOf)
            first == IF one = {} THEN s
                     ELSE [s EXCEPT !.oneOf = <<>>, !.allOf = SetToSeq(one), !.nullable = TRUE]
<1>1. Unioned(h, s) =
        IF any = {} THEN first
        ELSE [first EXCEPT !.anyOf = <<>>, !.allOf = SetToSeq(any), !.nullable = TRUE]
  BY DEF Unioned
<1>. HIDE DEF one, any
<1>2. one = {} /\ any = {} => Unioned(h, s) = s
  BY <1>1
<1>3. ASSUME NEW x \in Ids, one = {x}, any = {}
      PROVE  Unioned(h, s) = [s EXCEPT !.oneOf = <<>>, !.allOf = <<x>>, !.nullable = TRUE]
  BY <1>1, <1>3, OneElement
<1>4. ASSUME NEW y \in Ids, one = {}, any = {y}
      PROVE  Unioned(h, s) = [s EXCEPT !.anyOf = <<>>, !.allOf = <<y>>, !.nullable = TRUE]
  BY <1>1, <1>4, OneElement
<1>5. ASSUME NEW x \in Ids, NEW y \in Ids, one = {x}, any = {y}
      PROVE  Unioned(h, s) = [s EXCEPT !.oneOf = <<>>, !.anyOf = <<>>, !.allOf = <<y>>, !.nullable = TRUE]
  <2>1. Unioned(h, s) = [first EXCEPT !.anyOf = <<>>, !.allOf = <<y>>, !.nullable = TRUE]
    BY <1>1, <1>5, OneElement
  <2>2. first = [s EXCEPT !.oneOf = <<>>, !.allOf = <<x>>, !.nullable = TRUE]
    BY <1>5, OneElement
  <2>. QED BY <2>1, <2>2 DEF Shapes
<1>6. Becomes(s, one, any, Unioned(h, s))
  BY <1>2, <1>3, <1>4, <1>5 DEF Becomes
<1>. QED BY <1>6 DEF one, any
\* What Unioned leaves of a schema: no union that collapses.
LEMMA UnionedFacts ==
  ASSUME NEW h, NEW s \in Shapes
  PROVE  LET w == Unioned(h, s)
         IN  /\ w \in Shapes
             /\ w.list = s.list /\ w.types = s.types
             /\ Children(w) \subseteq Children(s)
             /\ collapseNullableUnion(h, w.oneOf) = {}
             /\ collapseNullableUnion(h, w.anyOf) = {}
             /\ w = s \/ w.nullable = TRUE
             /\ s.oneOf = <<>> /\ s.anyOf = <<>> => w = s
<1>. DEFINE one == collapseNullableUnion(h, s.oneOf)
            any == collapseNullableUnion(h, s.anyOf)
            w == Unioned(h, s)
<1>1. s.oneOf \in Seq(Ids) /\ s.anyOf \in Seq(Ids) /\ s.allOf \in Seq(Ids)
  BY DEF Shapes
<1>2. one # {} => \E x \in Ids : one = {x} /\ x \in ToSet(s.oneOf) /\ s.oneOf # <<>>
  BY <1>1, Collapsed, NoneCollapsed
<1>3. any # {} => \E y \in Ids : any = {y} /\ y \in ToSet(s.anyOf) /\ s.anyOf # <<>>
  BY <1>1, Collapsed, NoneCollapsed
<1>4. Becomes(s, one, any, w)
  BY UnionedIs
<1>5. w = Unioned(h, s) /\ one = collapseNullableUnion(h, s.oneOf) /\ any = collapseNullableUnion(h, s.anyOf)
  OBVIOUS
<1>. HIDE DEF one, any, w
<1>6. CASE one = {} /\ any = {}
  <2>1. w = s
    BY <1>6, <1>4 DEF Becomes
  <2>. QED BY <1>6, <1>5, <2>1
<1>7. CASE one # {} /\ any = {}
  <2>1. PICK x \in Ids : one = {x} /\ x \in ToSet(s.oneOf) /\ s.oneOf # <<>>
    BY <1>2, <1>7
  <2>2. w = [s EXCEPT !.oneOf = <<>>, !.allOf = <<x>>, !.nullable = TRUE]
    BY <1>7, <2>1, <1>4 DEF Becomes
  <2>3. <<x>> \in Seq(Ids) /\ <<>> \in Seq(Ids)
    OBVIOUS
  <2>4. /\ w \in Shapes /\ w.list = s.list /\ w.types = s.types /\ w.nullable = TRUE
        /\ w.oneOf = <<>> /\ w.anyOf = s.anyOf /\ w.allOf = <<x>>
    BY <2>2, <2>3 DEF Shapes
  <2>5. Children(w) \subseteq Children(s)
    BY <2>1, <2>4, ShortSets DEF Children
  <2>6. collapseNullableUnion(h, w.oneOf) = {} /\ collapseNullableUnion(h, w.anyOf) = {}
    BY <1>7, <1>5, <2>4, NoneCollapsed
  <2>. QED BY <1>5, <2>1, <2>4, <2>5, <2>6
<1>8. CASE one = {} /\ any # {}
  <2>1. PICK y \in Ids : any = {y} /\ y \in ToSet(s.anyOf) /\ s.anyOf # <<>>
    BY <1>3, <1>8
  <2>2. w = [s EXCEPT !.anyOf = <<>>, !.allOf = <<y>>, !.nullable = TRUE]
    BY <1>8, <2>1, <1>4 DEF Becomes
  <2>3. <<y>> \in Seq(Ids) /\ <<>> \in Seq(Ids)
    OBVIOUS
  <2>4. /\ w \in Shapes /\ w.list = s.list /\ w.types = s.types /\ w.nullable = TRUE
        /\ w.oneOf = s.oneOf /\ w.anyOf = <<>> /\ w.allOf = <<y>>
    BY <2>2, <2>3 DEF Shapes
  <2>5. Children(w) \subseteq Children(s)
    BY <2>1, <2>4, ShortSets DEF Children
  <2>6. collapseNullableUnion(h, w.oneOf) = {} /\ collapseNullableUnion(h, w.anyOf) = {}
    BY <1>8, <1>5, <2>4, NoneCollapsed
  <2>. QED BY <1>5, <2>1, <2>4, <2>5, <2>6
<1>9. CASE one # {} /\ any # {}
  <2>1. PICK x \in Ids : one = {x} /\ x \in ToSet(s.oneOf) /\ s.oneOf # <<>>
    BY <1>2, <1>9
  <2>2. PICK y \in Ids : any = {y} /\ y \in ToSet(s.anyOf) /\ s.anyOf # <<>>
    BY <1>3, <1>9
  <2>3. w = [s EXCEPT !.oneOf = <<>>, !.anyOf = <<>>, !.allOf = <<y>>, !.nullable = TRUE]
    BY <2>1, <2>2, <1>4 DEF Becomes
  <2>4. <<y>> \in Seq(Ids) /\ <<>> \in Seq(Ids)
    OBVIOUS
  <2>5. /\ w \in Shapes /\ w.list = s.list /\ w.types = s.types /\ w.nullable = TRUE
        /\ w.oneOf = <<>> /\ w.anyOf = <<>> /\ w.allOf = <<y>>
    BY <2>3, <2>4 DEF Shapes
  <2>6. Children(w) \subseteq Children(s)
    BY <2>2, <2>5, ShortSets DEF Children
  <2>7. collapseNullableUnion(h, w.oneOf) = {} /\ collapseNullableUnion(h, w.anyOf) = {}
    BY <2>5, NoneCollapsed
  <2>. QED BY <1>5, <2>1, <2>5, <2>6, <2>7
<1>. QED BY <1>6, <1>7, <1>8, <1>9, <1>5

\* One visit settles a schema: it is a schema again, whose children are among those it
\* had; nothing of it is left to rewrite; and one that is not nullable is as it was.
LEMMA RewrittenFacts ==
  ASSUME NEW h \in Documents, NEW n \in Ids
  PROVE  LET w == Rewritten(h, n)
         IN  /\ w \in Shapes
             /\ Children(w) \subseteq Children(h[n])
             /\ nullableOtherType(w) = {}
             /\ collapseNullableUnion(h, w.oneOf) = {}
             /\ collapseNullableUnion(h, w.anyOf) = {}
             /\ ~w.nullable => w = h[n]
             /\ isBareNullSchema(h, n) => w = h[n]
<1>. DEFINE s == h[n]
            r == Retyped(s)
            w == Unioned(h, r)
<1>1. s \in Shapes /\ s.nullable = FALSE
  BY DocumentIsHeap DEF Heaps
<1>. HIDE DEF s
<1>2. /\ r \in Shapes
      /\ r.oneOf = s.oneOf /\ r.anyOf = s.anyOf /\ r.allOf = s.allOf
      /\ nullableOtherType(r) = {}
      /\ r = s \/ r.nullable = TRUE
      /\ s.list = FALSE => r = s
  BY <1>1, RetypedFacts
<1>. HIDE DEF r
<1>3. /\ w \in Shapes
      /\ w.list = r.list /\ w.types = r.types
      /\ Children(w) \subseteq Children(r)
      /\ collapseNullableUnion(h, w.oneOf) = {}
      /\ collapseNullableUnion(h, w.anyOf) = {}
      /\ w = r \/ w.nullable = TRUE
      /\ r.oneOf = <<>> /\ r.anyOf = <<>> => w = r
  BY <1>2, UnionedFacts
<1>. HIDE DEF w
<1>4. Children(w) \subseteq Children(s)
  BY <1>2, <1>3 DEF Children
<1>5. nullableOtherType(w) = {}
  BY <1>2, <1>3 DEF nullableOtherType
<1>6. ~w.nullable => w = s
  BY <1>2, <1>3
<1>7. isBareNullSchema(h, n) => w = s
  <2>1. ASSUME isBareNullSchema(h, n) PROVE s.list = FALSE /\ s.oneOf = <<>> /\ s.anyOf = <<>>
    BY <2>1 DEF isBareNullSchema, Schema, s
  <2>. QED BY <1>2, <1>3, <2>1
<1>. QED BY <1>3, <1>4, <1>5, <1>6, <1>7 DEF s, r, w, Rewritten

\* A document that is half rewritten has the bare nulls of the document.
LEMMA SameBare ==
  ASSUME NEW h \in Documents, NEW d, Halfway(h, d)
  PROVE  /\ \A n \in Ids : isBareNullSchema(d, n) <=> isBareNullSchema(h, n)
         /\ \A items \in Seq(Ids) : collapseNullableUnion(d, items) = collapseNullableUnion(h, items)
<1>1. ASSUME NEW n \in Ids PROVE isBareNullSchema(d, n) <=> isBareNullSchema(h, n)
  <2>1. CASE d[n] = h[n]
    BY <2>1 DEF isBareNullSchema
  <2>2. CASE d[n] = Rewritten(h, n)
    <3>1. isBareNullSchema(h, n) => d[n] = h[n]
      BY <2>2, RewrittenFacts
    <3>2. isBareNullSchema(d, n) => ~Rewritten(h, n).nullable
      BY <2>2 DEF isBareNullSchema, Schema
    <3>3. isBareNullSchema(d, n) => d[n] = h[n]
      BY <2>2, <3>2, RewrittenFacts
    <3>. QED BY <3>1, <3>3 DEF isBareNullSchema
  <2>. QED BY <2>1, <2>2 DEF Halfway
<1>2. ASSUME NEW items \in Seq(Ids)
      PROVE  collapseNullableUnion(d, items) = collapseNullableUnion(h, items)
  <2>1. \A n \in ToSet(items) : isBareNullSchema(d, n) <=> isBareNullSchema(h, n)
    BY <1>1, MembersTyped
  <2>. QED BY <2>1 DEF collapseNullableUnion
<1>. QED BY <1>1, <1>2

\* A visit makes of a schema what it would have made of it in the document: the order of
\* the walk does not matter, nor do two visits.
LEMMA VisitSettles ==
  ASSUME NEW h \in Documents, NEW d, Halfway(h, d), NEW n \in Ids
  PROVE  Unioned(d, Retyped(d[n])) = Rewritten(h, n)
<1>1. ASSUME NEW s \in Shapes PROVE Unioned(d, s) = Unioned(h, s)
  <2>1. s.oneOf \in Seq(Ids) /\ s.anyOf \in Seq(Ids)
    BY DEF Shapes
  <2>2. /\ collapseNullableUnion(d, s.oneOf) = collapseNullableUnion(h, s.oneOf)
        /\ collapseNullableUnion(d, s.anyOf) = collapseNullableUnion(h, s.anyOf)
    BY <2>1, SameBare
  <2>. QED BY <2>2 DEF Unioned
<1>2. CASE d[n] = h[n]
  <2>1. h[n] \in Shapes
    BY DocumentIsHeap DEF Heaps
  <2>2. Retyped(h[n]) \in Shapes
    BY <2>1, RetypedFacts
  <2>. QED BY <1>1, <1>2, <2>2 DEF Rewritten
<1>3. CASE d[n] = Rewritten(h, n)
  <2>. DEFINE w == Rewritten(h, n)
  <2>1. /\ w \in Shapes /\ nullableOtherType(w) = {}
        /\ collapseNullableUnion(h, w.oneOf) = {} /\ collapseNullableUnion(h, w.anyOf) = {}
    BY RewrittenFacts
  <2>. HIDE DEF w
  <2>2. Retyped(w) = w
    BY <2>1 DEF Retyped
  <2>3. Unioned(h, w) = w
    BY <2>1, UnionedIs DEF Becomes
  <2>. QED BY <1>1, <1>3, <2>1, <2>2, <2>3 DEF w
<1>. QED BY <1>2, <1>3 DEF Halfway
----------------------------------------------------------------------------
(* The rewriting keeps what a schema accepts, if the schema says one thing.   *)

\* A type beside null, made nullable.
LEMMA RetypedMeans ==
  ASSUME NEW s \in Shapes, NEW A, nullableOtherType(s) # {},
         s.oneOf = <<>>, s.anyOf = <<>>, s.allOf = <<>>
  PROVE  Value(Retyped(s), A) = Value(s, A)
<1>1. PICK t \in Types : /\ t # Null /\ ToSet(s.types) = {t, Null} /\ s.types # <<>>
                         /\ Retyped(s) = [s EXCEPT !.list = FALSE, !.types = <<t>>, !.nullable = TRUE]
  BY RetypedIs
<1>. DEFINE r == Retyped(s)
<1>2. /\ r.types = <<t>> /\ r.nullable = TRUE
      /\ r.oneOf = <<>> /\ r.anyOf = <<>> /\ r.allOf = <<>>
  BY <1>1 DEF Shapes
<1>. HIDE DEF r
<1>3. ToSet(<<t>>) = {t} /\ <<t>> # <<>> /\ ToSet(<<>>) = {}
  BY ShortSets
<1>4. \A v : Typed(r, v) <=> v = t
  BY <1>2, <1>3 DEF Typed
<1>5. \A v : Typed(s, v) <=> v \in {t, Null}
  BY <1>1 DEF Typed
<1>6. Value(r, A) = {v \in Types : v = Null \/ v = t}
  BY <1>2, <1>3, <1>4 DEF Value
<1>7. Value(s, A) = {v \in Types : v = Null \/ v = t}
  BY <1>3, <1>5 DEF Value
<1>. QED BY <1>6, <1>7 DEF r

\* S, and null.
OrNull(S) == {v \in Types : v = Null \/ v \in S}

\* A nullable allOf of one schema.
LEMMA NullableOf ==
  ASSUME NEW w, NEW A, NEW x, w.types = <<>>, w.oneOf = <<>>, w.anyOf = <<>>,
         w.allOf = <<x>>, w.nullable = TRUE
  PROVE  Value(w, A) = OrNull(A[x])
<1>1. ToSet(w.allOf) = {x}
  BY ShortSets
<1>2. \A v : Typed(w, v)
  BY DEF Typed
<1>. QED BY <1>1, <1>2 DEF Value, OrNull

\* An anyOf of a schema and a bare null.
LEMMA AnyOfMeans ==
  ASSUME NEW s, NEW A, NEW x, NEW b, s.types = <<>>, s.oneOf = <<>>, s.allOf = <<>>,
         ~s.nullable, s.anyOf # <<>>, ToSet(s.anyOf) = {x, b}, A[b] = {Null}
  PROVE  Value(s, A) = OrNull(A[x])
<1>1. ToSet(s.allOf) = {}
  BY ShortSets
<1>2. \A v : Typed(s, v)
  BY DEF Typed
<1>. QED BY <1>1, <1>2 DEF Value, OrNull

\* s is a oneOf of x, which rejects null, and of b, which accepts nothing else.
BesideNull(s, A, x, b, k, l) ==
  /\ s.types = <<>> /\ s.anyOf = <<>> /\ s.allOf = <<>> /\ ~s.nullable
  /\ s.oneOf # <<>> /\ DOMAIN s.oneOf = {k, l} /\ k # l
  /\ s.oneOf[k] = x /\ s.oneOf[l] = b
  /\ A[b] = {Null} /\ Null \notin A[x]

\* Such a oneOf accepts what x accepts, and null.
LEMMA OneOfMeans ==
  ASSUME NEW s, NEW A, NEW x, NEW b, NEW k, NEW l, BesideNull(s, A, x, b, k, l)
  PROVE  Value(s, A) = OrNull(A[x])
<1>1. ToSet(s.allOf) = {}
  BY ShortSets DEF BesideNull
<1>2. \A v : Typed(s, v)
  BY DEF Typed, BesideNull
<1>. DEFINE taken(v) == {j \in DOMAIN s.oneOf : v \in A[s.oneOf[j]]}
<1>3. ASSUME NEW v \in Types
      PROVE  (\E i \in DOMAIN s.oneOf : taken(v) = {i}) <=> v = Null \/ v \in A[x]
  <2>1. CASE v = Null
    <3>1. taken(v) = {l}
      BY <2>1 DEF BesideNull
    <3>. QED BY <2>1, <3>1 DEF BesideNull
  <2>2. CASE v # Null /\ v \in A[x]
    <3>1. taken(v) = {k}
      BY <2>2 DEF BesideNull
    <3>. QED BY <2>2, <3>1 DEF BesideNull
  <2>3. CASE v # Null /\ v \notin A[x]
    <3>1. taken(v) = {}
      BY <2>3 DEF BesideNull
    <3>. QED BY <2>3, <3>1
  <2>. QED BY <2>1, <2>2, <2>3
<1>4. ASSUME NEW v \in Types
      PROVE  v \in Value(s, A) <=> v = Null \/ v \in A[x]
  BY <1>1, <1>2, <1>3 DEF Value, BesideNull
<1>5. Value(s, A) \subseteq Types
  BY DEF Value
<1>. QED BY <1>4, <1>5 DEF OrNull

\* A bare null accepts null.
LEMMA BareMeans ==
  ASSUME NEW h \in Documents, NEW b \in Ids, isBareNullSchema(h, b)
  PROVE  Accepts(h)[b] = {Null}
<1>1. Accepts(h)[b] = Value(h[b], Accepts(h))
  BY AcceptsSolves, DocumentIsHeap
<1>2. /\ h[b].types = <<Null>> /\ h[b].nullable = FALSE
      /\ h[b].oneOf = <<>> /\ h[b].anyOf = <<>> /\ h[b].allOf = <<>>
  BY DEF isBareNullSchema, Schema
<1>3. ToSet(h[b].types) = {Null} /\ h[b].types # <<>> /\ ToSet(h[b].allOf) = {}
  BY <1>2, ShortSets
<1>4. Value(h[b], Accepts(h)) = {v \in Types : v = Null}
  BY <1>2, <1>3 DEF Value, Typed
<1>. QED BY <1>1, <1>4 DEF Types

\* Below is the least closed set.
LEMMA BelowClosed ==
  ASSUME NEW h \in Heaps
  PROVE  /\ Below(h, Root) \subseteq Ids /\ Root \in Below(h, Root) /\ Closed(h, Below(h, Root))
         /\ \A S \in SUBSET Ids : Root \in S /\ Closed(h, S) => Below(h, Root) \subseteq S
<1>1. ASSUME NEW n \in Below(h, Root), NEW m \in Children(h[n]) PROVE m \in Below(h, Root)
  <2>1. n \in Ids /\ m \in Ids
    BY ChildrenTyped DEF Below
  <2>2. ASSUME NEW S \in SUBSET Ids, Root \in S, Closed(h, S) PROVE m \in S
    BY <2>2 DEF Below, Closed
  <2>. QED BY <2>1, <2>2 DEF Below
<1>2. Closed(h, Below(h, Root))
  BY <1>1 DEF Closed
<1>3. Root \in Below(h, Root)
  BY DocumentsAssumption DEF Below
<1>. QED BY <1>2, <1>3 DEF Below
\* A schema that says one thing has one keyword; a oneOf of it and a bare null does not
\* let null in twice.
LEMMA PlainSchema ==
  ASSUME NEW h \in Documents, Plain(h), NEW n \in Below(h, Root)
  PROVE  LET s == h[n]
         IN  /\ s.types # <<>> => s.oneOf = <<>> /\ s.anyOf = <<>> /\ s.allOf = <<>>
             /\ s.oneOf # <<>> => s.types = <<>> /\ s.anyOf = <<>> /\ s.allOf = <<>>
             /\ s.anyOf # <<>> => s.types = <<>> /\ s.oneOf = <<>> /\ s.allOf = <<>>
             /\ \A i, j \in DOMAIN s.oneOf :
                  Null \in Accepts(h)[s.oneOf[i]] /\ Null \in Accepts(h)[s.oneOf[j]] => i = j
<1>. DEFINE s == h[n]
<1>1. \A k, l \in {"types", "oneOf", "anyOf", "allOf"} : s[k] # <<>> /\ s[l] # <<>> => k = l
  BY DEF Plain
<1>2. \A i, j \in DOMAIN s.oneOf :
        Null \in Accepts(h)[s.oneOf[i]] /\ Null \in Accepts(h)[s.oneOf[j]] => i = j
  BY DEF Plain
<1>. HIDE DEF s
<1>3. /\ s["types"] # <<>> => s["oneOf"] = <<>> /\ s["anyOf"] = <<>> /\ s["allOf"] = <<>>
      /\ s["oneOf"] # <<>> => s["types"] = <<>> /\ s["anyOf"] = <<>> /\ s["allOf"] = <<>>
      /\ s["anyOf"] # <<>> => s["types"] = <<>> /\ s["oneOf"] = <<>> /\ s["allOf"] = <<>>
  BY <1>1
<1>. QED BY <1>2, <1>3 DEF s

\* Rewritten or not, such a schema accepts what it accepted, if its children do.
LEMMA SameMeaning ==
  ASSUME NEW h \in Documents, Plain(h), NEW n \in Below(h, Root)
  PROVE  Value(Rewritten(h, n), Accepts(h)) = Accepts(h)[n]
<1>. DEFINE s == h[n]
            A == Accepts(h)
            w == Rewritten(h, n)
            one == collapseNullableUnion(h, s.oneOf)
            any == collapseNullableUnion(h, s.anyOf)
<1>1. n \in Ids /\ s \in Shapes /\ ~s.nullable
  BY DocumentIsHeap DEF Below, Heaps
<1>2. A[n] = Value(s, A)
  BY <1>1, AcceptsSolves, DocumentIsHeap
<1>3. /\ s.types # <<>> => s.oneOf = <<>> /\ s.anyOf = <<>> /\ s.allOf = <<>>
      /\ s.oneOf # <<>> => s.types = <<>> /\ s.anyOf = <<>> /\ s.allOf = <<>>
      /\ s.anyOf # <<>> => s.types = <<>> /\ s.oneOf = <<>> /\ s.allOf = <<>>
      /\ \A i, j \in DOMAIN s.oneOf : Null \in A[s.oneOf[i]] /\ Null \in A[s.oneOf[j]] => i = j
  BY PlainSchema
<1>4. \A b \in Ids : isBareNullSchema(h, b) => A[b] = {Null}
  BY BareMeans
<1>5. w = Unioned(h, Retyped(s))
  BY DEF Rewritten
<1>6. s.oneOf \in Seq(Ids) /\ s.anyOf \in Seq(Ids)
  BY <1>1 DEF Shapes
<1>7. Becomes(s, one, any, Unioned(h, s))
  BY <1>1, UnionedIs
<1>8. /\ one # {} => s.oneOf # <<>> /\ \E x, b \in Ids :
           /\ one = {x} /\ isBareNullSchema(h, b) /\ DOMAIN s.oneOf = {1, 2}
           /\ \/ s.oneOf[1] = x /\ s.oneOf[2] = b
              \/ s.oneOf[1] = b /\ s.oneOf[2] = x
      /\ any # {} => s.anyOf # <<>> /\ \E x, b \in Ids :
           any = {x} /\ isBareNullSchema(h, b) /\ ToSet(s.anyOf) = {x, b}
  BY <1>6, Collapsed, NoneCollapsed
<1>. HIDE DEF s, A, w, one, any
<1>9. CASE nullableOtherType(s) # {}
  <2>1. s.oneOf = <<>> /\ s.anyOf = <<>> /\ s.allOf = <<>>
    BY <1>1, <1>3, <1>9, OtherType
  <2>2. Retyped(s) \in Shapes /\ Retyped(s).oneOf = <<>> /\ Retyped(s).anyOf = <<>>
    BY <1>1, <2>1, RetypedFacts
  <2>3. w = Retyped(s)
    BY <1>5, <2>2, UnionedFacts
  <2>. QED BY <1>1, <1>2, <1>9, <2>1, <2>3, RetypedMeans DEF A, w
<1>10. CASE nullableOtherType(s) = {} /\ one = {} /\ any = {}
  <2>1. w = s
    BY <1>5, <1>7, <1>10 DEF Retyped, Becomes
  <2>. QED BY <1>2, <2>1 DEF A, w
<1>11. CASE nullableOtherType(s) = {} /\ one # {}
  <2>1. PICK x, b \in Ids :
           /\ one = {x} /\ isBareNullSchema(h, b) /\ DOMAIN s.oneOf = {1, 2}
           /\ \/ s.oneOf[1] = x /\ s.oneOf[2] = b
              \/ s.oneOf[1] = b /\ s.oneOf[2] = x
    BY <1>8, <1>11
  <2>2. s.oneOf # <<>> /\ s.types = <<>> /\ s.anyOf = <<>> /\ s.allOf = <<>> /\ any = {}
    BY <1>3, <1>8, <1>11
  <2>3. w = [s EXCEPT !.oneOf = <<>>, !.allOf = <<x>>, !.nullable = TRUE]
    BY <1>5, <1>7, <1>11, <2>1, <2>2 DEF Retyped, Becomes
  <2>4. /\ w.types = <<>> /\ w.oneOf = <<>> /\ w.anyOf = <<>> /\ w.allOf = <<x>> /\ w.nullable = TRUE
    BY <1>1, <2>2, <2>3 DEF Shapes
  <2>5. A[b] = {Null}
    BY <1>4, <2>1
  <2>6. Null \notin A[x]
    BY <1>3, <2>1, <2>5
  <2>7. PICK k, l \in {1, 2} : k # l /\ s.oneOf[k] = x /\ s.oneOf[l] = b
    BY <2>1
  <2>8. DOMAIN s.oneOf = {k, l}
    BY <2>1, <2>7
  <2>9. BesideNull(s, A, x, b, k, l)
    BY <1>1, <2>2, <2>5, <2>6, <2>7, <2>8 DEF BesideNull
  <2>10. Value(s, A) = OrNull(A[x])
    BY <2>9, OneOfMeans
  <2>11. Value(w, A) = OrNull(A[x])
    BY <2>4, NullableOf
  <2>. QED BY <1>2, <2>10, <2>11 DEF A, w
<1>12. CASE nullableOtherType(s) = {} /\ one = {} /\ any # {}
  <2>1. PICK x, b \in Ids : any = {x} /\ isBareNullSchema(h, b) /\ ToSet(s.anyOf) = {x, b}
    BY <1>8, <1>12
  <2>2. s.anyOf # <<>> /\ s.types = <<>> /\ s.oneOf = <<>> /\ s.allOf = <<>>
    BY <1>3, <1>8, <1>12
  <2>3. w = [s EXCEPT !.anyOf = <<>>, !.allOf = <<x>>, !.nullable = TRUE]
    BY <1>5, <1>7, <1>12, <2>1 DEF Retyped, Becomes
  <2>4. /\ w.types = <<>> /\ w.oneOf = <<>> /\ w.anyOf = <<>> /\ w.allOf = <<x>> /\ w.nullable = TRUE
    BY <1>1, <2>2, <2>3 DEF Shapes
  <2>5. A[b] = {Null}
    BY <1>4, <2>1
  <2>6. Value(s, A) = OrNull(A[x])
    BY <1>1, <2>1, <2>2, <2>5, AnyOfMeans
  <2>7. Value(w, A) = OrNull(A[x])
    BY <2>4, NullableOf
  <2>. QED BY <1>2, <2>6, <2>7 DEF A, w
<1>. QED BY <1>9, <1>10, <1>11, <1>12

\* A document that is half rewritten is a heap without a cycle.
LEMMA HalfwayIsHeap ==
  ASSUME NEW h \in Documents, NEW d, d = [n \in Ids |-> d[n]], Halfway(h, d)
  PROVE  d \in Heaps /\ Grounded(d) /\ \A n \in Ids : Children(d[n]) \subseteq Children(h[n])
<1>1. ASSUME NEW n \in Ids PROVE d[n] \in Shapes /\ Children(d[n]) \subseteq Children(h[n])
  <2>1. CASE d[n] = h[n]
    BY <2>1, DocumentIsHeap DEF Heaps
  <2>2. CASE d[n] = Rewritten(h, n)
    BY <2>2, RewrittenFacts
  <2>. QED BY <2>1, <2>2 DEF Halfway
<1>2. d \in Heaps
  BY <1>1 DEF Heaps
<1>3. ASSUME NEW S \in SUBSET Ids, S # {} PROVE \E n \in S : Children(d[n]) \intersect S = {}
  <2>1. PICK n \in S : Children(h[n]) \intersect S = {}
    BY <1>3, DocumentIsHeap DEF Grounded
  <2>. QED BY <1>1, <2>1
<1>. QED BY <1>1, <1>2, <1>3 DEF Grounded

\* However far it is rewritten, a document of which each schema says one thing accepts
\* what it accepted.
LEMMA RewritingKeepsMeaning ==
  ASSUME NEW h \in Documents, NEW d, d = [n \in Ids |-> d[n]], Halfway(h, d), Plain(h)
  PROVE  Accepts(d)[Root] = Accepts(h)[Root]
<1>. DEFINE B == Below(h, Root)
<1>1. h \in Heaps /\ d \in Heaps /\ Grounded(h) /\ Grounded(d)
  BY DocumentIsHeap, HalfwayIsHeap
<1>2. B \subseteq Ids /\ Root \in B /\ Closed(h, B)
  BY <1>1, BelowClosed
<1>3. Closed(d, B)
  BY <1>2, HalfwayIsHeap DEF Closed
<1>4. ASSUME NEW n \in B PROVE Accepts(h)[n] = Value(d[n], Accepts(h))
  <2>1. CASE d[n] = h[n]
    BY <1>1, <1>2, <2>1, AcceptsSolves
  <2>2. CASE d[n] = Rewritten(h, n)
    BY <2>2, SameMeaning
  <2>. QED BY <1>2, <2>1, <2>2 DEF Halfway
<1>5. ASSUME NEW n \in B PROVE Accepts(d)[n] = Value(d[n], Accepts(d))
  BY <1>1, <1>2, AcceptsSolves
<1>6. Solves(d, Accepts(h), B) /\ Solves(d, Accepts(d), B)
  BY <1>4, <1>5 DEF Solves
<1>. HIDE DEF B
<1>. QED BY <1>1, <1>2, <1>3, <1>6, SolutionsAgree

----------------------------------------------------------------------------
(* The walk.                                                                 *)

\* The schemas that the walk has visited and not only called: rewritten, with their
\* children visited or still to visit.
Visited(V) ==
  \A n \in V : doc[n] = Rewritten(spec, n) /\ Children(doc[n]) \subseteq V \union todo

IInv ==
  /\ spec \in Documents
  /\ doc = [n \in Ids |-> doc[n]] /\ Halfway(spec, doc)
  /\ todo \subseteq Ids
  /\ pc \in {"walk", "write", "generate"} =>
       \E V \in SUBSET Ids : Root \in V \union todo /\ Visited(V)
  /\ pc \in {"write", "generate"} => todo = {}
  /\ pc = "generate" => file = doc
\* The invariant holds at the start ...
LEMMA InitIInv == Init => IInv
<1>. SUFFICES ASSUME Init PROVE IInv
  OBVIOUS
<1>1. spec \in Documents /\ doc = spec /\ pc = "read" /\ todo = {}
  BY DEF Init
<1>2. doc = [n \in Ids |-> doc[n]]
  BY <1>1, DocumentIsHeap
<1>. QED BY <1>1, <1>2 DEF IInv, Halfway

\* ... and when the contract is read.
LEMMA ReadIInv ==
  ASSUME IInv, Read
  PROVE  IInv'
<1>1. spec' = spec /\ spec \in Documents
  BY DEF IInv, Read
<1>2. CASE pc' = "walk" /\ doc' = spec /\ todo' = {Root}
  <2>1. doc' = [n \in Ids |-> doc'[n]]
    BY <1>1, <1>2, DocumentIsHeap
  <2>2. Halfway(spec', doc')
    BY <1>1, <1>2 DEF Halfway
  <2>3. todo' \subseteq Ids
    BY <1>2, DocumentsAssumption
  <2>4. Root \in {} \union todo' /\ Visited({})'
    BY <1>2 DEF Visited
  <2>5. \E V \in SUBSET Ids : (Root \in V \union todo /\ Visited(V))'
    BY <2>4
  <2>. QED BY <1>1, <1>2, <2>1, <2>2, <2>3, <2>5 DEF IInv
<1>3. CASE pc' = "failed" /\ UNCHANGED <<doc, todo>>
  BY <1>1, <1>3 DEF IInv
<1>. QED BY <1>2, <1>3 DEF Read

\* A visit rewrites the schema, whatever was visited before, and calls its children.
LEMMA NormalizeIInv ==
  ASSUME IInv, NEW n \in Ids, normalize(n)
  PROVE  IInv'
<1>. DEFINE w == Rewritten(spec, n)
<1>1. spec' = spec /\ spec \in Documents /\ pc = "walk" /\ pc' = "walk" /\ n \in todo
  BY DEF IInv, normalize
<1>2. doc = [m \in Ids |-> doc[m]] /\ Halfway(spec, doc) /\ todo \subseteq Ids
  BY DEF IInv
<1>3. Unioned(doc, Retyped(doc[n])) = w
  BY <1>1, <1>2, VisitSettles
<1>4. doc' = [doc EXCEPT ![n] = w] /\ todo' = (todo \ {n}) \union Children(w)
  BY <1>3 DEF normalize
<1>. HIDE DEF w
<1>5. doc' = [m \in Ids |-> doc'[m]] /\ doc'[n] = w /\ \A m \in Ids \ {n} : doc'[m] = doc[m]
  BY <1>2, <1>4
<1>6. Halfway(spec', doc')
  BY <1>1, <1>2, <1>5 DEF Halfway, w
<1>7. Children(w) \subseteq Ids
  <2>1. Children(w) \subseteq Children(spec[n])
    BY <1>1, RewrittenFacts DEF w
  <2>. QED BY <1>1, <2>1, ChildrenTyped, DocumentIsHeap
<1>8. PICK V \in SUBSET Ids : Root \in V \union todo /\ Visited(V)
  BY <1>1 DEF IInv
<1>. DEFINE U == V \union {n}
<1>9. V \union todo \subseteq U \union todo'
  BY <1>4
<1>10. ASSUME NEW m \in U PROVE doc'[m] = Rewritten(spec', m) /\ Children(doc'[m]) \subseteq U \union todo'
  <2>1. CASE m = n
    BY <1>1, <1>4, <1>5, <2>1 DEF w
  <2>2. CASE m # n
    <3>1. m \in V /\ m \in Ids /\ doc'[m] = doc[m]
      BY <1>5, <2>2
    <3>2. doc[m] = Rewritten(spec, m) /\ Children(doc[m]) \subseteq V \union todo
      BY <1>8, <3>1 DEF Visited
    <3>. QED BY <1>1, <1>9, <3>1, <3>2
  <2>. QED BY <2>1, <2>2
<1>11. U \in SUBSET Ids /\ (Root \in U \union todo /\ Visited(U))'
  BY <1>8, <1>9, <1>10 DEF Visited
<1>12. \E W \in SUBSET Ids : (Root \in W \union todo /\ Visited(W))'
  BY <1>11
<1>13. todo' \subseteq Ids
  BY <1>2, <1>4, <1>7
<1>. QED BY <1>1, <1>5, <1>6, <1>12, <1>13 DEF IInv

\* The other steps leave the copy as it is.
LEMMA WrittenIInv ==
  ASSUME IInv, Walked \/ Write
  PROVE  IInv'
<1>1. UNCHANGED <<spec, doc, todo>> /\ pc \in {"walk", "write"}
  BY DEF Walked, Write
<1>2. PICK V \in SUBSET Ids : Root \in V \union todo /\ Visited(V)
  BY <1>1 DEF IInv
<1>3. (Root \in V \union todo /\ Visited(V))'
  BY <1>1, <1>2 DEF Visited
<1>4. (\E W \in SUBSET Ids : Root \in W \union todo /\ Visited(W))'
  BY <1>3
<1>5. pc' \in {"write", "generate"} => todo' = {}
  BY DEF Walked, Write, IInv
<1>6. pc' = "generate" => file' = doc'
  BY DEF Walked, Write
<1>. QED BY <1>1, <1>4, <1>5, <1>6 DEF IInv

\* The inductive invariant: the copy is the contract with some schemas rewritten, and
\* from a visited schema everything below it has been visited or will be.
THEOREM Invariance == Spec => []IInv
<1>1. Init => IInv
  BY InitIInv
<1>2. IInv /\ [Next]_vars => IInv'
  <2>. SUFFICES ASSUME IInv, [Next]_vars PROVE IInv'
    OBVIOUS
  <2>1. CASE Read
    BY <2>1, ReadIInv
  <2>2. CASE Walked \/ Write
    BY <2>2, WrittenIInv
  <2>3. ASSUME NEW n \in Ids, normalize(n) PROVE IInv'
    BY <2>3, NormalizeIInv
  <2>4. CASE UNCHANGED vars
    BY <2>4 DEF vars, IInv, Visited
  <2>. QED BY <2>1, <2>2, <2>3, <2>4 DEF Next
<1>. QED BY <1>1, <1>2, PTL DEF Spec

\* The generator gets a contract that accepts what the one that was read accepts, in any
\* order of the walk: rewriting a schema that says one thing keeps what it accepts if its
\* children keep it, and the equation of what schemas accept has one solution.
THEOREM MeaningSurvives == Spec => []MeaningKept
<1>1. IInv => MeaningKept
  BY RewritingKeepsMeaning DEF IInv, MeaningKept
<1>. QED BY <1>1, Invariance, PTL

\* What is read of the file is the contract with every schema rewritten.
SameFile == pc = "generate" => \A n \in Below(file, Root) : file[n] = Rewritten(spec, n)

\* When the walk is over, the visited schemas are closed under children, so everything
\* below the root is visited.
LEMMA EverythingVisited == IInv => SameFile
<1>1. ASSUME IInv, pc = "generate", NEW n \in Below(file, Root) PROVE file[n] = Rewritten(spec, n)
  <2>1. /\ spec \in Documents /\ doc = [m \in Ids |-> doc[m]] /\ Halfway(spec, doc)
        /\ todo = {} /\ file = doc
    BY <1>1 DEF IInv
  <2>2. PICK V \in SUBSET Ids : Root \in V \union todo /\ Visited(V)
    BY <1>1 DEF IInv
  <2>3. Root \in V /\ Closed(doc, V)
    BY <2>1, <2>2 DEF Visited, Closed
  <2>4. n \in V
    BY <1>1, <2>1, <2>3, HalfwayIsHeap, BelowClosed
  <2>. QED BY <2>1, <2>2, <2>4 DEF Visited
<1>. QED BY <1>1 DEF SameFile

\* The file does not depend on the order of the walk, which Go's maps choose anew each
\* time: two runs of go generate on one contract give the generator the same schemas.
THEOREM FileIsReproducible == Spec => []SameFile
BY Invariance, EverythingVisited, PTL

\* The generator gets no nullable idiom of 3.1 at any depth: everything below the root has
\* been visited, and one visit settles a schema.
THEOREM NothingIsLeft == Spec => []NothingLeft
<1>1. ASSUME IInv, pc = "generate", NEW n \in Below(file, Root)
      PROVE  /\ nullableOtherType(file[n]) = {}
             /\ collapseNullableUnion(file, file[n].oneOf) = {}
             /\ collapseNullableUnion(file, file[n].anyOf) = {}
             /\ ~file[n].nullable => file[n] = spec[n]
  <2>. DEFINE w == Rewritten(spec, n)
  <2>1. spec \in Documents /\ Halfway(spec, doc) /\ file = doc
    BY <1>1 DEF IInv
  <2>2. n \in Ids /\ file[n] = w
    BY <1>1, EverythingVisited DEF SameFile, Below
  <2>3. /\ w \in Shapes /\ nullableOtherType(w) = {}
        /\ collapseNullableUnion(spec, w.oneOf) = {} /\ collapseNullableUnion(spec, w.anyOf) = {}
        /\ ~w.nullable => w = spec[n]
    BY <2>1, <2>2, RewrittenFacts
  <2>. HIDE DEF w
  <2>4. w.oneOf \in Seq(Ids) /\ w.anyOf \in Seq(Ids)
    BY <2>3 DEF Shapes
  <2>5. collapseNullableUnion(file, w.oneOf) = {} /\ collapseNullableUnion(file, w.anyOf) = {}
    BY <2>1, <2>3, <2>4, SameBare
  <2>. QED BY <2>2, <2>3, <2>5
<1>2. IInv => NothingLeft
  BY <1>1 DEF NothingLeft
<1>. QED BY <1>2, Invariance, PTL
=============================================================================
