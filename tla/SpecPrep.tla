------------------------------ MODULE SpecPrep ------------------------------
(***************************************************************************)
(* specprep: the contract is read, its decoded copy is rewritten in place    *)
(* from the nullable idioms of OpenAPI 3.1 to those of 3.0, and written to   *)
(* the file the code generator reads next.  A document is a heap of schemas, *)
(* as the decoder leaves it; normalize ranges over Go maps, so it visits the *)
(* children of a schema in any order.                                        *)
(***************************************************************************)
EXTENDS Naturals, Sequences, SequencesExt

CONSTANTS
  Ids,        \* the schemas of a document
  Root,       \* the outermost one
  Documents   \* the contracts that may be read, each a heap: Ids -> Schema

Null == "null"
Types == {Null, "string", "integer"}

\* A schema: its type, one or a list of them (none: the keyword is absent), the
\* schemas under oneOf, anyOf and allOf (empty: absent), and the keyword of 3.0.
Schema(list, types, oneOf, anyOf, allOf) ==
  [list |-> list, types |-> types, oneOf |-> oneOf, anyOf |-> anyOf, allOf |-> allOf,
   nullable |-> FALSE]

Schemas ==
  [list : BOOLEAN, types : Seq(Types), oneOf : Seq(Ids), anyOf : Seq(Ids), allOf : Seq(Ids),
   nullable : {FALSE}]

Children(s) == ToSet(s.oneOf) \union ToSet(s.anyOf) \union ToSet(s.allOf)

\* A decoded document has no cycle: some schema of any set has no child in it.
Grounded(h) == \A S \in SUBSET Ids : S # {} => \E n \in S : Children(h[n]) \intersect S = {}

ASSUME DocumentsAssumption ==
  /\ Root \in Ids
  /\ \A d \in Documents : d \in [Ids -> Schemas] /\ Grounded(d)

VARIABLES
  pc,    \* "read", "walk", "write", "generate", "failed"
  spec,  \* the contract, as it was read
  doc,   \* the decoded copy
  todo,  \* the schemas normalize has been called with and has not rewritten yet
  file   \* openapi.normalized.yaml: a document, or <<>> when absent or torn

vars == <<pc, spec, doc, todo, file>>

\* isBareNullSchema: {type: "null"} and no other key.
isBareNullSchema(h, n) == h[n] = Schema(FALSE, <<Null>>, <<>>, <<>>, <<>>)

\* nullableOtherType: the type beside "null" in a union of two; else none.
nullableOtherType(s) ==
  IF s.list /\ Len(s.types) = 2 /\ Null \in ToSet(s.types)
    THEN ToSet(s.types) \ {Null}
    ELSE {}

\* collapseNullableUnion: the schema beside a bare null in a union of two; else none.
collapseNullableUnion(h, items) ==
  IF Len(items) = 2 /\ \E n \in ToSet(items) : isBareNullSchema(h, n)
    THEN {n \in ToSet(items) : ~isBareNullSchema(h, n)}
    ELSE {}

\* The type keyword ...
Retyped(s) ==
  IF nullableOtherType(s) = {} THEN s
  ELSE [s EXCEPT !.list = FALSE, !.types = SetToSeq(nullableOtherType(s)), !.nullable = TRUE]

\* Broken variant of Unioned: a longer union is taken for a nullable one.
UnionedAny(h, s) ==
  LET some(items) == IF \E n \in ToSet(items) : isBareNullSchema(h, n)
                       THEN {n \in ToSet(items) : ~isBareNullSchema(h, n)} ELSE {}
      first == IF some(s.oneOf) = {} THEN s
               ELSE [s EXCEPT !.oneOf = <<>>, !.allOf = SetToSeq(some(s.oneOf)), !.nullable = TRUE]
  IN  IF some(s.anyOf) = {} THEN first
      ELSE [first EXCEPT !.anyOf = <<>>, !.allOf = SetToSeq(some(s.anyOf)), !.nullable = TRUE]

\* ... and then oneOf and anyOf, in this order; what was under allOf is lost.
Unioned(h, s) ==
  LET one == collapseNullableUnion(h, s.oneOf)
      first == IF one = {} THEN s
               ELSE [s EXCEPT !.oneOf = <<>>, !.allOf = SetToSeq(one), !.nullable = TRUE]
      any == collapseNullableUnion(h, s.anyOf)
  IN  IF any = {} THEN first
      ELSE [first EXCEPT !.anyOf = <<>>, !.allOf = SetToSeq(any), !.nullable = TRUE]

----------------------------------------------------------------------------
\* The contract is read and parsed, or it is not.
Read ==
  /\ pc = "read"
  /\ \/ pc' = "walk" /\ doc' = spec /\ todo' = {Root}
     \/ pc' = "failed" /\ UNCHANGED <<doc, todo>>
  /\ UNCHANGED <<spec, file>>

\* Broken variant of normalize: what was under a union is not visited.
normalizeShallow(n) ==
  LET s == Unioned(doc, Retyped(doc[n])) IN
  /\ pc = "walk" /\ n \in todo
  /\ doc' = [doc EXCEPT ![n] = s]
  /\ todo' = (todo \ {n}) \union ToSet(doc[n].allOf)
  /\ UNCHANGED <<pc, spec, file>>

\* normalize: a schema is rewritten, and then its children are visited, those the
\* rewriting has put under allOf among them.
normalize(n) ==
  LET s == Unioned(doc, Retyped(doc[n])) IN
  /\ pc = "walk" /\ n \in todo
  /\ doc' = [doc EXCEPT ![n] = s]
  /\ todo' = (todo \ {n}) \union Children(s)
  /\ UNCHANGED <<pc, spec, file>>

Walked ==
  /\ pc = "walk" /\ todo = {}
  /\ pc' = "write"
  /\ UNCHANGED <<spec, doc, todo, file>>

\* The copy is written whole, or the file is torn and the next step of go generate
\* does not run.
Write ==
  /\ pc = "write"
  /\ \/ pc' = "generate" /\ file' = doc
     \/ pc' = "failed" /\ file' = <<>>
  /\ UNCHANGED <<spec, doc, todo>>

Init ==
  /\ spec \in Documents
  /\ doc = spec /\ pc = "read" /\ todo = {} /\ file = <<>>

Next == Read \/ Walked \/ Write \/ \E n \in Ids : normalize(n)

Spec == Init /\ [][Next]_vars

----------------------------------------------------------------------------
(* Properties.                                                              *)

\* A type keyword that rules v out.
Typed(s, v) == s.types = <<>> \/ v \in ToSet(s.types)

\* What a schema accepts of null, a string and an integer, if its children accept what
\* acc says: nullable, as the code generator reads it, lets null in.
Value(s, acc) ==
  {v \in Types :
     \/ v = Null /\ s.nullable
     \/ /\ Typed(s, v)
        /\ s.oneOf = <<>> \/ \E i \in DOMAIN s.oneOf : {j \in DOMAIN s.oneOf : v \in acc[s.oneOf[j]]} = {i}
        /\ s.anyOf = <<>> \/ \E m \in ToSet(s.anyOf) : v \in acc[m]
        /\ \A m \in ToSet(s.allOf) : v \in acc[m]}

Accepts(h) == LET acc[n \in Ids] == Value(h[n], acc) IN acc

\* The schemas that are reached from one.
Closed(h, S) == \A n \in S : Children(h[n]) \subseteq S

Below(h, n) ==
  LET closed == {S \in SUBSET Ids : n \in S /\ Closed(h, S)}
  IN  {m \in Ids : \A S \in closed : m \in S}

\* A schema says one thing: it has at most one of the four keywords, and a oneOf does
\* not have two branches that take null.
Plain(h) ==
  \A n \in Below(h, Root) :
    /\ \A k, l \in {"types", "oneOf", "anyOf", "allOf"} : h[n][k] # <<>> /\ h[n][l] # <<>> => k = l
    /\ \A i, j \in DOMAIN h[n].oneOf :
         Null \in Accepts(h)[h[n].oneOf[i]] /\ Null \in Accepts(h)[h[n].oneOf[j]] => i = j

\* What the generator gets accepts exactly what the contract accepts, whatever the
\* order of the walk, if no schema of the contract has a union and another keyword
\* (specprep's package comment: equivalents; a union next to allOf, or two nullable
\* unions in one schema, lose members).
MeaningKept ==
  pc = "generate" /\ Plain(spec) => Accepts(file)[Root] = Accepts(spec)[Root]

\* No idiom of 3.1 that specprep knows is left for the generator, at any depth, the
\* schemas a rewriting has moved included; and what it does not know is as it was.
NothingLeft ==
  pc = "generate" =>
    \A n \in Below(file, Root) :
      /\ nullableOtherType(file[n]) = {}
      /\ collapseNullableUnion(file, file[n].oneOf) = {}
      /\ collapseNullableUnion(file, file[n].anyOf) = {}
      /\ ~file[n].nullable => file[n] = spec[n]
=============================================================================
