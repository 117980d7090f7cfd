----------------------------- MODULE MCSpecPrep -----------------------------
(* Documents of one schema with a type, a oneOf, an anyOf and an allOf, or any part *)
(* of them; an element of the first union may be a union itself, of three.          *)
EXTENDS SpecPrep

Leaf(list, types) == Schema(list, types, <<>>, <<>>, <<>>)
Bare == Leaf(FALSE, <<Null>>)
Text == Leaf(FALSE, <<"string">>)
Leaves == {Bare, Text, Leaf(TRUE, <<Null, "string">>), Leaf(TRUE, <<"integer", Null>>),
           Leaf(TRUE, <<"string", "integer", Null>>)}
Inner == Leaves \union {Schema(FALSE, <<>>, <<6, 7>>, <<>>, <<>>),
                        Schema(FALSE, <<>>, <<>>, <<6, 7, 9>>, <<>>)}
Outer == {Schema(TRUE, t, o, a, e) :
            t \in {<<>>, <<"string", Null>>}, o \in {<<>>, <<2, 3>>, <<2>>},
            a \in {<<>>, <<4, 8>>}, e \in {<<>>, <<5>>}}

MCIds == 1 .. 9
MCDocuments ==
  {<<outer, a, b, c, Text, d, Bare, e, Leaf(FALSE, <<"integer">>)>> :
     outer \in Outer, a \in Inner, b \in Leaves, c \in {Text, Leaf(TRUE, <<Null, "string">>)},
     d \in Leaves, e \in {Bare, Text}}
=============================================================================
