---------------------------- MODULE MCTokenTable ----------------------------
(* TLC instances of TokenTable.                                             *)
EXTENDS TokenTable, TLC

\* Tokens and connections are interchangeable: no action and no safety property
\* tells two of them apart.
Symmetry == Permutations(Tokens) \union Permutations(Reqs)
=============================================================================
