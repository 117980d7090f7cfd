----------------------------- MODULE MCCustomers -----------------------------
(* TLC instances of Customers.                                              *)
EXTENDS Customers, TLC

\* Profiles and request slots are interchangeable.  Users are not: NoPayload
\* picks one of them.
Symmetry == Permutations(Names) \union Permutations(Reqs)
=============================================================================
