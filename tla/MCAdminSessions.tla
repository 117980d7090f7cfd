-------------------------- MODULE MCAdminSessions --------------------------
(* TLC instances of AdminSessions.                                          *)
EXTENDS AdminSessions, TLC

\* Accounts, tokens and request slots are interchangeable: no action and no
\* safety property tells two of them apart.
Symmetry == Permutations(Admins) \union Permutations(Tokens) \union Permutations(Reqs)
=============================================================================
