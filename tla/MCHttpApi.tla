----------------------------- MODULE MCHttpApi -----------------------------
(* The whole contract, as the generated server reads it: every operation. *)
EXTENDS HttpApi

Routing == INSTANCE ContractRoutes
Binding == INSTANCE ContractBinding
Bodied == INSTANCE ContractBodies
Answered == INSTANCE ContractAnswers

MCRoute == Routing!Routes
MCOps == DOMAIN MCRoute
MCSchemes == [o \in MCOps |-> Binding!Bindings[o].schemes]
MCParams == [o \in MCOps |-> Binding!Bindings[o].path \union Binding!Bindings[o].query]
MCBody == Bodied!Bodies
MCDeclared == Answered!Answers
=============================================================================
