--------------------------- MODULE SessionLedger ---------------------------
(***************************************************************************)
(* What admin_refresh_tokens promises to its users, without requests, SQL,  *)
(* clocks or accounts that change: a ledger of tokens that are unused, live *)
(* or spent.  A token opens a session of its own or renews the session of   *)
(* another token, and renewing takes two steps: a claim on a token that is  *)
(* live, later turned into a successor, by when the token may be spent.     *)
(* AdminSessions implements it (Ledger there).                              *)
(***************************************************************************)
EXTENDS Naturals

CONSTANTS
  Admins,     \* owners
  Tokens,     \* tokens
  Claimants,  \* who may hold a claim
  NoToken,    \* no claim
  NoAdmin     \* the owner of a token that is unused

VARIABLES
  state,    \* token -> "unused", "live" or "spent"
  owner,    \* token -> its account
  session,  \* token -> the first token of its session
  claim     \* claimant -> the token it is about to renew

lvars == <<state, owner, session, claim>>

Init ==
  /\ state = [t \in Tokens |-> "unused"]
  /\ owner = [t \in Tokens |-> NoAdmin]
  /\ session = [t \in Tokens |-> t]
  /\ claim = [c \in Claimants |-> NoToken]

\* A login.
Open(a, n) ==
  /\ state[n] = "unused"
  /\ state' = [state EXCEPT ![n] = "live"]
  /\ owner' = [owner EXCEPT ![n] = a]
  /\ UNCHANGED <<session, claim>>

\* A refresh finds its token live.
Claim(c, t) ==
  /\ state[t] = "live" /\ claim[c] = NoToken
  /\ claim' = [claim EXCEPT ![c] = t]
  /\ UNCHANGED <<state, owner, session>>

\* The refresh commits: the claimed token is spent, and its successor is live in
\* the same session, for the same account.
Renew(c, n) ==
  /\ claim[c] # NoToken /\ state[n] = "unused"
  /\ state' = [state EXCEPT ![claim[c]] = "spent", ![n] = "live"]
  /\ owner' = [owner EXCEPT ![n] = owner[claim[c]]]
  /\ session' = [session EXCEPT ![n] = session[claim[c]]]
  /\ claim' = [claim EXCEPT ![c] = NoToken]

\* The refresh ends without committing.
Drop(c) ==
  /\ claim[c] # NoToken
  /\ claim' = [claim EXCEPT ![c] = NoToken]
  /\ UNCHANGED <<state, owner, session>>

\* A logout, or the deletion of an account: live tokens of one account are spent.
End(a, T) ==
  /\ \A t \in T : state[t] = "live" /\ owner[t] = a
  /\ state' = [t \in Tokens |-> IF t \in T THEN "spent" ELSE state[t]]
  /\ UNCHANGED <<owner, session, claim>>

Next ==
  \/ \E a \in Admins, n \in Tokens : Open(a, n)
  \/ \E c \in Claimants, t \in Tokens : Claim(c, t) \/ Renew(c, t)
  \/ \E c \in Claimants : Drop(c)
  \/ \E a \in Admins, T \in SUBSET Tokens : End(a, T)

Spec == Init /\ [][Next]_lvars

----------------------------------------------------------------------------
\* A session never changes hands: its tokens all belong to the account that
\* logged in (service.go:147 passes the owner of the row that was read).
OneOwnerPerSession ==
  \A t \in Tokens : state[t] # "unused" => owner[t] = owner[session[t]]

=============================================================================
