\* Two tokens and three connections, with the fairness of the database and no
\* symmetry (liveness).
SPECIFICATION FairSpec
CONSTANTS
  Tokens = {t1, t2}
  Reqs = {r1, r2, r3}
  Account = account
  NoAdmin = NoAdmin
  NoToken = NoToken
  NoReq = NoReq
INVARIANTS OldAndNewNeverBothValid NoOrphans IInv
PROPERTIES NeverBothInvalid LogoutAllRevokesWhatItFound ImplementsLedger EveryTransactionEnds
