\* One account, a session of up to three tokens, two requests in flight.
SPECIFICATION Spec
CONSTANTS
  Admins = {a1}
  Tokens = {t1, t2, t3}
  Reqs = {r1, r2}
  RefreshTTL = 1
  AccessTTL = 1
  MaxTime = 1
  NoRow = NoRow
  NoToken = NoToken
  NoAdmin = NoAdmin
  Null = Null
SYMMETRY Symmetry
INVARIANTS
  TypeOK
  OldAndNewNeverBothValid
  SerialSessionHasOneToken
  DeliveredTokenIsStored
  IInv
PROPERTIES
  RevocationIsFinal
  DeadSessionStaysDead
