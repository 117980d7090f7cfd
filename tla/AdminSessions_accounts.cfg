\* Two accounts with one token each, two requests in flight.
SPECIFICATION Spec
CONSTANTS
  Admins = {a1, a2}
  Tokens = {t1, t2}
  Reqs = {r1, r2}
  RefreshTTL = 2
  AccessTTL = 1
  MaxTime = 2
  NoRow = NoRow
  NoToken = NoToken
  NoAdmin = NoAdmin
  Null = Null
SYMMETRY Symmetry
INVARIANTS OneOwnerPerSession
PROPERTIES OnlyOwnerRevokes DeactivationTakesHold ImplementsLedger
