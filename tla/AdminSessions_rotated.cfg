\* Two refreshes of one token.
SPECIFICATION Spec
CONSTANTS
  Admins = {a1}
  Tokens = {t1, t2, t3}
  Reqs = {r1, r2}
  RefreshTTL = 2
  AccessTTL = 1
  MaxTime = 1
  NoRow = NoRow
  NoToken = NoToken
  NoAdmin = NoAdmin
  Null = Null
INVARIANTS
  RotatedOnce
