SPECIFICATION Spec
CONSTANTS
  Tokens = {t1, t2, t3}
  Reqs = {r1, r2}
  Account = account
  NoAdmin = NoAdmin
  NoToken = NoToken
  NoReq = NoReq
SYMMETRY Symmetry
PROPERTY LogoutAllEndsEverySession
