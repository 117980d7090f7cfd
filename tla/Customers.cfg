SPECIFICATION Spec
CONSTANTS
  Users = {u1, u2}
  Names = {n1, n2}
  Empty = Empty
  Null = Null
  NoRow = NoRow
  Reqs = {r1, r2}
  MaxAge = 1
  Skew = 0
  Drift = 1
  MaxTime = 3
  MaxSigned = 2
SYMMETRY Symmetry
INVARIANTS IInv StoredWasSigned AnswerIsOwnProfile
PROPERTIES RowIsStable PastProfileStaysPast
