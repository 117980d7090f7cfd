SPECIFICATION FairSpec
CONSTANTS
  Reqs = {r1, r2, r3}
  Conns = 2
CHECK_DEADLOCK FALSE
INVARIANTS IInv ExitZeroIsClean GraceIsKept NoTransactionIsCut
PROPERTY ServerStops
