SPECIFICATION Spec
CONSTANTS
  Ops <- MCOps
  Route <- MCRoute
  Schemes <- MCSchemes
  Params <- MCParams
  Body <- MCBody
  Declared <- MCDeclared
  Longest = 2
INVARIANTS IInv LogTellsTheAnswer AnswerIsWhole GateHolds HandlerSeesWellFormed
