SPECIFICATION Spec
CONSTANTS
  Ids <- MCIds
  Root = 1
  Documents <- MCDocuments
INVARIANTS MeaningKept NothingLeft
CHECK_DEADLOCK FALSE
