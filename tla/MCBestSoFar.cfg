SPECIFICATION Spec
CONSTANTS
  Null = Null
  Documents <- MCDocuments
  Targets <- MCTargets
  MaxSnapshots = 1
  MaxChanges = 2
  MaxPasses = 1
INVARIANT BestSoFar
CHECK_DEADLOCK FALSE
