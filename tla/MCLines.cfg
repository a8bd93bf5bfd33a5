SPECIFICATION Spec
CONSTANTS
  Null = Null
  Documents <- MCDocuments
  Targets <- MCTargets
  MaxSnapshots = 1
  MaxChanges = 2
  MaxPasses = 1
INVARIANT LinesBare
CHECK_DEADLOCK FALSE
