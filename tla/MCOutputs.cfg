SPECIFICATION Spec
CONSTANTS
  Null = Null
  Documents <- MCDocuments
  Targets <- MCTargets
  MaxSnapshots = 1
  MaxChanges = 2
  MaxPasses = 1
INVARIANTS
  TypeOK
  DviExact
  RenderedRight
  SynctexExact
  SearchSound
  EditorExact
CHECK_DEADLOCK FALSE
