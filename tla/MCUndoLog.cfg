SPECIFICATION Spec
CONSTANTS
  Entries = {e1, e2}
  Cells = {c1}
  Buffers = {b1, b2}
  Bytes = {x}
  NoBuffer = NoBuffer
  NoEntry = NoEntry
  MaxLog = 3
  MaxMarks = 3
  MaxLen = 2
  MaxRefs = 3
INVARIANTS
  LogInvariant
  ReferencesCovered
  NoAbort
PROPERTY ImplementsSnapshots
CHECK_DEADLOCK FALSE
SYMMETRY Symmetry
