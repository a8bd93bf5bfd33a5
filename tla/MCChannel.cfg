SPECIFICATION Spec
CONSTANTS
  Workers = {w1, w2, w3}
  None = None
  BufSize = 2
  MaxProcess = 2
  MaxSent = 2
  MaxFlushes = 1
  PopForking = FALSE
INVARIANTS
  TypeOK
  BufferOfTop
  WorkersEndWell
  DescriptorsMatch
PROPERTIES
  OrphansEnd
CHECK_DEADLOCK FALSE
