SPECIFICATION Spec
CONSTANTS
  Workers = {w1, w2, w3, w4}
  None = None
  BufSize = 2
  MaxProcess = 2
  MaxSent = 2
  MaxFlushes = 1
  PopForking = TRUE
INVARIANTS
  DescriptorsMatch
CHECK_DEADLOCK FALSE
