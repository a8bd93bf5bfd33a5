SPECIFICATION Spec
CONSTANTS
  a = a
  b = b
  Entries = {a, b}
  Bytes = {1, 2}
  Null = Null
  Opened = Opened
  Absent = Absent
  Eof = Eof
  Programs <- MCAll
  Disk <- MCAwaited
  NewContents <- MCNewContents
  EditorFiles = {a}
  DiskFiles = {b}
  Promised = {a}
  SystemOutputs = {}
  StreamMode = FALSE
  RerunEnabled = TRUE
  ResumeInBatch = FALSE
  IntMax = 9
  ReadSize = 2
  Align = 1
  MaxFences = 16
  MaxProcess = 4
  Spacing = 3
  MaxChanges = 3
INVARIANTS
  InputsCurrent
  DeferredAccounted
PROPERTY ConvergedIsStable
CHECK_DEADLOCK FALSE
