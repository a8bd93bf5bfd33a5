SPECIFICATION Spec
CONSTANTS
  a = a
  b = b
  Entries = {a, b}
  Bytes = {1, 2}
  Null = Null
  Opened = Opened
  Absent = Absent
  Eof = Eof
  Programs <- MCAux
  Disk <- MCDisk
  NewContents <- MCNewContents
  EditorFiles = {a}
  DiskFiles = {}
  Promised = {}
  SystemOutputs = {}
  StreamMode = FALSE
  RerunEnabled = TRUE
  ResumeInBatch = FALSE
  IntMax = 9
  ReadSize = 2
  Align = 1
  MaxFences = 16
  MaxProcess = 4
  Spacing = 3
  MaxChanges = 1
INVARIANT TraceNotOverrun
CHECK_DEADLOCK FALSE
