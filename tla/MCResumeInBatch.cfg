SPECIFICATION Spec
CONSTANTS
  a = a
  b = b
  Entries = {a, b}
  Bytes = {1, 2}
  Null = Null
  Opened = Opened
  Absent = Absent
  Eof = Eof
  Programs <- MCPrograms
  Disk <- MCDisk
  NewContents <- MCNewContents
  EditorFiles = {a, b}
  DiskFiles = {}
  Promised = {}
  SystemOutputs = {}
  StreamMode = FALSE
  RerunEnabled = FALSE
  ResumeInBatch = TRUE
  IntMax = 9
  ReadSize = 2
  Align = 1
  MaxFences = 16
  MaxProcess = 4
  Spacing = 3
  MaxChanges = 2
INVARIANT TraceNotOverrun
CHECK_DEADLOCK FALSE
