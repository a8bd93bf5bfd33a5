SPECIFICATION Spec
CONSTANTS
  a = a
  b = b
  Entries = {a, b}
  Bytes = {1, 2}
  Null = Null
  Opened = Opened
  Absent = Absent
  Eof = Eof
  Programs <- MCStops
  Disk <- MCDisk
  NewContents <- MCNewContents
  EditorFiles = {a}
  DiskFiles = {}
  Promised = {}
  SystemOutputs = {}
  StreamMode = FALSE
  RerunEnabled = FALSE
  ResumeInBatch = FALSE
  IntMax = 9
  ReadSize = 2
  Align = 1
  MaxFences = 16
  MaxProcess = 4
  Spacing = 3
  MaxChanges = 2
INVARIANT ClosedWorkerSurvived
CHECK_DEADLOCK FALSE
