SPECIFICATION FairSpec
CONSTANTS
  a = a
  b = b
  Entries = {a, b}
  Bytes = {1, 2}
  Null = Null
  Opened = Opened
  Absent = Absent
  Eof = Eof
  Programs <- MCEditing
  Disk <- MCDisk
  NewContents <- MCNewContents
  EditorFiles = {a, b}
  DiskFiles = {}
  Promised = {}
  SystemOutputs = {}
  StreamMode = FALSE
  RerunEnabled = FALSE
  ResumeInBatch = FALSE
  IntMax = 9
  ReadSize = 3
  Align = 1
  MaxFences = 16
  MaxProcess = 4
  Spacing = 3
  MaxChanges = 2
INVARIANTS
  TypeOK
  ViewsCurrent
  BuffersCurrent
  TraceExact
  TraceNotOverrun
  FencesRespected
  Resumable
PROPERTIES
  OnlyStaleDropped
  EventuallyTypeset
CHECK_DEADLOCK FALSE
