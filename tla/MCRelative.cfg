SPECIFICATION Spec
CONSTANTS
  Null = Null
  Dir <- MCDir
  Paths <- MCRelative
  Disk <- MCDisk
  Texts <- MCTexts
  Inserted <- MCInserted
  MaxLine = 1
  MaxColumn = 2
  BUFFERED_OPS = 2
  BUFFERED_CHARS = 12
  MaxCommands = 3
INVARIANT CopyExact
CHECK_DEADLOCK FALSE
