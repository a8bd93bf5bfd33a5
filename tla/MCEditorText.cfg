SPECIFICATION Spec
CONSTANTS
  Null = Null
  Dir <- MCDir
  Paths <- MCInside
  Disk <- MCDisk
  Texts <- MCTexts
  Inserted <- MCInserted
  MaxLine = 1
  MaxColumn = 2
  BUFFERED_OPS = 2
  BUFFERED_CHARS = 12
  MaxCommands = 3
INVARIANTS TypeOK CopyExact ReadCurrent
CHECK_DEADLOCK FALSE
