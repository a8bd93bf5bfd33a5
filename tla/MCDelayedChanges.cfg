SPECIFICATION FairSpec
CONSTANTS
  NoEvent = NoEvent
  Editors <- MCEdits
  MaxPages = 2
  PipeSize = 1
  BufferedOps = 1
  MaxReruns = 1
PROPERTY ChangesApplied
CHECK_DEADLOCK FALSE
