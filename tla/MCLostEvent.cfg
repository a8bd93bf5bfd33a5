SPECIFICATION FairSpec
CONSTANTS
  NoEvent = NoEvent
  Editors <- MCOnDemand
  MaxPages = 2
  PipeSize = 1
  BufferedOps = 1
  MaxReruns = 1
PROPERTY InputRead
CHECK_DEADLOCK FALSE
