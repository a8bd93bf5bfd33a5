SPECIFICATION FairSpec
CONSTANTS
  NoEvent = NoEvent
  Editors <- MCEditors
  MaxPages = 2
  PipeSize = 1
  BufferedOps = 1
  MaxReruns = 1
INVARIANTS
  TypeOK
  ScheduledPendingUnlessRerun
  InOrder
PROPERTIES
  InputReadUnlessRerun
  PageShownUnlessRerun
CHECK_DEADLOCK FALSE
