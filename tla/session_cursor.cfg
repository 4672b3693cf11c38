\* A file with a replayed ancestor grows, is replaced and cannot always be read.
SPECIFICATION ObserverFairSpec
CONSTANTS
  None = None
  child = child
  parent = parent
  Threads = {child, parent}
  Child = child
  Types = {"task_started", "task_complete", "request_user_input"}
  HeadSize = 3
  TailSize = 4
  ScanSize = 6
  MaxIncrement = 3
  MaxRecords = 4
  MaxFiles = 2
INVARIANTS ObserverTypeOK ReadsOn NothingMissed SearchAgrees BaselineIsLatest
PROPERTIES CatchesUp
CHECK_DEADLOCK FALSE
