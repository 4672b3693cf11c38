\* Polling and the session file, with a crash: orphans, stale answers.
SPECIFICATION RSpec
CONSTANTS
  None = None
  Thread = Thread
  Threads = {Thread}
  refresh = refresh
  observer = observer
  listener = listener
  Loops = {refresh, observer}
  Clients = {}
  Happenings = {"running", "completed"}
  MaxTurns = 2
  MaxFacts = 3
  Turns <- MCTurns
  RequestOf <- MCRequestOf
  Requests <- MCRequests
  Observed <- Snapshots
  Gates = {"send"}
  MaxRetries = 0
  MaxSaves = 0
  MaxStops = 1
INVARIANTS RTypeOK NoInferredFailure FileHasLastWord
PROPERTIES OnlyRecordsRevive TurnsMoveForward ImplementsPipeline
CHECK_DEADLOCK FALSE
