\* Polling and the session file.
SPECIFICATION RSpec
CONSTANTS
  None = None
  Thread = Thread
  Threads = {Thread}
  refresh = refresh
  observer = observer
  listener = listener
  Loops = {refresh, observer}
  Clients = {}
  Happenings = {"running", "completed"}
  MaxTurns = 2
  MaxFacts = 4
  Turns <- MCTurns
  RequestOf <- MCRequestOf
  Requests <- MCRequests
  Observed <- Snapshots
  Gates = {"send"}
  MaxRetries = 0
  MaxSaves = 0
  MaxStops = 0
PROPERTIES OldTurnKeepsManual
CHECK_DEADLOCK FALSE
