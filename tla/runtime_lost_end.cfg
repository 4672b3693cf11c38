\* Polling shows the next turn before the observer has read the end of the watched one.
SPECIFICATION RFairSpec
CONSTANTS
  None = None
  Thread = Thread
  Threads = {Thread}
  refresh = refresh
  observer = observer
  listener = listener
  Loops = {refresh, observer}
  Clients = {}
  Happenings = {"running", "completed"}
  MaxTurns = 2
  MaxFacts = 3
  Turns <- MCTurns
  RequestOf <- MCRequestOf
  Requests <- MCRequests
  Observed <- Snapshots
  Gates = {"send"}
  MaxRetries = 0
  MaxSaves = 0
  MaxStops = 0
PROPERTIES WatchEndsWithTurn
CHECK_DEADLOCK FALSE
