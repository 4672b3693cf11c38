\* Polling shows a thread idle whose turn was interrupted.
SPECIFICATION RSpec
CONSTANTS
  None = None
  Thread = Thread
  Threads = {Thread}
  refresh = refresh
  observer = observer
  listener = listener
  Loops = {refresh, observer}
  Clients = {}
  Happenings = {"running", "interrupted"}
  MaxTurns = 1
  MaxFacts = 2
  Turns <- MCTurns
  RequestOf <- MCRequestOf
  Requests <- MCRequests
  Observed <- Snapshots
  Gates = {"send"}
  MaxRetries = 0
  MaxSaves = 0
  MaxStops = 0
INVARIANTS NotificationsAreTrue
CHECK_DEADLOCK FALSE
