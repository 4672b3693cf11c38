\* App Server notifications and the session file, with a crash: late and lost notifications.
SPECIFICATION RSpec
CONSTANTS
  None = None
  Thread = Thread
  Threads = {Thread}
  refresh = refresh
  observer = observer
  listener = listener
  Loops = {listener, observer}
  Clients = {}
  Happenings = {"running", "waiting_approval", "completed"}
  MaxTurns = 2
  MaxFacts = 3
  Turns <- MCTurns
  RequestOf <- MCRequestOf
  Requests <- MCRequests
  Observed <- Snapshots
  Gates = {"send"}
  MaxRetries = 0
  MaxSaves = 0
  MaxStops = 1
INVARIANTS ManualAgrees
PROPERTIES EndedTurnStaysEnded
CHECK_DEADLOCK FALSE
