\* Two loops, two requests, a crash: notifications, retries, tests and changes of
\* the configuration around one lock.
SPECIFICATION Spec
CONSTANTS
  thread = thread
  turn1 = turn1
  approval = approval
  None = None
  Threads = {thread}
  Turns = {turn1}
  Requests = {approval}
  Loops = {refresh, observer}
  refresh = refresh
  observer = observer
  Clients = {web, web2}
  web2 = web2
  web = web
  Observed <- OneTurn
  Gates = {"send", "all_off", "status_off", "unreadable"}
  MaxRetries = 1
  MaxSaves = 2
  MaxStops = 1
INVARIANTS TypeOK SentAtMostOncePerRequest PendingHasOneOwner NoSendOnClosedMessenger LastSavedWins
PROPERTIES SentIsFinal KeepsPromise
SYMMETRY Symmetry
