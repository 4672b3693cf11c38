\* The pipeline and the client it sends through.
SPECIFICATION DFairSpec
CONSTANTS
  thread = thread
  turn1 = turn1
  approval = approval
  None = None
  Threads = {thread}
  Turns = {turn1}
  Requests = {}
  Loops = {observer}
  observer = observer
  Clients = {web}
  web = web
  Observed <- OneEnd
  Gates = {"send", "status_off", "unreadable"}
  MaxRetries = 1
  MaxSaves = 1
  MaxStops = 1
  Tries = 2
INVARIANTS DuplicatesAreUnheard RetriesWhatIsTransient DeliveredOnce OutcomeIsTrue
PROPERTIES PendingSettles
