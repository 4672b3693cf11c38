\* The refresh loop calls while children break down, answer late, tell and ask.
SPECIFICATION ClientFairSpec
CONSTANTS
  None = None
  refresh = refresh
  Callers = {refresh}
  Starter = refresh
  QueueSize = 1
  MaxSpawns = 2
  MaxIds = 3
  MaxNotes = 2
  MaxAsks = 1
  MaxLines = 1
INVARIANTS ClientTypeOK AnswersItsRequest WaitingIsServed NewestIsKept
PROPERTIES Reconnects
CHECK_DEADLOCK FALSE
