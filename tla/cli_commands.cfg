\* Two terminals, crashes, a hung shutdown, pids used again, a foreign port.
SPECIFICATION LSpec
CONSTANTS
  None = None
  Pids = {p1, p2, p3}
  Commanders = {t1, t2}
  MaxCommands = 3
  MaxFaults = 1
INVARIANTS StrangersAreSafe FileNamesService
PROPERTIES StartReportIsTrue StopReportIsTrue
