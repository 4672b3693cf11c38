\* Broken streams, failed requests, a full queue and late answers.
SPECIFICATION BSpec
CONSTANTS
  None = None
  Other = Other
  Streams = {s1, s2}
  QueueSize = 3
  MaxOthers = 2
  MaxChanges = 3
  MaxFaults = 3
INVARIANTS OneConnection NewestIsQueued
PROPERTIES Converges
