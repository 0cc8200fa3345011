CONSTANTS
  Rule = {1, 2}
  Port = {p1, p2, p3}
  Busy = {p3}
  NoPort = NoPort
  Gone = Gone
  None = None
  MaxAttempts = 3
  MaxChanges = 4
  MaxFaults = 1
  MaxDrops = 1
SPECIFICATION FairAgentSpec
CHECK_DEADLOCK FALSE
INVARIANTS RetriesAreLatest SettledOrRetrying DiskAgrees
PROPERTY Converges
