CONSTANTS
  Node = {1, 2}
  Capacity = 2
  MaxBatch = 3
  MaxSubscriptions = 2
SPECIFICATION FairChannelsSpec
INVARIANTS LatestReachable ReplayLossless
PROPERTY ReplayCompletes
