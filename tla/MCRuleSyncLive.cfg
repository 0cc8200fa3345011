CONSTANTS
  Node = {1}
  Rule = {1, 2}
  NodesOf <- MCNodesOf
  Handler = {h1, h2}
  Ops = {"create", "update", "delete", "sweep"}
  Serial = FALSE
  Capacity = 1
  MaxJobs = 2
  MaxSubscriptions = 2
SPECIFICATION FairSyncSpec
CHECK_DEADLOCK FALSE
PROPERTY JobsEnd
