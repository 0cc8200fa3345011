CONSTANTS
  Node = {1}
  Rule = {1}
  NodesOf <- MCNodesOf
  Handler = {h1, h2}
  Ops = {"create", "update"}
  Serial = FALSE
  Capacity = 2
  MaxJobs = 3
  MaxSubscriptions = 2
SPECIFICATION SyncSpec
CHECK_DEADLOCK FALSE
INVARIANT Converged
