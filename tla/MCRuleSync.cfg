CONSTANTS
  Node = {1, 2}
  Rule = {1, 2}
  NodesOf <- MCNodesOf
  Handler = {h1, h2}
  Ops = {"create", "update", "delete"}
  Serial = TRUE
  Capacity = 2
  MaxJobs = 3
  MaxSubscriptions = 2
SPECIFICATION SyncSpec
CHECK_DEADLOCK FALSE
SYMMETRY HandlerSymmetry
INVARIANTS Converged DispatchedMeansDeleted
