CONSTANTS
  Node = {1, 2, 3}
  Tunnel = {1, 2}
  Rule = {1, 2}
  Chain <- MCChain
  Secure = {}
  Port = {1, 2}
  Shared = FALSE
  MaxAttempts = 2
  MaxDrops = 2
SPECIFICATION FairRouteSpec
CHECK_DEADLOCK FALSE
INVARIANTS  NoOrphans
 
