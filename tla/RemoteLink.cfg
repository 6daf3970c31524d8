SPECIFICATION FairSpec
CONSTANTS
  Scopes <- MCScopes
  MaxConns = 3
  RingCap = 3
  HostCap = 4
  InRetain = 2
  Chunk = 3
  Burst = 2
INVARIANTS OneProcess InputInOrder
PROPERTIES ImplementsStream ExitReaches KillReaches
CHECK_DEADLOCK FALSE
