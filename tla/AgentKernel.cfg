SPECIFICATION HFairSpec
CONSTANTS
  Calls = {c1, c2}
  Agents = {a1, a2}
  MaxLiveAgents = 1
  TaskIdCount = 2
INVARIANTS
  IdleIsQuiescent
  ExecutionAuthorised
  NothingUnseenWhenIdle
PROPERTIES
  CancelSettles
  WakeFoldsHappen
