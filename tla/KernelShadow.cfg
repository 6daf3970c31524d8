SPECIFICATION ShadowSpec
CONSTANTS
  Calls = {c1}
  Agents = {a1, a2}
  MaxLiveAgents = 1
  TaskIdCount = 2
  CallIds = {k1, k2}
  Names = {n1, n2}
SYMMETRY Interchangeable
INVARIANTS
  NoFalseAlarm
  BackInStep
  SlotsMirrored
