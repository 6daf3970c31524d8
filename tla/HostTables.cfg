SPECIFICATION TablesSpec
CONSTANTS
  Tasks = {a1, a2}
  Outcomes = {"Idle"}
  MaxLive = 2
  MaxUpdates = 1
  Cards = {k1, k2}
  Chats = {v1}
  MaxRisk = 2
  Capacity = 1
  Ids = {i1, i2}
  Threads = {t1, t2, u}
  Unfenced = {u}
  MaxCommits = 2
  MaxResets = 1
SYMMETRY Interchangeable
CHECK_DEADLOCK FALSE
INVARIANTS
  EnvelopesOnceInOrder
  WaitCollectsEverything
  AllowedByTheUser
  StopWins
  CachedIsCurrent
