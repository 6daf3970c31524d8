SPECIFICATION WakeSpec
CONSTANTS
  Tasks = {a1}
  Outcomes = {"Idle"}
  MaxLive = 1
  MaxUpdates = 0
INVARIANT
  NoStrandedResult
