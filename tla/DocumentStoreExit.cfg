SPECIFICATION StoreSpec
CONSTANTS
  Docs = {d1, d2}
  Seed = d1
  NoDoc = NoDoc
  Callers = {c, b}
  Barriers = {b}
  SpawnMayFail = FALSE
  ExternalEdits = FALSE
  SyncMayFail = FALSE
  PromptWriter = TRUE
INVARIANT LatestWins
