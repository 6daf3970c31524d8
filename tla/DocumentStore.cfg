SPECIFICATION ServicesSpec
CONSTANTS
  Services = {"store"}
  Docs = {d1, d2, d3}
  Seed = d1
  NoDoc = NoDoc
  Callers = {c, b}
  Barriers = {}
  SpawnMayFail = TRUE
  ExternalEdits = FALSE
  SyncMayFail = FALSE
  PromptWriter = FALSE
  Leases = {l1}
  Workspaces = {w1}
  Conversations = {chat}
  NoLease = NoLease
  Nobody = Nobody
  Calls = {g1}
  MaxWrites = 1
  Runs = {r1}
  MaxEvents = 1
  MaxReloads = 1
  MaxBuffered = 1
  MaxMerged = 1
INVARIANTS LatestWins NoCommitLost
PROPERTIES FlushIsBarrier WrittenUnlessSuperseded
