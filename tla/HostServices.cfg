SPECIFICATION ServicesSpec
CONSTANTS
  Services = {"coordinator", "flight", "stream", "store"}
  Leases = {l1, l2, l3, l4}
  Workspaces = {w1, w2, w3}
  Conversations = {chat, none}
  NoLease = NoLease
  Nobody = Nobody
  Calls = {g1, g2, g3}
  MaxWrites = 2
  Runs = {r1, r2}
  MaxEvents = 3
  MaxReloads = 2
  MaxBuffered = 2
  MaxMerged = 2
  Docs = {d1, d2}
  Seed = d1
  NoDoc = NoDoc
  Callers = {c, b}
  Barriers = {b}
  SpawnMayFail = TRUE
  ExternalEdits = TRUE
  SyncMayFail = TRUE
  PromptWriter = FALSE
CHECK_DEADLOCK FALSE
INVARIANTS
  RefusedOnlyByHolders
  FreshAnswers
  NothingMissed
  ConcludedIsOver
PROPERTIES
  ImplementsLeaseTable
  EveryCallAnswered
  FollowedToTheEnd
  FlushEnds
