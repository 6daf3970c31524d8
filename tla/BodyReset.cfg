SPECIFICATION BodySpec
CONSTANTS
  Ids = {i1}
  Threads = {t, u}
  Unfenced = {u}
  MaxCommits = 1
  MaxResets = 1
INVARIANT StoreIsTheFile
