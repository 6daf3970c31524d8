SPECIFICATION DeliverySpec
CONSTANTS
  Tasks = {a1, a2}
  Outcomes = {"Idle"}
  MaxLive = 2
  MaxUpdates = 0
SYMMETRY Interchangeable
INVARIANTS
  ResultIsSomewhere
  HostAnnounces
  LedgerCoversOwed
PROPERTY
  RetiredIsSilent
