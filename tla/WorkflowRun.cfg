SPECIFICATION WorkflowSpec
CONSTANTS
  Plans <- TwoStepPlans
  Scripts = {a, b}
  FirstEdited = 2
  LiveLimit = 2
  MaxAttempts = 3
  MaxCrashes = 1
  MaxFaults = 1
SYMMETRY Swaps
CHECK_DEADLOCK FALSE
INVARIANTS
  StaleReplayHasACause
  OwnTranscript
  CrashIsReported
