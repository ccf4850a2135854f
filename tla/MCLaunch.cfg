CONSTANTS
  past = past
  a = a
  b = b
  c = c
  Launch = {past, a, b}
  Past = {past}
  WorkflowOf <- Reused
  MaxCalls = 2
  MaxAttempts = 3
  NoFile = NoFile
  OrphanedMarkers = TRUE
SPECIFICATION FairShellSpec
INVARIANTS OneHeadquarters OpenUnderLease OnlyTheEndedAreStale OneFirstProfile
PROPERTIES NobodyLosesALiveLease EveryCallReturns
CHECK_DEADLOCK FALSE
