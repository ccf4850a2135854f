CONSTANTS
  past = past
  a = a
  b = b
  c = c
  Launch = {past, a, b, c}
  Past = {past}
  WorkflowOf <- Fresh
  MaxCalls = 1
  MaxAttempts = 2
  NoFile = NoFile
  OrphanedMarkers = TRUE
SYMMETRY Alike
SPECIFICATION SelectedSpec
INVARIANT OneHeadquarters
CHECK_DEADLOCK FALSE
