\* Two processes, two updates one after the other, one journal write that fails.
CONSTANTS
  Process = {p1, p2}
  Update = {u1, u2}
  MaxWork = 1
  MaxFailures = 1
  MaxSchema = 2
  None = None
SPECIFICATION Spec
SYMMETRY Alike
INVARIANTS
  WorkSafe
  OneUpdate
  NeverBlindly
  RunningSeesWhole
  JournalReadable
PROPERTIES
  SettledTruth
\* Every process may have ended.
CHECK_DEADLOCK FALSE
