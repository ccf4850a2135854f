\* One update, and a journal that cannot be written twice.
CONSTANTS
  Process = {p1, p2}
  Update = {u1}
  MaxWork = 1
  MaxFailures = 2
  MaxSchema = 2
  None = None
SPECIFICATION Spec
INVARIANTS
  RunningSeesWhole
\* Every process may have ended.
CHECK_DEADLOCK FALSE
