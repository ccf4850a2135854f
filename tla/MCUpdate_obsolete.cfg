\* One process, one prepared update and a commit of work after it.
CONSTANTS
  Process = {p1}
  Update = {u1, u2}
  MaxWork = 1
  MaxFailures = 0
  MaxSchema = 0
  None = None
SPECIFICATION RetrySpec
PROPERTIES
  AdviceCanBeFollowed
\* Every process may have ended.
CHECK_DEADLOCK FALSE
