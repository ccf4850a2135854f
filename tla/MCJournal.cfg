CONSTANTS
  c1 = c1
  c2 = c2
  k1 = k1
  k2 = k2
  local = local
  outbound = outbound
  o1 = o1
  o2 = o2
  o3 = o3
  Caller = {c1, c2}
  Key = {k1, k2}
  Identity = {local, outbound}
  Outbound = {outbound}
  Operation = {o1, o2, o3}
  MaxCalls = 2
  None = None
SYMMETRY Alike
SPECIFICATION Spec
INVARIANTS ExecutedOnce HistoryReadable
PROPERTY ImplementsExecuteOnce
CHECK_DEADLOCK FALSE
