\* One operation and a plan of three steps, the second of which cannot be compensated;
\* two sessions with two transaction ids, any of them cut off anywhere.
CONSTANTS
  Operation = {o1}
  Txn       = {t1, t2}
  Session   = {s1, s2}
  NumSteps  = 3
  Compensatable <- OuterSteps
  None = None
SPECIFICATION FairSpec
INVARIANTS
  StepOnce
  NothingLeftBehind
  HistoryReadable
  RecordTrue
  ReverseOrder
PROPERTIES
  EveryRunEnds
\* Every operation may be settled: nothing is left to do.
CHECK_DEADLOCK FALSE
