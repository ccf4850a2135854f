\* Two songs, one with a version, two projects, five rows.
CONSTANTS
  s1 = s1  s2 = s2  v1 = v1  r1 = r1  r2 = r2
  Workspace = {w1, w2}
  Song = {s1, s2}
  Version = {v1}
  SongOf <- SongOfVersion
  Location = {l1, l2}
  Runtime = {r1, r2}
  FamilyOf <- FamilyOfRuntime
  Route = {plugin}
  RouteKind = {k1, k2}
  Scalar = {a}
  Map <- TextKeyed
  Session = {p}
  MaxTime = 2
  Wider <- Beyond  Within <- Few
  None = None  Removed = Removed
SPECIFICATION Spec
SYMMETRY Alike
INVARIANTS
  HistoryReadable
PROPERTIES
  OvertakenForGood
  DecidedKnowingly
\* The tables are full.
CHECK_DEADLOCK FALSE
