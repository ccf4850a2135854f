CONSTANTS
  None = None
  Song = {s1, s2}
  Key <- Keys
  Idea = {i1}
  Operation = {o1}
  Skill = {k1}
  Digest = {d1}
  Judgment = {j1}
  Person = {p1, p2}
  Account = {x1}
  Policy <- Policies
  Whole <- Two
  Share <- Shares
  Meaning = {t1}
  Season = {c1, c2}
  Friction = {f1}
  Channel = {h1}
  Purpose = {u1}
  Limit <- One
  Selections <- Sections
  Use <- Uses
  Within <- Bounded
SPECIFICATION Spec
SYMMETRY Symmetry
INVARIANTS
  ReopensAsLeft
  RunsAsBound
  NothingNewerIsKnown
  CurrentViewsHold
  JudgedAsItStood
PROPERTIES
  DecidedStays
  ActedOnAsShown
  DeclaringNeverAdvances
CHECK_DEADLOCK FALSE
