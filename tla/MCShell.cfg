\* One Song, up to ten lines of chronology, of which three are its creation.
CONSTANTS
  make = make  manage = manage
  Song = {s1}
  Digest = {d1}
  Judgment = {j1}
  Mode <- Modes
  SongMode <- SongModes
  Key <- Keys
  Within <- Short
  None = None
SPECIFICATION Spec
INVARIANTS
  ReopensAsLeft
  StaysClosed
  BytesBeforeLineage
PROPERTIES
  ActsOnWhatWasShown
  StopSettles
\* The chronology is full.
CHECK_DEADLOCK FALSE
