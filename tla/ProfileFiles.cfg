\* A commit of a song and one of a note, two migrations, two preserved databases.
CONSTANTS
  Commits = {song, note}
  Songs = {song}
  MaxSchema = 3
  MaxKept = 2
  None = None
SPECIFICATION Spec
INVARIANTS
  NothingDestroyed
  VerdictTrue
PROPERTIES
  ImplementsAtomicDatabase
\* Everything may be done and at rest.
CHECK_DEADLOCK FALSE
