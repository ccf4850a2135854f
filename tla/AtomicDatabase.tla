---------------------------- MODULE AtomicDatabase ----------------------------
(***************************************************************************)
(* What the file operations of n0te2/recovery.py and n0te2/migration.py     *)
(* are to look like from outside: the profile has one database, and opening *)
(* it shows the old state or the new one, whenever the process ends.  Only  *)
(* while a restore asked for by the artist is under way is nothing promised *)
(* about what opening would show.                                           *)
(***************************************************************************)
EXTENDS Naturals

CONSTANTS
  Commits,    \* commits of creative work
  MaxSchema,
  None

VARIABLES
  content,   \* what opening the database shows
  snapshot,  \* what opening the recovery snapshot shows
  restoring

vars == <<content, snapshot, restoring>>

Contents == [work : SUBSET Commits, schema : 1..MaxSchema]

Init ==
  /\ content = [work |-> {}, schema |-> 1]
  /\ snapshot = None
  /\ restoring = FALSE

Commit ==
  /\ \E c \in Commits \ content.work : content' = [content EXCEPT !.work = @ \cup {c}]
  /\ ~restoring /\ UNCHANGED <<snapshot, restoring>>

TakeSnapshot == snapshot' = content /\ UNCHANGED <<content, restoring>>

\* One schema forward, with all the work.
Migrate ==
  /\ content' = [content EXCEPT !.schema = @ + 1]
  /\ ~restoring /\ UNCHANGED <<snapshot, restoring>>

\* Back to the snapshot, which has all the work.
RollBack ==
  /\ snapshot # None /\ snapshot.work = content.work
  /\ content' = snapshot
  /\ ~restoring /\ UNCHANGED <<snapshot, restoring>>

BeginRestore == ~restoring /\ restoring' = TRUE /\ UNCHANGED <<content, snapshot>>

Restore == restoring /\ content' \in Contents /\ restoring' \in BOOLEAN /\ UNCHANGED snapshot

Next == Commit \/ TakeSnapshot \/ Migrate \/ RollBack \/ BeginRestore \/ Restore

Spec == Init /\ [][Next]_vars
=============================================================================
