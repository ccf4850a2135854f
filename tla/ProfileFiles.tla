----------------------------- MODULE ProfileFiles -----------------------------
(***************************************************************************)
(* n0te2/recovery.py, n0te2/migration.py and the migrator of n0te2/         *)
(* update_migration.py on the files of one profile: the live database with  *)
(* its write-ahead log, the one recovery snapshot, what is preserved when   *)
(* the database is replaced.  The process may end between any two calls.    *)
(*                                                                         *)
(* One process works on the profile at a time: runtimes and migrations hold *)
(* its lease (ApplicationRuntime), a restore leaves that to its caller.     *)
(* SQLite folds the log into the database when the last connection closes,  *)
(* and recovers it when the next one opens.                                 *)
(***************************************************************************)
EXTENDS Naturals, Sequences

CONSTANTS
  Commits,    \* commits of creative work
  Songs,      \* those a migration plan takes notice of (Artist/Song identity)
  MaxSchema,
  MaxKept,    \* bound: no call begins after this many preserved databases
  None

VARIABLES
  live,   \* lineage.sqlite3 and its -wal
  snap,   \* lineage.snapshot.sqlite3
  kept,   \* the lineage.pre-restore and lineage.pre-migration files
  lease,  \* a lease of the profile is on disk, its owner alive or not
  plan,   \* a MigrationPlan that may still be carried out
  bound,  \* the snapshot a PREPARED update is bound to
  call,   \* the runtime or the call that works on the profile
  made    \* history: the commits made

vars == <<live, snap, kept, lease, plan, bound, call, made>>

Contents == [work : SUBSET Commits, schema : 1..MaxSchema]
Logs     == [base : Contents, top : Contents]
Pairs    == [main : Contents, wal : Logs \cup {None}]

Plans    == [songs : SUBSET Songs, schema : 1..MaxSchema]
Jobs     == {"runtime", "migrate", "bound", "undo", "restore"}

ASSUME FilesAssumption ==
  /\ Songs \subseteq Commits
  /\ MaxSchema \in Nat \ {0} /\ MaxKept \in Nat
  /\ None \notin Contents \cup Logs \cup Plans \cup Jobs

\* What opening a database shows; a log belongs to the file it was written for.
Opened(pair) ==
  IF pair.wal = None THEN pair.main
  ELSE IF pair.wal.base = pair.main THEN pair.wal.top ELSE None

Kept         == kept[Len(kept)]
Checkpointed == [main |-> Opened(live), wal |-> None]

\* _require_prepared_state: what is compared with the plan.
PlanOf(c) == [songs |-> c.work \cap Songs, schema |-> c.schema]

Ends    == {"raise", "done", "rolledBack", "recovery"}
Places  == {"running", "copy", "install", "close", "closeFailed", "stage", "preserve", "wal",
            "shm", "replace", "reopen", "restore", "inspect", "held"} \cup Ends

\* next: the temporary file at hand; back: it is the snapshot; before: history,
\* what the database showed when a migration began.
Idle == [job |-> None, at |-> "idle", next |-> None, back |-> FALSE, before |-> None]

TypeOK ==
  /\ live \in Pairs
  /\ snap \in Contents \cup {None}
  /\ kept \in Seq(Pairs)
  /\ lease \in BOOLEAN
  /\ plan \in Plans \cup {None}
  /\ bound \in Contents \cup {None}
  /\ call \in [job : Jobs \cup {None}, at : Places \cup {"idle"}, next : Contents \cup {None},
              back : BOOLEAN, before : Contents \cup {None}]
  /\ made \subseteq Commits

Init ==
  /\ live = [main |-> [work |-> {}, schema |-> 1], wal |-> None]
  /\ snap = None /\ kept = <<>> /\ lease = FALSE
  /\ plan = None /\ bound = None /\ call = Idle /\ made = {}

At(place)   == call.at = place
Goto(place) == call' = [call EXCEPT !.at = place]
Begin(job, place, next, back) ==
  call' = [job |-> job, at |-> place, next |-> next, back |-> back, before |-> Opened(live)]

Others == <<lease, plan, bound, made>>

-----------------------------------------------------------------------------
(* The runtime *)

Launch ==
  /\ At("idle")
  /\ lease' = TRUE
  /\ Begin("runtime", "running", None, FALSE)
  /\ UNCHANGED <<live, snap, kept, plan, bound, made>>

Commit(c) ==
  /\ At("running") /\ c \notin made
  /\ made' = made \cup {c}
  /\ live' = [live EXCEPT !.wal = [base |-> live.main,
                                   top |-> [Opened(live) EXCEPT !.work = @ \cup {c}]]]
  /\ UNCHANGED <<snap, kept, lease, plan, bound, call>>

Checkpoint ==
  /\ At("running") /\ live.wal # None
  /\ live' = Checkpointed
  /\ UNCHANGED <<snap, kept, Others, call>>

CallSnapshot == At("running") /\ Goto("copy") /\ UNCHANGED <<live, snap, kept, Others>>

\* The update coordinator prepares when the snapshot it took still is what the
\* database shows after the runtime has quit.
Quit ==
  /\ At("running")
  /\ live' = Checkpointed
  /\ lease' = FALSE /\ call' = Idle
  /\ bound' \in {bound} \cup (IF bound = None /\ snap = Opened(live) THEN {snap} ELSE {})
  /\ UNCHANGED <<snap, kept, plan, made>>

-----------------------------------------------------------------------------
(* create_snapshot, within a runtime or within _create_execution_snapshot *)

WriteCopy ==
  /\ At("copy")
  /\ call' = [call EXCEPT !.at = "install", !.next = Opened(live)]
  /\ UNCHANGED <<live, snap, kept, Others>>

Snapshotted(ok) ==
  Goto(IF call.job = "runtime" THEN "running" ELSE IF ok THEN "close" ELSE "closeFailed")

InstallCopy ==
  /\ At("install")
  /\ snap' = call.next
  /\ Snapshotted(TRUE)
  /\ UNCHANGED <<live, kept, Others>>

CopyFails ==
  /\ At("copy") \/ At("install")
  /\ Snapshotted(FALSE)
  /\ UNCHANGED <<live, snap, kept, Others>>

\* A bug: the rollback snapshot is taken through a read-only connection, which
\* leaves the log of a process that died as it is.
CloseReadOnly ==
  /\ At("close") \/ At("closeFailed")
  /\ Goto(IF At("close") THEN "stage" ELSE "raise")
  /\ UNCHANGED <<live, snap, kept, Others>>

\* `finally: store.close()': the store was opened for writing.
CloseStore ==
  /\ At("close") \/ At("closeFailed")
  /\ live' = Checkpointed
  /\ Goto(IF At("close") THEN "stage" ELSE "raise")
  /\ UNCHANGED <<snap, kept, Others>>

-----------------------------------------------------------------------------
(* Migrations *)

\* prepare: any lease on disk, a dead one too, stands in its way.
PlanMigration ==
  /\ At("idle") /\ ~lease
  /\ Opened(live).schema < MaxSchema
  /\ plan' = PlanOf(Opened(live))
  /\ UNCHANGED <<live, snap, kept, lease, bound, call, made>>

CallMigrate ==
  /\ At("idle") /\ Len(kept) < MaxKept
  /\ plan # None /\ PlanOf(Opened(live)) = plan
  /\ lease' = TRUE
  /\ Begin("migrate", "copy", None, FALSE)
  /\ UNCHANGED <<live, snap, kept, plan, bound, made>>

\* apply has verified both under its hold (UpdateCoordinator!Verify); the
\* snapshot of the update serves as the rollback snapshot.
Apply ==
  /\ At("idle") /\ Len(kept) < MaxKept
  /\ bound # None /\ {snap, Opened(live)} = {bound} /\ bound.schema < MaxSchema
  /\ lease' = TRUE /\ bound' = None
  /\ Begin("bound", "stage", None, FALSE)
  /\ UNCHANGED <<live, snap, kept, plan, made>>

\* The steps run in a copy, which is validated; anything wrong is raised.
Stage ==
  /\ At("stage")
  /\ \/ call' = [call EXCEPT !.at = "preserve", !.next = [Opened(live) EXCEPT !.schema = @ + 1]]
     \/ Goto("raise")
  /\ UNCHANGED <<live, snap, kept, Others>>

\* A bug: what goes wrong in the reopening is raised like what goes wrong before
\* the installation.
ReopenOrRaise ==
  /\ At("reopen")
  /\ Goto("done") \/ Goto("raise")
  /\ UNCHANGED <<live, snap, kept, Others>>

\* Headquarters opens, is as expected, and closes; or else
\* _restore_after_install_failure, maybe with a log that was not folded.
Reopen ==
  /\ At("reopen")
  /\ \/ Goto("done") /\ UNCHANGED live
     \/ /\ Goto("restore")
        /\ live' = live \/ live' = [live EXCEPT !.wal = [base |-> live.main, top |-> live.main]]
  /\ UNCHANGED <<snap, kept, Others>>

RestoreFromSnapshot ==
  /\ At("restore")
  /\ \/ snap # None /\ call' = [call EXCEPT !.at = "preserve", !.next = snap, !.back = TRUE]
     \/ Goto("recovery")
  /\ UNCHANGED <<live, snap, kept, Others>>

-----------------------------------------------------------------------------
(* The installation of a file, the same in restore_snapshot and _migrate_owned *)

\* Where an exception of the installation goes.
Failed == IF call.back /\ call.job # "restore" THEN "recovery" ELSE "raise"

InstallFails ==
  /\ At("preserve") \/ At("wal") \/ At("shm")
  /\ Goto(Failed)
  /\ UNCHANGED <<live, snap, kept, Others>>

\* The path of a plan's preserved database exists from here on: not again.
Preserve ==
  /\ At("preserve")
  /\ kept' = Append(kept, [main |-> live.main, wal |-> None])
  /\ plan' = IF call.job = "migrate" THEN None ELSE plan
  /\ Goto("wal")
  /\ UNCHANGED <<live, snap, lease, bound, made>>

\* A bug: the sidecar files are removed instead of preserved.
DropWal ==
  /\ At("wal")
  /\ live' = [live EXCEPT !.wal = None]
  /\ Goto("shm")
  /\ UNCHANGED <<snap, kept, Others>>

MoveWal ==
  /\ At("wal")
  /\ kept' = [kept EXCEPT ![Len(kept)].wal = live.wal]
  /\ live' = [live EXCEPT !.wal = None]
  /\ Goto("shm")
  /\ UNCHANGED <<snap, Others>>

\* The shared-memory file carries nothing; that it is moved may fail.
MoveShm == At("shm") /\ Goto("replace") /\ UNCHANGED <<live, snap, kept, Others>>

Replace ==
  /\ At("replace")
  /\ live' = [live EXCEPT !.main = call.next]
  /\ Goto(IF call.back THEN "inspect" ELSE "reopen")
  /\ UNCHANGED <<snap, kept, Others>>

\* os.replace failed: the sidecar files go back, unless that fails as well.
ReplaceFails ==
  /\ At("replace")
  /\ \/ /\ live' = [live EXCEPT !.wal = Kept.wal]
        /\ kept' = [kept EXCEPT ![Len(kept)].wal = None]
     \/ UNCHANGED <<live, kept>>
  /\ Goto(Failed)
  /\ UNCHANGED <<snap, Others>>

InspectInstalled ==
  /\ At("inspect")
  /\ Goto(IF call.job = "restore" THEN "done" ELSE "rolledBack") \/ Goto(Failed)
  /\ UNCHANGED <<live, snap, kept, Others>>

-----------------------------------------------------------------------------
(* How calls begin and end *)

\* RecoveryManager.restore_snapshot, called by the artist's hand.
CallRestore ==
  /\ At("idle") /\ Len(kept) < MaxKept
  /\ snap # None
  /\ Begin("restore", "preserve", snap, TRUE)
  /\ UNCHANGED <<live, snap, kept, Others>>

\* A migration gives its lease back, or fails to.
Return ==
  /\ call.at \in Ends /\ call.job \in {"migrate", "restore"}
  /\ lease' \in {lease} \cup (IF call.job = "migrate" THEN {FALSE} ELSE {})
  /\ call' = Idle
  /\ UNCHANGED <<live, snap, kept, plan, bound, made>>

\* apply goes on from a migration: it settles, compensates, or keeps its hold.
Compensate ==
  /\ call.job = "bound" /\ call.at \in Ends \ {"recovery"}
  /\ snap # None
  /\ call' = [call EXCEPT !.job = "undo", !.at = "preserve", !.next = snap, !.back = TRUE]
  /\ UNCHANGED <<live, snap, kept, Others>>

Settle ==
  /\ \/ call.job = "bound" /\ At("done")
     \/ call.job = "undo" /\ At("rolledBack")
  /\ lease' = FALSE /\ call' = Idle
  /\ UNCHANGED <<live, snap, kept, plan, bound, made>>

KeepHold ==
  /\ call.job \in {"bound", "undo"} /\ call.at \in Ends
  /\ Goto("held")
  /\ UNCHANGED <<live, snap, kept, Others>>

\* The process ends; the plan of a migration under way goes with it, while the
\* files stay as they are.
End ==
  /\ ~At("idle")
  /\ call' = Idle
  /\ plan' = IF call.job = "migrate" THEN None ELSE plan
  /\ UNCHANGED <<live, snap, kept, lease, bound, made>>

Next ==
  \/ Launch \/ Checkpoint \/ CallSnapshot \/ Quit \/ \E c \in Commits : Commit(c)
  \/ WriteCopy \/ InstallCopy \/ CopyFails \/ CloseStore
  \/ PlanMigration \/ CallMigrate \/ Apply \/ Stage \/ Reopen \/ RestoreFromSnapshot
  \/ InstallFails \/ Preserve \/ MoveWal \/ MoveShm \/ Replace \/ ReplaceFails \/ InspectInstalled
  \/ CallRestore \/ Return \/ Compensate \/ Settle \/ KeepHold \/ End

Spec == Init /\ [][Next]_vars

-----------------------------------------------------------------------------
(* Properties *)

\* From outside, the database is replaced in one step: wherever a migration or
\* its rollback is cut off, opening the profile shows all the work, in the old
\* schema or in the new one, and the snapshot is a whole state of the database.
\* It rests on the log being empty when _migrate_owned and the compensation of
\* an update move it aside; only a restore by hand finds one with work in it.
Abstract == INSTANCE AtomicDatabase WITH content <- Opened(live), snapshot <- snap,
                                         restoring <- call.job = "restore"
ImplementsAtomicDatabase == Abstract!Spec

\* Every commit ever made can be opened somewhere: in the live database, or in a
\* preserved database with the log preserved beside it, also when a restore is
\* cut off or fails between its moves.
NothingDestroyed ==
  \A c \in made :
    \/ c \in Opened(live).work
    \/ \E i \in 1..Len(kept) : Opened(kept[i]) # None /\ c \in Opened(kept[i]).work

\* What a migration or a restore says is so: an exception of _migrate_owned
\* means that nothing was installed, SUCCEEDED the target schema with all the
\* work, ROLLED_BACK and a restore that returned the exact snapshot.
VerdictTrue ==
  /\ call.job \in {"migrate", "bound"} =>
       /\ At("raise") => Opened(live) = call.before
       /\ At("done") => Opened(live) = [call.before EXCEPT !.schema = @ + 1]
  /\ At("rolledBack") => Opened(live) = call.before /\ snap = call.before
  /\ call.job = "restore" /\ At("done") => Opened(live) = snap
-----------------------------------------------------------------------------
(* Why they hold: an inductive invariant *)

\* A log is the live file's own, and adds to it, if anything, commits.
LogOf(pair) ==
  pair.wal # None =>
    /\ pair.wal.base = pair.main
    /\ pair.wal.top.schema = pair.main.schema
    /\ pair.main.work \subseteq pair.wal.top.work

LogInv == LogOf(live)

Folded(pair) == pair.wal # None => pair.wal.top = pair.main

MadeInv ==
  /\ Opened(live).work \subseteq made
  /\ snap # None => snap.work \subseteq made

PlanInv ==
  /\ plan # None => plan.schema < MaxSchema
  /\ call.job = "migrate" /\ call.at \in {"copy", "install", "close", "stage"} =>
       Opened(live).schema < MaxSchema
  /\ call.job = "bound" /\ At("stage") => Opened(live).schema < MaxSchema

\* Neither the live file nor the snapshot falls behind what an update is bound
\* to; so work in the log is work the update does not know, and is not applied over.
BoundInv ==
  bound # None => /\ bound.work \subseteq live.main.work
                  /\ snap # None /\ bound.work \subseteq snap.work

Migration  == call.job \in {"migrate", "bound", "undo"}
Installing == {"preserve", "wal", "shm", "replace"}
Copying    == {"copy", "install", "close", "closeFailed"}

\* Which calls are where.
PlaceInv ==
  /\ At("idle") <=> call.job = None
  /\ At("running") => call.job = "runtime"
  /\ call.job = "runtime" => ~call.back
  /\ call.at \in Copying => call.job \in {"runtime", "migrate"} /\ ~call.back
  /\ call.at \in {"close", "closeFailed"} => call.job = "migrate"
  /\ call.at \in {"stage", "reopen", "restore"} => call.job \in {"migrate", "bound"} /\ ~call.back
  /\ call.at \in Installing => call.job # "runtime"
  /\ call.job \in {"restore", "undo"} => call.back
  /\ call.at \in {"inspect", "rolledBack"} => call.back
  /\ At("inspect") => call.job # "runtime"
  /\ At("rolledBack") => Migration
  /\ call.at \in {"raise", "done"} /\ call.back => call.job = "restore"
  /\ call.at \in Ends => call.job # "runtime"

\* Where a migration has come to, and that the snapshot has all its work.
MigrationInv ==
  Migration =>
    /\ call.before # None /\ Opened(live).work = call.before.work
    /\ call.at \notin Copying => Folded(live)
    /\ \/ call.job \in {"bound", "undo"}
       \/ call.at \in {"close", "stage", "reopen", "restore", "inspect", "rolledBack"} \cup Installing
       => snap = call.before
    /\ \/ call.at \in Copying \cup {"stage", "raise", "inspect", "rolledBack"}
       \/ call.at \in Installing /\ ~call.back
       => Opened(live) = call.before
    /\ call.at \in Installing /\ ~call.back =>
         call.next = [call.before EXCEPT !.schema = @ + 1]
    /\ call.at \in {"reopen", "done"} => Opened(live) = [call.before EXCEPT !.schema = @ + 1]

\* Where an installation has come to: the preserved pair is the live one.
InstallInv ==
  /\ At("install") => call.next = Opened(live)
  /\ call.at \in Installing =>
       call.next \in Contents /\ (call.back => snap # None /\ call.next = snap)
  /\ call.at \in {"wal", "shm", "replace"} => kept # <<>> /\ Kept.main = live.main
  /\ At("wal") => Kept.wal = None
  /\ call.at \in {"shm", "replace"} =>
       /\ live.wal = None
       /\ LogOf(Kept)
       /\ Opened(Kept).work \subseteq made
       /\ Migration => Folded(Kept)
  /\ At("inspect") => Opened(live) = snap

\* All of it together: no step of any call leads out of it (ProfileFilesProofs).
IInv == /\ TypeOK /\ LogInv /\ MadeInv /\ PlanInv /\ BoundInv /\ PlaceInv
        /\ MigrationInv /\ InstallInv /\ NothingDestroyed /\ VerdictTrue
=============================================================================
