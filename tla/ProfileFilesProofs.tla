-------------------------- MODULE ProfileFilesProofs --------------------------
(***************************************************************************)
(* Theorems about ProfileFiles, for every set of commits, every schema and  *)
(* any number of replacements: the files look like one database that is     *)
(* replaced in one step, nothing is destroyed, verdicts are true.           *)
(***************************************************************************)
EXTENDS ProfileFiles, TLAPS

USE FilesAssumption DEF At

\* What opening a pair of files shows, if the log is the main file's own.
LEMMA OpenedPair ==
  ASSUME NEW pair \in Pairs, LogOf(pair)
  PROVE  /\ Opened(pair) \in Contents
         /\ pair.main \in Contents
         /\ pair.main.work \subseteq Opened(pair).work
         /\ Opened(pair).schema = pair.main.schema
         /\ pair.wal = None => Opened(pair) = pair.main
         /\ Folded(pair) => Opened(pair) = pair.main
         /\ pair.wal # None => Opened(pair) = pair.wal.top
  BY DEF Pairs, Logs, LogOf, Opened, Folded

\* The live database as it is opened, and once its log is folded.
LEMMA OpenedLive ==
  ASSUME TypeOK, LogInv
  PROVE  /\ live \in Pairs /\ Opened(live) \in Contents
         /\ live.main \in Contents
         /\ live.main.work \subseteq Opened(live).work
         /\ Opened(live).schema = live.main.schema
         /\ live.wal = None => Opened(live) = live.main
         /\ Folded(live) => Opened(live) = live.main
         /\ Checkpointed \in Pairs /\ LogOf(Checkpointed)
         /\ Checkpointed.main = Opened(live) /\ Checkpointed.wal = None
         /\ Opened(Checkpointed) = Opened(live)
<1>1. live \in Pairs /\ LogOf(live)
  BY DEF TypeOK, LogInv
<1>2. Opened(live) \in Contents
  BY <1>1, OpenedPair
<1>3. /\ Checkpointed \in Pairs /\ LogOf(Checkpointed)
      /\ Checkpointed.main = Opened(live) /\ Checkpointed.wal = None
  BY <1>2 DEF Checkpointed, Pairs, LogOf
<1>4. Opened(Checkpointed) = Opened(live)
  BY <1>3 DEF Opened
<1> QED  BY <1>1, <1>3, OpenedPair

-----------------------------------------------------------------------------
(* Every action preserves IInv, conjunct by conjunct *)

\* Opening the runtime touches no file of the database.
LEMMA LaunchStep ==
  ASSUME IInv, Launch
  PROVE  IInv'
<1>1. TypeOK'
  BY OpenedLive DEF IInv, Launch, Begin, TypeOK, Contents, Plans, PlanOf, Jobs, Places
<1>2. LogInv'
  BY DEF IInv, Launch, LogInv
<1>3. MadeInv'
  BY DEF IInv, Launch, MadeInv
<1>4. PlanInv'
  BY OpenedLive DEF IInv, Launch, Begin, PlanInv
<1>5. BoundInv'
  BY DEF IInv, Launch, BoundInv
<1>6. PlaceInv'
  BY OpenedLive DEF IInv, Launch, Begin, PlaceInv, Installing, Ends, Jobs
<1>7. MigrationInv'
  BY OpenedLive DEF IInv, Launch, Begin, TypeOK, MigrationInv, PlaceInv, Migration,
     Installing
<1>8. InstallInv'
  BY OpenedLive DEF IInv, Launch, Begin, TypeOK, InstallInv, Installing
<1>9. NothingDestroyed'
  BY DEF IInv, Launch, NothingDestroyed
<1>10. VerdictTrue'
  BY OpenedLive DEF IInv, Launch, Begin, TypeOK, VerdictTrue
<1> QED  BY <1>1, <1>2, <1>3, <1>4, <1>5, <1>6, <1>7, <1>8, <1>9, <1>10 DEF IInv

\* A snapshot that begins has copied nothing yet.
LEMMA CallSnapshotStep ==
  ASSUME IInv, CallSnapshot
  PROVE  IInv'
<1>1. TypeOK'
  BY OpenedLive DEF IInv, CallSnapshot, Goto, Others, TypeOK, Contents, Plans, PlanOf,
     Jobs, Places
<1>2. LogInv'
  BY DEF IInv, CallSnapshot, LogInv
<1>3. MadeInv'
  BY DEF IInv, CallSnapshot, Others, MadeInv
<1>4. PlanInv'
  BY OpenedLive DEF IInv, CallSnapshot, Goto, Others, PlanInv, PlaceInv
<1>5. BoundInv'
  BY DEF IInv, CallSnapshot, Others, BoundInv
<1>6. PlaceInv'
  BY OpenedLive DEF IInv, CallSnapshot, Goto, PlaceInv, Installing, Ends
<1>7. MigrationInv'
  BY OpenedLive DEF IInv, CallSnapshot, Goto, Others, TypeOK, MigrationInv, PlaceInv,
     Migration, Installing
<1>8. InstallInv'
  BY OpenedLive DEF IInv, CallSnapshot, Goto, Others, TypeOK, InstallInv, Installing
<1>9. NothingDestroyed'
  BY DEF IInv, CallSnapshot, Others, NothingDestroyed
<1>10. VerdictTrue'
  BY OpenedLive DEF IInv, CallSnapshot, Goto, Others, TypeOK, VerdictTrue
<1> QED  BY <1>1, <1>2, <1>3, <1>4, <1>5, <1>6, <1>7, <1>8, <1>9, <1>10 DEF IInv

\* The copy is what opening the live database shows.
LEMMA WriteCopyStep ==
  ASSUME IInv, WriteCopy
  PROVE  IInv'
<1>1. TypeOK'
  BY OpenedLive DEF IInv, WriteCopy, Others, TypeOK, Contents, Plans, PlanOf, Jobs, Places
<1>2. LogInv'
  BY DEF IInv, WriteCopy, LogInv
<1>3. MadeInv'
  BY DEF IInv, WriteCopy, Others, MadeInv
<1>4. PlanInv'
  BY OpenedLive DEF IInv, WriteCopy, Others, PlanInv
<1>5. BoundInv'
  BY DEF IInv, WriteCopy, Others, BoundInv
<1>6. PlaceInv'
  BY OpenedLive DEF IInv, WriteCopy, PlaceInv, Installing, Copying, Ends
<1>7. MigrationInv'
  BY OpenedLive DEF IInv, WriteCopy, Others, TypeOK, MigrationInv, PlaceInv, Migration,
     Installing, Copying
<1>8. InstallInv'
  BY OpenedLive DEF IInv, WriteCopy, Others, TypeOK, InstallInv, Installing
<1>9. NothingDestroyed'
  BY DEF IInv, WriteCopy, Others, NothingDestroyed
<1>10. VerdictTrue'
  BY OpenedLive DEF IInv, WriteCopy, Others, TypeOK, VerdictTrue
<1> QED  BY <1>1, <1>2, <1>3, <1>4, <1>5, <1>6, <1>7, <1>8, <1>9, <1>10 DEF IInv

\* A copy that fails leaves the old snapshot; a migration is raised.
LEMMA CopyFailsStep ==
  ASSUME IInv, CopyFails
  PROVE  IInv'
<1>1. TypeOK'
  BY OpenedLive DEF IInv, CopyFails, Snapshotted, Goto, Others, TypeOK, Contents, Plans,
     PlanOf, Jobs, Places
<1>2. LogInv'
  BY DEF IInv, CopyFails, LogInv
<1>3. MadeInv'
  BY DEF IInv, CopyFails, Others, MadeInv
<1>4. PlanInv'
  BY OpenedLive DEF IInv, CopyFails, Snapshotted, Goto, Others, PlanInv
<1>5. BoundInv'
  BY DEF IInv, CopyFails, Others, BoundInv
<1>6. PlaceInv'
  BY OpenedLive DEF IInv, CopyFails, Snapshotted, Goto, PlaceInv, Installing, Copying, Ends
<1>7. MigrationInv'
  BY OpenedLive DEF IInv, CopyFails, Snapshotted, Goto, Others, TypeOK, MigrationInv,
     PlaceInv, Migration, Installing, Copying
<1>8. InstallInv'
  BY OpenedLive DEF IInv, CopyFails, Snapshotted, Goto, Others, TypeOK, InstallInv,
     Installing
<1>9. NothingDestroyed'
  BY DEF IInv, CopyFails, Others, NothingDestroyed
<1>10. VerdictTrue'
  BY OpenedLive DEF IInv, CopyFails, Snapshotted, Goto, Others, TypeOK, VerdictTrue
<1> QED  BY <1>1, <1>2, <1>3, <1>4, <1>5, <1>6, <1>7, <1>8, <1>9, <1>10 DEF IInv

\* A plan names the songs and a schema that can go further.
LEMMA PlanMigrationStep ==
  ASSUME IInv, PlanMigration
  PROVE  IInv'
<1>1. TypeOK'
  BY OpenedLive DEF IInv, PlanMigration, TypeOK, Contents, Plans, PlanOf, Jobs
<1>2. LogInv'
  BY DEF IInv, PlanMigration, LogInv
<1>3. MadeInv'
  BY DEF IInv, PlanMigration, MadeInv
<1>4. PlanInv'
  BY OpenedLive DEF PlanMigration, PlanInv, PlanOf
<1>5. BoundInv'
  BY DEF IInv, PlanMigration, BoundInv
<1>6. PlaceInv'
  BY OpenedLive DEF IInv, PlanMigration, PlaceInv
<1>7. MigrationInv'
  BY OpenedLive DEF IInv, PlanMigration, TypeOK, MigrationInv, PlaceInv, Migration,
     Installing
<1>8. InstallInv'
  BY OpenedLive DEF IInv, PlanMigration, TypeOK, InstallInv
<1>9. NothingDestroyed'
  BY DEF IInv, PlanMigration, NothingDestroyed
<1>10. VerdictTrue'
  BY OpenedLive DEF IInv, PlanMigration, TypeOK, VerdictTrue
<1> QED  BY <1>1, <1>2, <1>3, <1>4, <1>5, <1>6, <1>7, <1>8, <1>9, <1>10 DEF IInv

\* A migration begins: before is what opening shows.
LEMMA CallMigrateStep ==
  ASSUME IInv, CallMigrate
  PROVE  IInv'
<1>1. TypeOK'
  BY OpenedLive DEF IInv, CallMigrate, Begin, TypeOK, Contents, Plans, PlanOf, Jobs, Places
<1>2. LogInv'
  BY DEF IInv, CallMigrate, LogInv
<1>3. MadeInv'
  BY DEF IInv, CallMigrate, MadeInv
<1>4. PlanInv'
  BY OpenedLive DEF IInv, CallMigrate, PlanInv, PlanOf
<1>5. BoundInv'
  BY DEF IInv, CallMigrate, BoundInv
<1>6. PlaceInv'
  BY OpenedLive DEF IInv, CallMigrate, Begin, PlaceInv, Jobs
<1>7. MigrationInv'
  BY OpenedLive DEF IInv, CallMigrate, Begin, TypeOK, MigrationInv, PlaceInv, Migration,
     Installing, Copying
<1>8. InstallInv'
  BY OpenedLive DEF IInv, CallMigrate, Begin, TypeOK, InstallInv, Installing
<1>9. NothingDestroyed'
  BY DEF IInv, CallMigrate, NothingDestroyed
<1>10. VerdictTrue'
  BY OpenedLive DEF IInv, CallMigrate, Begin, TypeOK, VerdictTrue
<1> QED  BY <1>1, <1>2, <1>3, <1>4, <1>5, <1>6, <1>7, <1>8, <1>9, <1>10 DEF IInv

\* The migration of an update begins with a log that adds nothing, since the
\* main file has all the work the update is bound to (BoundInv).
LEMMA ApplyStep ==
  ASSUME IInv, Apply
  PROVE  IInv'
<1>1. UNCHANGED <<live, snap, kept, plan, made>>
  BY DEF Apply
<1>2. /\ call'.at = "stage" /\ call'.job = "bound" /\ call'.back = FALSE
      /\ call'.before = Opened(live) /\ bound' = None
      /\ snap = bound /\ Opened(live) = bound /\ bound # None /\ bound.schema < MaxSchema
  BY DEF Apply, Begin
<1>3. Folded(live)
  <2>1. SUFFICES ASSUME live.wal # None
                 PROVE  live.wal.top = live.main
    BY DEF Folded
  <2>2. live.wal.top = bound /\ live.wal.top \in Contents /\ live.main \in Contents
    BY <1>2, <2>1, OpenedLive, OpenedPair DEF IInv, LogInv
  <2>3. live.wal.top.work = live.main.work /\ live.wal.top.schema = live.main.schema
    BY <2>1, <2>2 DEF IInv, LogInv, LogOf, BoundInv
  <2> QED  BY <2>2, <2>3 DEF Contents
<1>4. TypeOK'
  BY DEF IInv, Apply, Begin, TypeOK, Jobs, Places
<1>5. LogInv'
  BY <1>1 DEF IInv, LogInv
<1>6. MadeInv'
  BY <1>1 DEF IInv, MadeInv
<1>7. PlanInv'
  BY <1>1, <1>2, <1>3 DEF IInv, PlanInv
<1>8. BoundInv'
  BY <1>2 DEF BoundInv
<1>9. PlaceInv'
  BY <1>1, <1>2, <1>3, OpenedLive DEF PlaceInv, Copying, Jobs
<1>10. MigrationInv'
  BY <1>1, <1>2, <1>3, OpenedLive DEF IInv, TypeOK, MigrationInv, PlaceInv, Migration,
     Installing
<1>11. InstallInv'
  BY <1>1, <1>2, <1>3, OpenedLive DEF IInv, TypeOK, InstallInv, Installing
<1>12. NothingDestroyed'
  BY <1>1 DEF IInv, NothingDestroyed
<1>13. VerdictTrue'
  BY <1>1, <1>2, <1>3, OpenedLive DEF IInv, TypeOK, VerdictTrue
<1> QED  BY <1>4, <1>5, <1>6, <1>7, <1>8, <1>9, <1>10, <1>11, <1>12, <1>13 DEF IInv

\* The staged copy is the next schema with all the work.
LEMMA StageStep ==
  ASSUME IInv, Stage
  PROVE  IInv'
<1>1. UNCHANGED <<live, snap, kept, lease, plan, bound, made>>
  BY DEF Stage, Others
<1>2. /\ call.at = "stage" /\ call'.job = call.job /\ call'.back = call.back
      /\ call'.before = call.before
      /\ \/ call'.at = "preserve" /\ call'.next = [Opened(live) EXCEPT !.schema = @ + 1]
         \/ call'.at = "raise" /\ call'.next = call.next
  BY DEF IInv, TypeOK, Stage, Goto
<1>3. [Opened(live) EXCEPT !.schema = @ + 1] \in Contents
  <2>1. Opened(live).schema + 1 \in 1..MaxSchema
    BY <1>2, OpenedLive DEF IInv, PlanInv, PlaceInv, Contents
  <2> QED  BY <2>1, OpenedLive DEF IInv, Contents
<1>4. TypeOK'
  <2>1. call' \in [job : Jobs \cup {None}, at : Places \cup {"idle"}, next : Contents \cup {None},
                   back : BOOLEAN, before : Contents \cup {None}]
    BY <1>3 DEF IInv, TypeOK, Stage, Goto, Places, Ends
  <2> QED  BY <1>1, <2>1 DEF IInv, TypeOK
<1>5. LogInv'
  BY <1>1 DEF IInv, LogInv
<1>6. MadeInv'
  BY <1>1 DEF IInv, MadeInv
<1>7. PlanInv'
  BY <1>1, <1>2, <1>3 DEF IInv, PlanInv
<1>8. BoundInv'
  BY <1>1 DEF IInv, BoundInv
<1>9. PlaceInv'
  BY <1>1, <1>2, <1>3, OpenedLive DEF IInv, PlaceInv, Copying
<1>10. MigrationInv'
  BY <1>1, <1>2, <1>3, OpenedLive DEF IInv, TypeOK, MigrationInv, PlaceInv, Migration,
     Installing, Copying
<1>11. InstallInv'
  BY <1>1, <1>2, <1>3, OpenedLive DEF IInv, TypeOK, InstallInv, PlaceInv, Installing
<1>12. NothingDestroyed'
  BY <1>1 DEF IInv, NothingDestroyed
<1>13. VerdictTrue'
  BY <1>1, <1>2, <1>3, OpenedLive DEF IInv, TypeOK, VerdictTrue, MigrationInv, Migration
<1> QED  BY <1>4, <1>5, <1>6, <1>7, <1>8, <1>9, <1>10, <1>11, <1>12, <1>13 DEF IInv

\* The rollback is to the snapshot the migration began with.
LEMMA RestoreFromSnapshotStep ==
  ASSUME IInv, RestoreFromSnapshot
  PROVE  IInv'
<1>1. UNCHANGED <<live, snap, kept, lease, plan, bound, made>>
  BY DEF RestoreFromSnapshot, Others
<1>2. /\ call.at = "restore" /\ call'.job = call.job /\ call'.before = call.before
      /\ \/ call'.at = "preserve" /\ call'.next = snap /\ call'.back = TRUE /\ snap # None
         \/ call'.at = "recovery" /\ call'.next = call.next /\ call'.back = call.back
  BY DEF IInv, TypeOK, RestoreFromSnapshot, Goto
<1>3. TypeOK'
  BY <1>1 DEF IInv, TypeOK, RestoreFromSnapshot, Goto, Places, Ends
<1>4. LogInv'
  BY <1>1 DEF IInv, LogInv
<1>5. MadeInv'
  BY <1>1 DEF IInv, MadeInv
<1>6. PlanInv'
  BY <1>1, <1>2 DEF IInv, PlanInv
<1>7. BoundInv'
  BY <1>1 DEF IInv, BoundInv
<1>8. PlaceInv'
  BY <1>1, <1>2, OpenedLive DEF IInv, PlaceInv, Copying
<1>9. MigrationInv'
  BY <1>1, <1>2, OpenedLive DEF IInv, TypeOK, MigrationInv, PlaceInv, Migration,
     Installing, Copying
<1>10. InstallInv'
  BY <1>1, <1>2, OpenedLive DEF IInv, TypeOK, InstallInv, Installing
<1>11. NothingDestroyed'
  BY <1>1 DEF IInv, NothingDestroyed
<1>12. VerdictTrue'
  BY <1>1, <1>2, OpenedLive DEF IInv, TypeOK, VerdictTrue
<1> QED  BY <1>3, <1>4, <1>5, <1>6, <1>7, <1>8, <1>9, <1>10, <1>11, <1>12 DEF IInv

\* An installation cut short before the replacement shows what it showed.
LEMMA InstallFailsStep ==
  ASSUME IInv, InstallFails
  PROVE  IInv'
<1>1. TypeOK'
  BY OpenedLive DEF IInv, InstallFails, Goto, Failed, Others, TypeOK, Contents, Plans,
     PlanOf, Jobs, Places, Ends
<1>2. LogInv'
  BY DEF IInv, InstallFails, LogInv
<1>3. MadeInv'
  BY DEF IInv, InstallFails, Others, MadeInv
<1>4. PlanInv'
  BY OpenedLive DEF IInv, InstallFails, Goto, Failed, Others, PlanInv
<1>5. BoundInv'
  BY DEF IInv, InstallFails, Others, BoundInv
<1>6. PlaceInv'
  BY OpenedLive DEF IInv, InstallFails, Goto, Failed, PlaceInv, Installing, Copying
<1>7. MigrationInv'
  BY OpenedLive DEF IInv, InstallFails, Goto, Failed, Others, TypeOK, MigrationInv,
     PlaceInv, Migration, Installing, Copying
<1>8. InstallInv'
  BY OpenedLive DEF IInv, InstallFails, Goto, Failed, Others, TypeOK, InstallInv,
     Installing
<1>9. NothingDestroyed'
  BY DEF IInv, InstallFails, Others, NothingDestroyed
<1>10. VerdictTrue'
  BY OpenedLive DEF IInv, InstallFails, Goto, Failed, Others, TypeOK, VerdictTrue,
     MigrationInv, Migration, Installing
<1> QED  BY <1>1, <1>2, <1>3, <1>4, <1>5, <1>6, <1>7, <1>8, <1>9, <1>10 DEF IInv

\* The shared-memory file carries nothing.
LEMMA MoveShmStep ==
  ASSUME IInv, MoveShm
  PROVE  IInv'
<1>1. TypeOK'
  BY OpenedLive DEF IInv, MoveShm, Goto, Others, TypeOK, Contents, Plans, PlanOf, Jobs,
     Places
<1>2. LogInv'
  BY DEF IInv, MoveShm, LogInv
<1>3. MadeInv'
  BY DEF IInv, MoveShm, Others, MadeInv
<1>4. PlanInv'
  BY OpenedLive DEF IInv, MoveShm, Goto, Others, PlanInv
<1>5. BoundInv'
  BY DEF IInv, MoveShm, Others, BoundInv
<1>6. PlaceInv'
  BY OpenedLive DEF IInv, MoveShm, Goto, PlaceInv, Installing, Copying
<1>7. MigrationInv'
  BY OpenedLive DEF IInv, MoveShm, Goto, Others, TypeOK, MigrationInv, PlaceInv, Migration,
     Installing, Copying
<1>8. InstallInv'
  BY OpenedLive DEF IInv, MoveShm, Goto, Others, TypeOK, InstallInv, Migration, Installing,
     Kept
<1>9. NothingDestroyed'
  BY DEF IInv, MoveShm, Others, NothingDestroyed
<1>10. VerdictTrue'
  BY OpenedLive DEF IInv, MoveShm, Goto, Others, TypeOK, VerdictTrue
<1> QED  BY <1>1, <1>2, <1>3, <1>4, <1>5, <1>6, <1>7, <1>8, <1>9, <1>10 DEF IInv

\* The verdict on an installed snapshot is given with that snapshot in place.
LEMMA InspectInstalledStep ==
  ASSUME IInv, InspectInstalled
  PROVE  IInv'
<1>1. TypeOK'
  BY OpenedLive DEF IInv, InspectInstalled, Goto, Failed, Others, TypeOK, Contents, Plans,
     PlanOf, Jobs, Places, Ends
<1>2. LogInv'
  BY DEF IInv, InspectInstalled, LogInv
<1>3. MadeInv'
  BY DEF IInv, InspectInstalled, Others, MadeInv
<1>4. PlanInv'
  BY OpenedLive DEF IInv, InspectInstalled, Goto, Failed, Others, TypeOK, PlanInv
<1>5. BoundInv'
  BY DEF IInv, InspectInstalled, Others, BoundInv
<1>6. PlaceInv'
  BY OpenedLive DEF IInv, InspectInstalled, Goto, Failed, TypeOK, PlaceInv, Copying, Jobs,
     Migration
<1>7. MigrationInv'
  BY OpenedLive DEF IInv, InspectInstalled, Goto, Failed, Others, TypeOK, MigrationInv,
     PlaceInv, Migration, Installing
<1>8. InstallInv'
  BY OpenedLive DEF IInv, InspectInstalled, Goto, Failed, Others, TypeOK, InstallInv,
     Installing
<1>9. NothingDestroyed'
  BY DEF IInv, InspectInstalled, Others, NothingDestroyed
<1>10. VerdictTrue'
  BY OpenedLive DEF IInv, InspectInstalled, Goto, Failed, Others, TypeOK, VerdictTrue,
     PlaceInv, MigrationInv, InstallInv, Migration, Jobs
<1> QED  BY <1>1, <1>2, <1>3, <1>4, <1>5, <1>6, <1>7, <1>8, <1>9, <1>10 DEF IInv

\* A restore by hand begins with the file of the snapshot.
LEMMA CallRestoreStep ==
  ASSUME IInv, CallRestore
  PROVE  IInv'
<1>1. TypeOK'
  BY OpenedLive DEF IInv, CallRestore, Begin, Others, TypeOK, Contents, Plans, PlanOf,
     Jobs, Places
<1>2. LogInv'
  BY DEF IInv, CallRestore, LogInv
<1>3. MadeInv'
  BY DEF IInv, CallRestore, Others, MadeInv
<1>4. PlanInv'
  BY OpenedLive DEF IInv, CallRestore, Begin, Others, PlanInv
<1>5. BoundInv'
  BY DEF IInv, CallRestore, Others, BoundInv
<1>6. PlaceInv'
  BY OpenedLive DEF IInv, CallRestore, Begin, PlaceInv, Copying, Jobs
<1>7. MigrationInv'
  BY OpenedLive DEF IInv, CallRestore, Begin, Others, TypeOK, MigrationInv, PlaceInv,
     Migration, Installing
<1>8. InstallInv'
  BY OpenedLive DEF IInv, CallRestore, Begin, Others, TypeOK, InstallInv
<1>9. NothingDestroyed'
  BY DEF IInv, CallRestore, Others, NothingDestroyed
<1>10. VerdictTrue'
  BY OpenedLive DEF IInv, CallRestore, Begin, Others, TypeOK, VerdictTrue
<1> QED  BY <1>1, <1>2, <1>3, <1>4, <1>5, <1>6, <1>7, <1>8, <1>9, <1>10 DEF IInv

\* A call that returns leaves the files as they are.
LEMMA ReturnStep ==
  ASSUME IInv, Return
  PROVE  IInv'
<1>1. TypeOK'
  BY OpenedLive DEF IInv, Return, Idle, TypeOK, Contents, Plans, PlanOf, Jobs
<1>2. LogInv'
  BY DEF IInv, Return, LogInv
<1>3. MadeInv'
  BY DEF IInv, Return, MadeInv
<1>4. PlanInv'
  BY OpenedLive DEF IInv, Return, Idle, PlanInv
<1>5. BoundInv'
  BY DEF IInv, Return, BoundInv
<1>6. PlaceInv'
  BY OpenedLive DEF IInv, Return, Idle, PlaceInv, Copying, Jobs
<1>7. MigrationInv'
  BY OpenedLive DEF IInv, Return, Idle, TypeOK, MigrationInv, PlaceInv, Migration,
     Installing, Jobs
<1>8. InstallInv'
  BY OpenedLive DEF IInv, Return, Idle, TypeOK, InstallInv, Installing
<1>9. NothingDestroyed'
  BY DEF IInv, Return, NothingDestroyed
<1>10. VerdictTrue'
  BY OpenedLive DEF IInv, Return, Idle, TypeOK, VerdictTrue
<1> QED  BY <1>1, <1>2, <1>3, <1>4, <1>5, <1>6, <1>7, <1>8, <1>9, <1>10 DEF IInv

\* The compensation of an update goes back to its snapshot.
LEMMA CompensateStep ==
  ASSUME IInv, Compensate
  PROVE  IInv'
<1>1. TypeOK'
  BY OpenedLive DEF IInv, Compensate, Others, TypeOK, Contents, Plans, PlanOf, Jobs, Places
<1>2. LogInv'
  BY DEF IInv, Compensate, LogInv
<1>3. MadeInv'
  BY DEF IInv, Compensate, Others, MadeInv
<1>4. PlanInv'
  BY OpenedLive DEF IInv, Compensate, Others, PlanInv
<1>5. BoundInv'
  BY DEF IInv, Compensate, Others, BoundInv
<1>6. PlaceInv'
  BY OpenedLive DEF IInv, Compensate, PlaceInv, Copying, Jobs
<1>7. MigrationInv'
  BY OpenedLive DEF IInv, Compensate, Others, TypeOK, MigrationInv, PlaceInv, Migration,
     Installing, Copying
<1>8. InstallInv'
  BY OpenedLive DEF IInv, Compensate, Others, TypeOK, InstallInv
<1>9. NothingDestroyed'
  BY DEF IInv, Compensate, Others, NothingDestroyed
<1>10. VerdictTrue'
  BY OpenedLive DEF IInv, Compensate, Others, TypeOK, VerdictTrue
<1> QED  BY <1>1, <1>2, <1>3, <1>4, <1>5, <1>6, <1>7, <1>8, <1>9, <1>10 DEF IInv

\* A settled update leaves the files as they are.
LEMMA SettleStep ==
  ASSUME IInv, Settle
  PROVE  IInv'
<1>1. TypeOK'
  BY OpenedLive DEF IInv, Settle, Idle, TypeOK, Contents, Plans, PlanOf, Jobs
<1>2. LogInv'
  BY DEF IInv, Settle, LogInv
<1>3. MadeInv'
  BY DEF IInv, Settle, MadeInv
<1>4. PlanInv'
  BY OpenedLive DEF IInv, Settle, Idle, PlanInv
<1>5. BoundInv'
  BY DEF IInv, Settle, BoundInv
<1>6. PlaceInv'
  BY OpenedLive DEF IInv, Settle, Idle, PlaceInv, Copying, Jobs
<1>7. MigrationInv'
  BY OpenedLive DEF IInv, Settle, Idle, TypeOK, MigrationInv, PlaceInv, Migration,
     Installing, Jobs
<1>8. InstallInv'
  BY OpenedLive DEF IInv, Settle, Idle, TypeOK, InstallInv, Installing
<1>9. NothingDestroyed'
  BY DEF IInv, Settle, NothingDestroyed
<1>10. VerdictTrue'
  BY OpenedLive DEF IInv, Settle, Idle, TypeOK, VerdictTrue
<1> QED  BY <1>1, <1>2, <1>3, <1>4, <1>5, <1>6, <1>7, <1>8, <1>9, <1>10 DEF IInv

\* A call that keeps its hold is no longer in any step of an installation.
LEMMA KeepHoldStep ==
  ASSUME IInv, KeepHold
  PROVE  IInv'
<1>1. TypeOK'
  BY OpenedLive DEF IInv, KeepHold, Goto, Others, TypeOK, Contents, Plans, PlanOf, Jobs,
     Places
<1>2. LogInv'
  BY DEF IInv, KeepHold, LogInv
<1>3. MadeInv'
  BY DEF IInv, KeepHold, Others, MadeInv
<1>4. PlanInv'
  BY OpenedLive DEF IInv, KeepHold, Goto, Others, PlanInv
<1>5. BoundInv'
  BY DEF IInv, KeepHold, Others, BoundInv
<1>6. PlaceInv'
  BY OpenedLive DEF IInv, KeepHold, Goto, PlaceInv, Copying, Ends
<1>7. MigrationInv'
  BY OpenedLive DEF IInv, KeepHold, Goto, Others, TypeOK, MigrationInv, PlaceInv,
     Migration, Installing, Copying
<1>8. InstallInv'
  BY OpenedLive DEF IInv, KeepHold, Goto, Others, TypeOK, InstallInv, Installing
<1>9. NothingDestroyed'
  BY DEF IInv, KeepHold, Others, NothingDestroyed
<1>10. VerdictTrue'
  BY OpenedLive DEF IInv, KeepHold, Goto, Others, TypeOK, VerdictTrue
<1> QED  BY <1>1, <1>2, <1>3, <1>4, <1>5, <1>6, <1>7, <1>8, <1>9, <1>10 DEF IInv

\* The end of the process leaves the files as they are.
LEMMA EndStep ==
  ASSUME IInv, End
  PROVE  IInv'
<1>1. TypeOK'
  BY OpenedLive DEF IInv, End, Idle, TypeOK, Contents, Plans, PlanOf, Jobs
<1>2. LogInv'
  BY DEF IInv, End, LogInv
<1>3. MadeInv'
  BY DEF IInv, End, MadeInv
<1>4. PlanInv'
  BY OpenedLive DEF IInv, End, Idle, PlanInv
<1>5. BoundInv'
  BY DEF IInv, End, BoundInv
<1>6. PlaceInv'
  BY OpenedLive DEF IInv, End, Idle, PlaceInv, Copying, Jobs
<1>7. MigrationInv'
  BY OpenedLive DEF IInv, End, Idle, TypeOK, MigrationInv, PlaceInv, Migration, Installing,
     Jobs
<1>8. InstallInv'
  BY OpenedLive DEF IInv, End, Idle, TypeOK, InstallInv, Installing
<1>9. NothingDestroyed'
  BY DEF IInv, End, NothingDestroyed
<1>10. VerdictTrue'
  BY OpenedLive DEF IInv, End, Idle, TypeOK, VerdictTrue
<1> QED  BY <1>1, <1>2, <1>3, <1>4, <1>5, <1>6, <1>7, <1>8, <1>9, <1>10 DEF IInv

\* A commit goes to the log and is of the history.
LEMMA CommitStep ==
  ASSUME IInv, NEW c \in Commits, Commit(c)
  PROVE  IInv'
<1> DEFINE top == [Opened(live) EXCEPT !.work = @ \cup {c}]
<1>1. /\ call.at = "running" /\ made' = made \cup {c}
      /\ live' = [live EXCEPT !.wal = [base |-> live.main, top |-> top]]
      /\ UNCHANGED <<snap, kept, lease, plan, bound, call>>
  BY DEF Commit
<1>2. /\ top \in Contents /\ top.work = Opened(live).work \cup {c} /\ top.schema = live.main.schema
      /\ [base |-> live.main, top |-> top] \in Logs
  BY OpenedLive DEF IInv, Contents, Logs
<1>3. /\ live' \in Pairs /\ live'.main = live.main
      /\ live'.wal # None /\ live'.wal.base = live.main /\ live'.wal.top = top
  BY <1>1, <1>2, OpenedLive DEF IInv, Pairs
<1> HIDE DEF top
<1>4. Opened(live') = top /\ LogOf(live')
  BY <1>2, <1>3, OpenedLive DEF IInv, Opened, LogOf
<1>5. TypeOK'
  BY <1>1, <1>3 DEF IInv, TypeOK
<1>6. LogInv'
  BY <1>4 DEF LogInv
<1>7. MadeInv'
  BY <1>1, <1>2, <1>4 DEF IInv, MadeInv
<1>8. PlanInv'
  BY <1>1 DEF IInv, PlanInv
<1>9. BoundInv'
  BY <1>1 DEF IInv, BoundInv
<1>10. PlaceInv'
  BY <1>1, <1>2, <1>3, <1>4, OpenedLive DEF IInv, PlaceInv
<1>11. MigrationInv'
  BY <1>1, <1>2, <1>3, <1>4, OpenedLive DEF IInv, TypeOK, MigrationInv, PlaceInv,
     Migration, Installing
<1>12. InstallInv'
  BY <1>1, <1>2, <1>3, <1>4, OpenedLive DEF IInv, TypeOK, InstallInv
<1>13. NothingDestroyed'
  BY <1>1, <1>2, <1>4 DEF IInv, NothingDestroyed
<1>14. VerdictTrue'
  BY <1>1, <1>2, <1>3, <1>4, OpenedLive DEF IInv, TypeOK, VerdictTrue
<1> QED  BY <1>5, <1>6, <1>7, <1>8, <1>9, <1>10, <1>11, <1>12, <1>13, <1>14 DEF IInv

\* Folding the log into the main file shows the same state.
LEMMA CheckpointStep ==
  ASSUME IInv, Checkpoint
  PROVE  IInv'
<1>1. live' = Checkpointed /\ UNCHANGED <<snap, kept, lease, plan, bound, call, made>>
  BY DEF Checkpoint, Others
<1>2. /\ live' \in Pairs /\ live'.main = Opened(live) /\ live'.wal = None
      /\ LogOf(live') /\ Opened(live') = Opened(live)
  BY <1>1, OpenedLive DEF IInv
<1>3. call.at = "running"
  BY DEF Checkpoint
<1>4. TypeOK'
  BY <1>1, <1>2 DEF IInv, TypeOK
<1>5. LogInv'
  BY <1>2 DEF LogInv
<1>6. MadeInv'
  BY <1>1, <1>2 DEF IInv, MadeInv
<1>7. PlanInv'
  BY <1>1, <1>2, <1>3 DEF IInv, PlanInv
<1>8. BoundInv'
  BY <1>1, OpenedLive DEF IInv, BoundInv
<1>9. PlaceInv'
  BY <1>1, <1>2, <1>3, OpenedLive DEF IInv, PlaceInv
<1>10. MigrationInv'
  BY <1>1, <1>2, <1>3, OpenedLive DEF IInv, TypeOK, MigrationInv, PlaceInv, Migration,
     Installing
<1>11. InstallInv'
  BY <1>1, <1>2, <1>3, OpenedLive DEF IInv, TypeOK, InstallInv
<1>12. NothingDestroyed'
  BY <1>1, <1>2 DEF IInv, NothingDestroyed
<1>13. VerdictTrue'
  BY <1>1, <1>2, <1>3, OpenedLive DEF IInv, TypeOK, VerdictTrue
<1> QED  BY <1>4, <1>5, <1>6, <1>7, <1>8, <1>9, <1>10, <1>11, <1>12, <1>13 DEF IInv

\* Closing folds the log; an update is bound to a snapshot that is up to date.
LEMMA QuitStep ==
  ASSUME IInv, Quit
  PROVE  IInv'
<1>1. live' = Checkpointed /\ UNCHANGED <<snap, kept, plan, made>>
  BY DEF Quit
<1>2. /\ live' \in Pairs /\ live'.main = Opened(live) /\ live'.wal = None
      /\ LogOf(live') /\ Opened(live') = Opened(live)
  BY <1>1, OpenedLive DEF IInv
<1>3. call' = Idle /\ (bound' = bound \/ (bound' = snap /\ snap = Opened(live)))
  BY DEF Quit
<1>4. TypeOK'
  <2>1. call' \in [job : Jobs \cup {None}, at : Places \cup {"idle"}, next : Contents \cup {None},
                   back : BOOLEAN, before : Contents \cup {None}]
    BY <1>3 DEF Idle
  <2>2. lease' \in BOOLEAN /\ bound' \in Contents \cup {None}
    BY DEF IInv, TypeOK, Quit
  <2> QED  BY <1>1, <1>2, <2>1, <2>2 DEF IInv, TypeOK
<1>5. LogInv'
  BY <1>2 DEF LogInv
<1>6. MadeInv'
  BY <1>1, <1>2 DEF IInv, MadeInv
<1>7. PlanInv'
  BY <1>1, <1>2, <1>3, OpenedLive DEF IInv, Idle, PlanInv
<1>8. BoundInv'
  BY <1>1, <1>3, OpenedLive DEF IInv, BoundInv
<1>9. PlaceInv'
  BY <1>1, <1>2, <1>3, OpenedLive DEF IInv, Idle, PlaceInv, Copying, Jobs
<1>10. MigrationInv'
  BY <1>1, <1>2, <1>3, OpenedLive DEF IInv, Idle, TypeOK, MigrationInv, PlaceInv,
     Migration, Installing, Jobs
<1>11. InstallInv'
  BY <1>1, <1>2, <1>3, OpenedLive DEF IInv, Idle, TypeOK, InstallInv, Installing
<1>12. NothingDestroyed'
  BY <1>1, <1>2 DEF IInv, NothingDestroyed
<1>13. VerdictTrue'
  BY <1>1, <1>2, <1>3, OpenedLive DEF IInv, Idle, TypeOK, VerdictTrue
<1> QED  BY <1>4, <1>5, <1>6, <1>7, <1>8, <1>9, <1>10, <1>11, <1>12, <1>13 DEF IInv

\* The new snapshot has all the work the live database shows.
LEMMA InstallCopyStep ==
  ASSUME IInv, InstallCopy
  PROVE  IInv'
<1>1. UNCHANGED <<live, kept, lease, plan, bound, made>> /\ snap' = Opened(live)
  BY DEF IInv, InstallInv, InstallCopy, Others
<1>2. /\ call.at = "install" /\ call'.job = call.job /\ call'.back = call.back
      /\ call'.before = call.before
      /\ call'.at = IF call.job = "runtime" THEN "running" ELSE "close"
  BY DEF InstallCopy, Snapshotted, Goto
<1>3. Opened(live) # None
  BY OpenedLive DEF IInv
<1>4. TypeOK'
  BY <1>1 DEF IInv, TypeOK, InstallCopy, Snapshotted, Goto, Places
<1>5. LogInv'
  BY <1>1 DEF IInv, LogInv
<1>6. MadeInv'
  BY <1>1 DEF IInv, MadeInv
<1>7. PlanInv'
  BY <1>1, <1>2, <1>3 DEF IInv, PlanInv
<1>8. BoundInv'
  BY <1>1, OpenedLive DEF IInv, BoundInv
<1>9. PlaceInv'
  BY <1>1, <1>2, <1>3, OpenedLive DEF IInv, PlaceInv, Installing, Copying, Ends
<1>10. MigrationInv'
  BY <1>1, <1>2, <1>3, OpenedLive DEF IInv, TypeOK, MigrationInv, PlaceInv, Migration,
     Installing, Copying
<1>11. InstallInv'
  BY <1>1, <1>2, <1>3, OpenedLive DEF IInv, TypeOK, InstallInv, Installing
<1>12. NothingDestroyed'
  BY <1>1 DEF IInv, NothingDestroyed
<1>13. VerdictTrue'
  BY <1>1, <1>2, <1>3, OpenedLive DEF IInv, TypeOK, VerdictTrue
<1> QED  BY <1>4, <1>5, <1>6, <1>7, <1>8, <1>9, <1>10, <1>11, <1>12, <1>13 DEF IInv

\* From here on the migration finds no work in the log.
LEMMA CloseStoreStep ==
  ASSUME IInv, CloseStore
  PROVE  IInv'
<1>1. live' = Checkpointed /\ UNCHANGED <<snap, kept, lease, plan, bound, made>>
  BY DEF CloseStore, Others
<1>2. /\ live' \in Pairs /\ live'.main = Opened(live) /\ live'.wal = None
      /\ LogOf(live') /\ Opened(live') = Opened(live)
  BY <1>1, OpenedLive DEF IInv
<1>3. /\ call'.job = call.job /\ call'.back = call.back /\ call'.before = call.before
      /\ \/ call.at = "close" /\ call'.at = "stage"
         \/ call.at = "closeFailed" /\ call'.at = "raise"
  BY DEF CloseStore, Goto
<1>4. TypeOK'
  BY <1>1, <1>2 DEF IInv, TypeOK, CloseStore, Goto, Places, Ends
<1>5. LogInv'
  BY <1>2 DEF LogInv
<1>6. MadeInv'
  BY <1>1, <1>2 DEF IInv, MadeInv
<1>7. PlanInv'
  BY <1>1, <1>2, <1>3 DEF IInv, PlanInv, PlaceInv
<1>8. BoundInv'
  BY <1>1, OpenedLive DEF IInv, BoundInv
<1>9. PlaceInv'
  BY <1>1, <1>2, <1>3, OpenedLive DEF IInv, PlaceInv, Copying
<1>10. MigrationInv'
  BY <1>1, <1>2, <1>3, OpenedLive DEF IInv, TypeOK, MigrationInv, PlaceInv, Migration,
     Installing, Copying, Folded
<1>11. InstallInv'
  BY <1>1, <1>2, <1>3, OpenedLive DEF IInv, TypeOK, InstallInv, Installing
<1>12. NothingDestroyed'
  BY <1>1, <1>2 DEF IInv, NothingDestroyed
<1>13. VerdictTrue'
  BY <1>1, <1>2, <1>3, OpenedLive DEF IInv, TypeOK, VerdictTrue, MigrationInv, Migration,
     Copying
<1> QED  BY <1>4, <1>5, <1>6, <1>7, <1>8, <1>9, <1>10, <1>11, <1>12, <1>13 DEF IInv

\* Opening and closing the migrated database leaves at most an empty log.
LEMMA ReopenStep ==
  ASSUME IInv, Reopen
  PROVE  IInv'
<1>1. UNCHANGED <<snap, kept, lease, plan, bound, made>>
  BY DEF Reopen, Others
<1>2. /\ call.at = "reopen" /\ call'.job = call.job /\ call'.back = call.back
      /\ call'.before = call.before /\ call'.at \in {"done", "restore"}
  BY DEF IInv, TypeOK, Reopen, Goto
<1>3. /\ live' \in Pairs /\ live'.main = live.main /\ Opened(live') = Opened(live)
      /\ LogOf(live') /\ Folded(live')
  <2>1. Folded(live) /\ Opened(live) = live.main
    BY <1>2, OpenedLive DEF IInv, MigrationInv, PlaceInv, Migration, Copying
  <2>2. CASE live' = live
    BY <2>1, <2>2, OpenedLive DEF IInv, LogInv
  <2>3. CASE live' = [live EXCEPT !.wal = [base |-> live.main, top |-> live.main]]
    <3>1. [base |-> live.main, top |-> live.main] \in Logs
      BY OpenedLive DEF IInv, Logs
    <3>2. /\ live' \in Pairs /\ live'.main = live.main
          /\ live'.wal.base = live.main /\ live'.wal.top = live.main /\ live'.wal # None
      BY <2>3, <3>1, OpenedLive DEF IInv, Pairs
    <3> QED  BY <2>1, <3>2 DEF Opened, LogOf, Folded
  <2> QED  BY <2>2, <2>3 DEF Reopen
<1>4. TypeOK'
  BY <1>1, <1>3 DEF IInv, TypeOK, Reopen, Goto, Places, Ends
<1>5. LogInv'
  BY <1>3 DEF LogInv
<1>6. MadeInv'
  BY <1>1, <1>3 DEF IInv, MadeInv
<1>7. PlanInv'
  BY <1>1, <1>2, <1>3 DEF IInv, PlanInv
<1>8. BoundInv'
  BY <1>1, <1>3 DEF IInv, BoundInv
<1>9. PlaceInv'
  BY <1>1, <1>2, <1>3, OpenedLive DEF IInv, PlaceInv, Copying
<1>10. MigrationInv'
  BY <1>1, <1>2, <1>3, OpenedLive DEF IInv, TypeOK, MigrationInv, PlaceInv, Migration,
     Installing, Copying
<1>11. InstallInv'
  BY <1>1, <1>2, <1>3, OpenedLive DEF IInv, TypeOK, InstallInv, Installing
<1>12. NothingDestroyed'
  BY <1>1, <1>3 DEF IInv, NothingDestroyed
<1>13. VerdictTrue'
  BY <1>1, <1>2, <1>3, OpenedLive DEF IInv, TypeOK, VerdictTrue, PlaceInv, MigrationInv,
     Migration
<1> QED  BY <1>4, <1>5, <1>6, <1>7, <1>8, <1>9, <1>10, <1>11, <1>12, <1>13 DEF IInv

\* The preserved main file is the live one, beside the earlier ones.
LEMMA PreserveStep ==
  ASSUME IInv, Preserve
  PROVE  IInv'
<1> DEFINE copy == [main |-> live.main, wal |-> None]
<1>1. /\ UNCHANGED <<live, snap, lease, bound, made>> /\ plan' \in {plan, None}
      /\ kept' = Append(kept, copy)
  BY DEF Preserve
<1>2. /\ call.at = "preserve" /\ call'.at = "wal" /\ call'.job = call.job
      /\ call'.back = call.back /\ call'.before = call.before /\ call'.next = call.next
  BY DEF Preserve, Goto
<1>3. copy \in Pairs /\ kept \in Seq(Pairs) /\ Len(kept) \in Nat
  BY DEF IInv, TypeOK, Pairs
<1>4. /\ kept' \in Seq(Pairs) /\ kept' # <<>> /\ Kept' = copy /\ Len(kept') = Len(kept) + 1
      /\ \A i \in 1..Len(kept) : kept'[i] = kept[i]
  BY <1>1, <1>3 DEF Kept
<1>5. TypeOK'
  BY <1>4 DEF IInv, TypeOK, Preserve, Goto, Places
<1>6. LogInv'
  BY <1>1 DEF IInv, LogInv
<1>7. MadeInv'
  BY <1>1 DEF IInv, MadeInv
<1>8. PlanInv'
  BY <1>1, <1>2, <1>4 DEF IInv, PlanInv
<1>9. BoundInv'
  BY <1>1 DEF IInv, BoundInv
<1>10. PlaceInv'
  BY <1>1, <1>2, <1>4, OpenedLive DEF IInv, PlaceInv, Installing, Copying
<1>11. MigrationInv'
  BY <1>1, <1>2, <1>4, OpenedLive DEF IInv, TypeOK, MigrationInv, PlaceInv, Migration,
     Installing, Copying
<1>12. InstallInv'
  BY <1>1, <1>2, <1>4 DEF IInv, InstallInv, Installing
<1>13. NothingDestroyed'
  BY <1>1 DEF IInv, NothingDestroyed
<1>14. VerdictTrue'
  BY <1>1, <1>2, <1>4, OpenedLive DEF IInv, TypeOK, VerdictTrue
<1> QED  BY <1>5, <1>6, <1>7, <1>8, <1>9, <1>10, <1>11, <1>12, <1>13, <1>14 DEF IInv

\* The preserved pair is what the live pair was, so its work can be opened.
LEMMA MoveWalStep ==
  ASSUME IInv, MoveWal
  PROVE  IInv'
<1>1. /\ UNCHANGED <<snap, lease, plan, bound, made>>
      /\ live' = [live EXCEPT !.wal = None]
      /\ kept' = [kept EXCEPT ![Len(kept)].wal = live.wal]
  BY DEF MoveWal, Others
<1>2. /\ call.at = "wal" /\ call'.at = "shm" /\ call'.job = call.job
      /\ call'.back = call.back /\ call'.before = call.before /\ call'.next = call.next
  BY DEF MoveWal, Goto
<1>3. /\ live' \in Pairs /\ live'.main = live.main /\ live'.wal = None
      /\ LogOf(live') /\ Opened(live') = live.main
  BY <1>1, OpenedLive DEF IInv, Pairs, LogOf, Opened
<1>4. /\ kept \in Seq(Pairs) /\ Len(kept) \in 1..Len(kept) /\ Kept \in Pairs
      /\ Kept = [main |-> live.main, wal |-> None] /\ live \in Pairs
  <2>1. kept \in Seq(Pairs) /\ Len(kept) \in 1..Len(kept) /\ live \in Pairs
    BY <1>2 DEF IInv, TypeOK, InstallInv
  <2>2. Kept \in Pairs
    BY <2>1 DEF Kept
  <2>3. Kept.main = live.main /\ Kept.wal = None
    BY <1>2 DEF IInv, InstallInv
  <2>4. Kept = [main |-> Kept.main, wal |-> Kept.wal]
    BY <2>2 DEF Pairs
  <2> QED  BY <2>1, <2>2, <2>3, <2>4
<1>5. [Kept EXCEPT !.wal = live.wal] = live
  BY <1>4 DEF Pairs
<1>6. /\ kept' \in Seq(Pairs) /\ kept' # <<>> /\ Kept' = live /\ Len(kept') = Len(kept)
      /\ \A i \in 1..Len(kept) : i # Len(kept) => kept'[i] = kept[i]
  BY <1>1, <1>4, <1>5 DEF Kept
<1>7. Opened(Kept) = live.main
  BY <1>4 DEF Opened
<1>8. TypeOK'
  BY <1>1, <1>3, <1>6 DEF IInv, TypeOK, MoveWal, Goto, Places
<1>9. LogInv'
  BY <1>3 DEF LogInv
<1>10. MadeInv'
  BY <1>1, <1>3, OpenedLive DEF IInv, MadeInv
<1>11. PlanInv'
  BY <1>1, <1>2, <1>3, <1>6 DEF IInv, PlanInv
<1>12. BoundInv'
  BY <1>1 DEF IInv, BoundInv
<1>13. PlaceInv'
  BY <1>1, <1>2, <1>3, <1>6, OpenedLive DEF IInv, PlaceInv, Installing, Copying
<1>14. MigrationInv'
  BY <1>1, <1>2, <1>3, <1>6, OpenedLive DEF IInv, TypeOK, MigrationInv, PlaceInv,
     Migration, Installing, Copying, Folded
<1>15. InstallInv'
  BY <1>1, <1>2, <1>3, <1>6, OpenedLive DEF IInv, InstallInv, Installing, LogInv, MadeInv,
     MigrationInv, Migration, Copying
<1>16. NothingDestroyed'
  <2>1. /\ live.main.work \subseteq Opened(live).work /\ Opened(live) # None
        /\ Opened(kept'[Len(kept')]) = Opened(live)
    BY <1>6, OpenedLive DEF IInv, Kept
  <2> QED  BY <1>1, <1>4, <1>6, <2>1 DEF IInv, NothingDestroyed, Kept
<1>17. VerdictTrue'
  BY <1>1, <1>2, <1>3, <1>6, OpenedLive DEF IInv, TypeOK, VerdictTrue
<1> QED  BY <1>8, <1>9, <1>10, <1>11, <1>12, <1>13, <1>14, <1>15, <1>16, <1>17 DEF IInv

\* The new file replaces a main file whose work is in the preserved pair.
LEMMA ReplaceStep ==
  ASSUME IInv, Replace
  PROVE  IInv'
<1>1. /\ UNCHANGED <<snap, kept, lease, plan, bound, made>>
      /\ live' = [live EXCEPT !.main = call.next]
  BY DEF Replace, Others
<1>2. /\ call.at = "replace" /\ call'.job = call.job
      /\ call'.back = call.back /\ call'.before = call.before
      /\ call'.at = IF call.back THEN "inspect" ELSE "reopen"
      /\ call.next \in Contents
  BY DEF IInv, Replace, Goto, InstallInv, Installing
<1>3. /\ live' \in Pairs /\ live'.main = call.next /\ live'.wal = None
      /\ LogOf(live') /\ Folded(live') /\ Opened(live') = call.next
  BY <1>1, <1>2, OpenedLive DEF IInv, InstallInv, Pairs, LogOf, Folded, Opened
<1>4. /\ live.wal = None /\ Opened(live) = live.main
      /\ kept \in Seq(Pairs) /\ Len(kept) \in 1..Len(kept)
      /\ Kept \in Pairs /\ LogOf(Kept) /\ Kept.main = live.main
  BY <1>2, OpenedLive DEF IInv, TypeOK, InstallInv, Kept
<1>5. call.back => call.next = snap /\ snap # None
  BY <1>2 DEF IInv, InstallInv, Installing
<1>6. ~call.back => /\ call.job \in {"migrate", "bound"} /\ Opened(live) = call.before
                    /\ call.next = [call.before EXCEPT !.schema = @ + 1]
                    /\ call.next.work = Opened(live).work
  BY <1>2, OpenedLive DEF IInv, TypeOK, PlaceInv, MigrationInv, Migration, Installing,
     Jobs, Contents
<1>7. Migration => snap = call.before
  BY <1>2 DEF IInv, MigrationInv, Installing
<1>8. TypeOK'
  BY <1>1, <1>3 DEF IInv, TypeOK, Replace, Goto, Places
<1>9. LogInv'
  BY <1>1, <1>2, <1>3 DEF LogInv
<1>10. MadeInv'
  BY <1>1, <1>2, <1>3, <1>5, <1>6 DEF IInv, MadeInv
<1>11. PlanInv'
  BY <1>1, <1>2, <1>3, <1>4, <1>5, <1>6, <1>7 DEF IInv, PlanInv
<1>12. BoundInv'
  BY <1>1, <1>2, <1>4, <1>5, <1>6 DEF IInv, BoundInv
<1>13. PlaceInv'
  BY <1>1, <1>2, <1>3, <1>4, <1>5, <1>6, <1>7, OpenedLive DEF IInv, PlaceInv, Copying
<1>14. MigrationInv'
  BY <1>1, <1>2, <1>3, <1>4, <1>5, <1>6, <1>7, OpenedLive DEF IInv, TypeOK, MigrationInv,
     PlaceInv, Migration, Installing, Copying
<1>15. InstallInv'
  BY <1>1, <1>2, <1>3, <1>4, <1>5, <1>6, <1>7, OpenedLive DEF IInv, TypeOK, InstallInv,
     Installing
<1>16. NothingDestroyed'
  <2>1. Opened(Kept) # None /\ Opened(live).work \subseteq Opened(Kept).work
    BY <1>4, OpenedPair
  <2> QED  BY <1>1, <1>4, <2>1 DEF IInv, NothingDestroyed, Kept
<1>17. VerdictTrue'
  BY <1>1, <1>2, <1>3, <1>4, <1>5, <1>6, <1>7, OpenedLive DEF IInv, TypeOK, VerdictTrue
<1> QED  BY <1>8, <1>9, <1>10, <1>11, <1>12, <1>13, <1>14, <1>15, <1>16, <1>17 DEF IInv

\* The log goes back to its file, or stays beside the preserved one.
LEMMA ReplaceFailsStep ==
  ASSUME IInv, ReplaceFails
  PROVE  IInv'
<1>1. UNCHANGED <<snap, lease, plan, bound, made>>
  BY DEF ReplaceFails, Others
<1>2. /\ call.at = "replace" /\ call'.job = call.job
      /\ call'.back = call.back /\ call'.before = call.before
      /\ call'.at = IF call.back /\ call.job # "restore" THEN "recovery" ELSE "raise"
  BY DEF ReplaceFails, Goto, Failed
<1>3. /\ live.wal = None /\ Opened(live) = live.main
      /\ kept \in Seq(Pairs) /\ Len(kept) \in 1..Len(kept)
      /\ Kept \in Pairs /\ LogOf(Kept) /\ Kept.main = live.main
      /\ Opened(Kept).work \subseteq made
      /\ Migration => Folded(Kept)
  BY <1>2, OpenedLive DEF IInv, TypeOK, InstallInv, Kept
<1>4. CASE UNCHANGED <<live, kept>>
  <2>1. TypeOK'
    BY <1>1, <1>4 DEF IInv, TypeOK, ReplaceFails, Goto, Failed, Places, Ends
  <2>2. LogInv'
    BY <1>4 DEF IInv, LogInv
  <2>3. MadeInv'
    BY <1>1, <1>4 DEF IInv, MadeInv
  <2>4. PlanInv'
    BY <1>1, <1>2, <1>3, <1>4 DEF IInv, PlanInv
  <2>5. BoundInv'
    BY <1>1, <1>4 DEF IInv, BoundInv
  <2>6. PlaceInv'
    BY <1>1, <1>2, <1>3, <1>4, OpenedLive DEF IInv, PlaceInv, Installing, Copying
  <2>7. MigrationInv'
    BY <1>1, <1>2, <1>3, <1>4, OpenedLive DEF IInv, TypeOK, MigrationInv, PlaceInv,
       Migration, Installing, Copying
  <2>8. InstallInv'
    BY <1>1, <1>2, <1>3, <1>4, OpenedLive DEF IInv, TypeOK, InstallInv, Installing
  <2>9. NothingDestroyed'
    BY <1>1, <1>4 DEF IInv, NothingDestroyed
  <2>10. VerdictTrue'
    BY <1>1, <1>2, <1>3, <1>4, OpenedLive DEF IInv, TypeOK, VerdictTrue, MigrationInv,
       Migration, Installing
  <2> QED  BY <2>1, <2>2, <2>3, <2>4, <2>5, <2>6, <2>7, <2>8, <2>9, <2>10 DEF IInv
<1>5. CASE /\ live' = [live EXCEPT !.wal = Kept.wal]
            /\ kept' = [kept EXCEPT ![Len(kept)].wal = None]
  <2>1. live' = Kept /\ live' \in Pairs /\ live'.main = live.main /\ LogOf(live')
    BY <1>3, <1>5, OpenedLive DEF IInv, Pairs
  <2>2. Opened(live') = Opened(Kept) /\ live.main.work \subseteq Opened(live').work
        /\ Opened(live').schema = Opened(live).schema
        /\ (Folded(Kept) => Folded(live') /\ Opened(live') = Opened(live))
    BY <1>3, <2>1, OpenedPair
  <2>3. [Kept EXCEPT !.wal = None] \in Pairs
    BY <1>3 DEF Pairs
  <2>4. /\ kept' \in Seq(Pairs) /\ Len(kept') = Len(kept)
        /\ \A i \in 1..Len(kept) : i # Len(kept) => kept'[i] = kept[i]
    BY <1>3, <1>5, <2>3 DEF Kept
  <2>5. TypeOK'
    BY <1>1, <2>1, <2>4 DEF IInv, TypeOK, ReplaceFails, Goto, Failed, Places, Ends
  <2>6. LogInv'
    BY <2>1 DEF LogInv
  <2>7. MadeInv'
    BY <1>1, <1>3, <2>2 DEF IInv, MadeInv
  <2>8. PlanInv'
    BY <1>1, <1>2, <1>3, <2>1, <2>2 DEF IInv, PlanInv
  <2>9. BoundInv'
    BY <1>1, <2>1 DEF IInv, BoundInv
  <2>10. PlaceInv'
    BY <1>1, <1>2, <1>3, <2>1, <2>2, OpenedLive DEF IInv, PlaceInv, Installing, Copying
  <2>11. MigrationInv'
    BY <1>1, <1>2, <1>3, <2>1, <2>2, OpenedLive DEF IInv, TypeOK, MigrationInv, PlaceInv,
       Migration, Installing, Copying
  <2>12. InstallInv'
    BY <1>1, <1>2, <1>3, <2>1, <2>2, OpenedLive DEF IInv, TypeOK, InstallInv, Installing
  <2>13. NothingDestroyed'
    BY <1>1, <1>3, <2>2, <2>4 DEF IInv, NothingDestroyed, Kept
  <2>14. VerdictTrue'
    BY <1>1, <1>2, <1>3, <2>1, <2>2, OpenedLive DEF IInv, TypeOK, VerdictTrue,
       MigrationInv, Migration, Installing
  <2> QED  BY <2>5, <2>6, <2>7, <2>8, <2>9, <2>10, <2>11, <2>12, <2>13, <2>14 DEF IInv
<1> QED  BY <1>4, <1>5 DEF ReplaceFails

-----------------------------------------------------------------------------
(* The theorems *)

\* The initial state has all of it.
LEMMA InitIInv == Init => IInv
<1> SUFFICES ASSUME Init
             PROVE  IInv
  OBVIOUS
<1>1. live.main \in Contents /\ live.main.work = {} /\ live.wal = None /\ live \in Pairs
  BY DEF Init, Pairs, Contents
<1>2. Opened(live) = live.main
  BY <1>1 DEF Opened
<1>3. call.job = None /\ call.at = "idle" /\ ~call.back
  BY DEF Init, Idle
<1>4. TypeOK
  <2>1. kept \in Seq(Pairs)
    BY DEF Init
  <2>2. call \in [job : Jobs \cup {None}, at : Places \cup {"idle"}, next : Contents \cup {None},
                  back : BOOLEAN, before : Contents \cup {None}]
    BY DEF Init, Idle
  <2> QED  BY <1>1, <2>1, <2>2 DEF Init, TypeOK
<1>5. LogInv /\ MadeInv /\ PlanInv /\ BoundInv
  BY <1>1, <1>2, <1>3 DEF Init, LogInv, LogOf, MadeInv, PlanInv, BoundInv
<1>6. PlaceInv /\ InstallInv
  BY <1>3 DEF PlaceInv, InstallInv, Jobs, Copying, Installing
<1>7. MigrationInv
  BY <1>3 DEF MigrationInv, Migration, Jobs
<1>8. NothingDestroyed /\ VerdictTrue
  BY <1>3 DEF Init, NothingDestroyed, VerdictTrue
<1> QED  BY <1>4, <1>5, <1>6, <1>7, <1>8 DEF IInv

\* Nothing of it is affected by steps of others.
LEMMA StutterIInv ==
  ASSUME IInv, UNCHANGED vars
  PROVE  IInv'
<1>1. UNCHANGED <<live, snap, kept, lease, plan, bound, call, made>>
  BY DEF vars
<1>2. TypeOK' /\ LogInv' /\ MadeInv' /\ PlanInv' /\ BoundInv'
  BY <1>1 DEF IInv, TypeOK, LogInv, MadeInv, PlanInv, BoundInv
<1>3. PlaceInv' /\ MigrationInv' /\ InstallInv'
  BY <1>1 DEF IInv, PlaceInv, MigrationInv, InstallInv, Migration, Kept
<1>4. NothingDestroyed' /\ VerdictTrue'
  BY <1>1 DEF IInv, NothingDestroyed, VerdictTrue
<1> QED  BY <1>2, <1>3, <1>4 DEF IInv

\* Every step preserves it.
LEMMA NextIInv ==
  ASSUME IInv, [Next]_vars
  PROVE  IInv'
<1>1. CASE UNCHANGED vars
  BY <1>1, StutterIInv
<1>2. CASE \E c \in Commits : Commit(c)
  BY <1>2, CommitStep
<1>3. CASE Launch \/ Checkpoint \/ CallSnapshot \/ Quit
  BY <1>3, LaunchStep, CheckpointStep, CallSnapshotStep, QuitStep
<1>4. CASE WriteCopy \/ InstallCopy \/ CopyFails \/ CloseStore
  BY <1>4, WriteCopyStep, InstallCopyStep, CopyFailsStep, CloseStoreStep
<1>5. CASE PlanMigration \/ CallMigrate \/ Apply \/ Stage \/ Reopen \/ RestoreFromSnapshot
  BY <1>5, PlanMigrationStep, CallMigrateStep, ApplyStep, StageStep, ReopenStep,
     RestoreFromSnapshotStep
<1>6. CASE InstallFails \/ Preserve \/ MoveWal \/ MoveShm \/ Replace \/ ReplaceFails
             \/ InspectInstalled
  BY <1>6, InstallFailsStep, PreserveStep, MoveWalStep, MoveShmStep, ReplaceStep,
     ReplaceFailsStep, InspectInstalledStep
<1>7. CASE CallRestore \/ Return \/ Compensate \/ Settle \/ KeepHold \/ End
  BY <1>7, CallRestoreStep, ReturnStep, CompensateStep, SettleStep, KeepHoldStep, EndStep
<1> QED  BY <1>1, <1>2, <1>3, <1>4, <1>5, <1>6, <1>7 DEF Next

\* The inductive invariant holds in every reachable state.
THEOREM FilesInvariant == Spec => []IInv
<1>1. Init => IInv
  BY InitIInv
<1>2. IInv /\ [Next]_vars => IInv'
  BY NextIInv
<1> QED  BY <1>1, <1>2, PTL DEF Spec

\* Every commit ever made can be opened in the live database or in a preserved
\* one, wherever snapshots, migrations and restores are cut off or fail.
THEOREM NothingIsDestroyed == Spec => []NothingDestroyed
<1>1. IInv => NothingDestroyed
  BY DEF IInv
<1> QED  BY <1>1, FilesInvariant, PTL

\* What migrate, restore_snapshot and the update's migrator report of the files
\* is what opening them shows.
THEOREM VerdictsAreTrue == Spec => []VerdictTrue
<1>1. IInv => VerdictTrue
  BY DEF IInv
<1> QED  BY <1>1, FilesInvariant, PTL

-----------------------------------------------------------------------------
(* The refinement *)

\* A step of a migration that leaves the main file alone does not change what
\* opening the database shows: the log beside it adds nothing.
LEMMA FoldedStep ==
  ASSUME IInv, IInv', Migration, Migration', call.at \notin Copying, call'.at \notin Copying,
         live'.main = live.main
  PROVE  Opened(live') = Opened(live)
<1>1. Folded(live) /\ Folded(live')
  BY DEF IInv, MigrationInv
<1>2. live \in Pairs /\ LogOf(live) /\ live' \in Pairs /\ LogOf(live')
  BY DEF IInv, TypeOK, LogInv
<1> QED  BY <1>1, <1>2, OpenedPair

\* While a restore by hand is under way any state may show; the snapshot stays.
LEMMA RestoreRefines ==
  ASSUME IInv, IInv', Next, call.job = "restore"
  PROVE  Abstract!Restore
<1>1. live' \in Pairs /\ LogOf(live')
  BY DEF IInv, TypeOK, LogInv
<1>2. Opened(live') \in Abstract!Contents
  BY <1>1, OpenedPair DEF Contents, Abstract!Contents
<1>3. call.at # "install" /\ call.at # "running" /\ call.at # "idle"
  BY DEF IInv, PlaceInv, Copying, Jobs
<1>4. snap' = snap
  BY <1>3 DEF Next, Others, Launch, Checkpoint, CallSnapshot, Quit, Commit, WriteCopy,
     InstallCopy, CopyFails, CloseStore, PlanMigration, CallMigrate, Apply, Stage, Reopen,
     RestoreFromSnapshot, InstallFails, Preserve, MoveWal, MoveShm, Replace, ReplaceFails,
     InspectInstalled, CallRestore, Return, Compensate, Settle, KeepHold, End
<1> QED  BY <1>2, <1>4 DEF Abstract!Restore

\* Nothing but CallRestore begins a restore.
LEMMA JobStep ==
  ASSUME IInv, Next, ~CallRestore, call.job # "restore"
  PROVE  call'.job # "restore"
<1>1. None # "restore"
  BY DEF Jobs
<1>2. CASE Launch \/ CallMigrate \/ Apply \/ Compensate
  <2>1. CASE Launch \/ CallMigrate \/ Apply
    BY <2>1 DEF Launch, CallMigrate, Apply, Begin
  <2>2. CASE Compensate
    BY <2>2 DEF Compensate
  <2> QED  BY <1>2, <2>1, <2>2
<1>3. CASE Quit \/ Return \/ Settle \/ End
  <2>1. call' = Idle
    BY <1>3 DEF Quit, Return, Settle, End
  <2> QED  BY <1>1, <2>1 DEF Idle
<1>4. CASE Checkpoint \/ PlanMigration \/ \E c \in Commits : Commit(c)
  BY <1>4 DEF Checkpoint, PlanMigration, Commit
<1>5. CASE CallSnapshot \/ WriteCopy \/ InstallCopy \/ CopyFails \/ CloseStore
  BY <1>5 DEF IInv, TypeOK, CallSnapshot, WriteCopy, InstallCopy, CopyFails, CloseStore,
     Snapshotted, Goto
<1>6. CASE Stage \/ Reopen \/ RestoreFromSnapshot \/ InstallFails \/ Preserve
  BY <1>6 DEF IInv, TypeOK, Stage, Reopen, RestoreFromSnapshot, InstallFails, Preserve,
     Goto
<1>7. CASE MoveWal \/ MoveShm \/ Replace \/ ReplaceFails \/ InspectInstalled \/ KeepHold
  BY <1>7 DEF IInv, TypeOK, MoveWal, MoveShm, Replace, ReplaceFails, InspectInstalled,
     KeepHold, Goto
<1> QED  BY <1>2, <1>3, <1>4, <1>5, <1>6, <1>7 DEF Next

\* Outside a restore by hand every step is a step of the one database, or none.
LEMMA StepRefines ==
  ASSUME IInv, IInv', Next, call.job # "restore"
  PROVE  Abstract!Next \/ UNCHANGED Abstract!vars
<1> DEFINE Same == Opened(live') = Opened(live) /\ snap' = snap
<1>1. CASE CallRestore
  <2>1. live' = live /\ snap' = snap /\ call'.job = "restore"
    BY <1>1 DEF CallRestore, Begin
  <2> QED  BY <2>1 DEF Abstract!Next, Abstract!BeginRestore
<1>2. ASSUME ~CallRestore
      PROVE  call'.job # "restore"
  BY <1>2, JobStep
<1>3. ASSUME ~CallRestore, Same
      PROVE  UNCHANGED Abstract!vars
  BY <1>2, <1>3 DEF Abstract!vars
<1>4. CASE Launch \/ CallSnapshot \/ WriteCopy \/ CopyFails \/ PlanMigration \/ CallMigrate
             \/ Apply \/ Stage \/ RestoreFromSnapshot \/ InstallFails \/ Preserve \/ MoveShm
             \/ InspectInstalled \/ Return \/ Compensate \/ Settle \/ KeepHold \/ End
  <2>1. UNCHANGED <<live, snap>>
    BY <1>4 DEF Others, Launch, CallSnapshot, WriteCopy, CopyFails, PlanMigration,
       CallMigrate, Apply, Stage, RestoreFromSnapshot, InstallFails, Preserve, MoveShm,
       InspectInstalled, Return, Compensate, Settle, KeepHold, End
  <2> QED  BY <1>1, <1>3, <2>1
<1>5. CASE Checkpoint \/ CloseStore \/ Quit
  <2>1. live' = Checkpointed /\ snap' = snap
    BY <1>5 DEF Checkpoint, CloseStore, Quit
  <2> QED  BY <1>1, <1>3, <2>1, OpenedLive DEF IInv
<1>6. CASE Reopen \/ MoveWal \/ ReplaceFails
  <2>1. /\ live'.main = live.main /\ snap' = snap /\ call'.job = call.job
        /\ call.at \in {"reopen", "wal", "replace"}
        /\ call'.at \in {"done", "restore", "shm", "recovery", "raise"}
    BY <1>6, OpenedLive DEF IInv, TypeOK, Pairs, Reopen, MoveWal, ReplaceFails, Goto,
       Failed
  <2>2. Migration /\ Migration'
    BY <2>1 DEF IInv, TypeOK, PlaceInv, Migration, Installing, Jobs
  <2>3. Opened(live') = Opened(live)
    BY <2>1, <2>2, FoldedStep DEF Copying
  <2> QED  BY <1>1, <1>3, <2>1, <2>3
<1>7. CASE \E c \in Commits : Commit(c)
  <2>1. PICK c \in Commits : Commit(c)
    BY <1>7
  <2> DEFINE top == [Opened(live) EXCEPT !.work = @ \cup {c}]
  <2>2. /\ live' = [live EXCEPT !.wal = [base |-> live.main, top |-> top]]
        /\ snap' = snap /\ call' = call /\ c \notin Opened(live).work
    BY <2>1 DEF Commit, IInv, MadeInv
  <2>3. [base |-> live.main, top |-> top] \in Logs
    BY OpenedLive DEF IInv, Contents, Logs
  <2>4. Opened(live') = top
    BY <2>2, <2>3, OpenedLive DEF IInv, Pairs, Opened
  <2> QED  BY <2>2, <2>4 DEF Abstract!Next, Abstract!Commit
<1>8. CASE InstallCopy
  <2>1. snap' = Opened(live) /\ live' = live /\ ~CallRestore
    BY <1>8 DEF InstallCopy, CallRestore, IInv, InstallInv
  <2> QED  BY <1>2, <2>1 DEF Abstract!Next, Abstract!TakeSnapshot
<1>9. CASE Replace
  <2>1. /\ call.at = "replace" /\ snap' = snap /\ call'.job = call.job
        /\ call'.back = call.back /\ call'.before = call.before
        /\ call'.at = IF call.back THEN "inspect" ELSE "reopen"
    BY <1>9 DEF Replace, Goto
  <2>2. Migration /\ Migration'
    BY <2>1 DEF IInv, TypeOK, PlaceInv, Migration, Jobs
  <2>3. CASE call.back
    <3>1. snap = call.before /\ call.before # None /\ Opened(live).work = call.before.work
      BY <2>1, <2>2 DEF IInv, MigrationInv
    <3>2. Opened(live') = snap
      BY <2>1, <2>3 DEF IInv, InstallInv
    <3> QED  BY <2>1, <3>1, <3>2 DEF Abstract!Next, Abstract!RollBack
  <2>4. CASE ~call.back
    <3>1. Opened(live) = call.before
      BY <2>1, <2>2, <2>4 DEF IInv, MigrationInv, Installing
    <3>2. Opened(live') = [call.before EXCEPT !.schema = @ + 1]
      BY <2>1, <2>2, <2>4 DEF IInv, MigrationInv
    <3> QED  BY <2>1, <3>1, <3>2 DEF Abstract!Next, Abstract!Migrate
  <2> QED  BY <2>3, <2>4
<1> QED  BY <1>1, <1>4, <1>5, <1>6, <1>7, <1>8, <1>9 DEF Next

\* From outside the database is replaced in one step: a migration that is cut
\* off anywhere leaves the old or the new schema with all the work, a rollback
\* brings back the snapshot that has it, and nothing else changes what is seen.
THEOREM FilesImplementAtomicDatabase == Spec => ImplementsAtomicDatabase
<1>1. Init => Abstract!Init
  BY DEF Init, Idle, Opened, Abstract!Init, Jobs
<1>2. IInv /\ IInv' /\ [Next]_vars => [Abstract!Next]_(Abstract!vars)
  <2> SUFFICES ASSUME IInv, IInv', [Next]_vars
               PROVE  Abstract!Next \/ UNCHANGED Abstract!vars
    OBVIOUS
  <2>1. CASE UNCHANGED vars
    BY <2>1 DEF vars, Abstract!vars
  <2>2. CASE Next /\ call.job = "restore"
    BY <2>2, RestoreRefines DEF Abstract!Next
  <2>3. CASE Next /\ call.job # "restore"
    BY <2>3, StepRefines
  <2> QED  BY <2>1, <2>2, <2>3
<1> QED  BY <1>1, <1>2, FilesInvariant, PTL DEF Spec, ImplementsAtomicDatabase, Abstract!Spec
=============================================================================
