--------------------------- MODULE UpdateCoordinator ---------------------------
(***************************************************************************)
(* n0te2/update.py and n0te2/safe_update.py: updates of the installed       *)
(* package for one profile, beside the runtimes that use the profile.       *)
(*                                                                         *)
(* A process is one exact launch.  The profile's lease (`hold') is shared   *)
(* by the runtimes and the updates; a second lease (`coord') coordinates    *)
(* updates.  A lease here is what MutualExclusion in ApplicationRuntime-    *)
(* Proofs allows it to be: one owner, replaced only after its end.  What a  *)
(* process has in `call' are the local variables of prepare() or apply().   *)
(* A journal file is replaced atomically, so a transition is one action;    *)
(* OneWriter says why its read and its write see the same journal.          *)
(* Beside the updates there are the two that also replace the one recovery   *)
(* snapshot of a profile and never look at an update journal:                *)
(* RecoveryManager.create_snapshot of a runtime, and the standalone migrate  *)
(* of n0te2/migration.py, which also changes the schema version.             *)
(***************************************************************************)
EXTENDS Naturals, Sequences, FiniteSets, SequencesExt

CONSTANTS
  Process,      \* exact launches of the application
  Update,       \* update ids
  MaxWork,      \* bound: commits of creative work
  MaxFailures,  \* bound: journal writes that fail
  MaxSchema,    \* bound: versions a standalone migration goes to
  None

ASSUME UpdateAssumption == MaxWork \in Nat /\ MaxFailures \in Nat /\ MaxSchema \in Nat

VARIABLES
  alive,     \* processes that have not ended
  hold,      \* owner of the profile's lease
  coord,     \* owner of the profile's update lease
  rt,        \* state of each process's ApplicationRuntime
  call,      \* the prepare() or apply() a process is in
  journal,   \* update journals
  bound,     \* updates with a schema binding on disk
  db,        \* the live database: commits of work it holds, schema version
  snap,      \* the one recovery snapshot of the profile
  package,   \* the releases parts of which are installed
  asked,     \* history: what was asked of the package driver, and its answers
  worked,    \* history: commits of work by runtimes
  due,       \* history: the schema version the last standalone migration left, or the
             \* last update that validated its own
  failures   \* journal writes that failed

vars == <<alive, hold, coord, rt, call, journal, bound, db, snap, package,
          asked, worked, due, failures>>

\* Release n comes with semantic schema n; a profile may be ahead of its package.
Release  == Nat
Database == [work : Nat, schema : Release]

Settled  == {"SUCCEEDED", "FAILED_SAFE", "ROLLED_BACK"}
InFlight == {"INSTALLING", "VALIDATING", "ROLLING_BACK", "RESTORING", "FINALIZING"}
States   == Settled \cup InFlight \cup {"PREPARED", "RECOVERY_REQUIRED"}

InstallStates  == {"SUCCEEDED", "FAILED_SAFE", "FAILED_CHANGED", "UNKNOWN"}
RollbackStates == {"SUCCEEDED", "FAILED", "UNKNOWN"}

Journal == [from : Release, snapshot : Database, history : Seq(States),
            install : InstallStates \cup {"none"}, rollback : RollbackStates \cup {"none"},
            restored : BOOLEAN]

ASSUME NoneAssumption == None \notin Process \cup Update \cup Database \cup Journal

Preparing == {"scan", "snapshot", "quit", "fingerprint", "writePlan", "endPrepare",
              "markPrepare", "bind"}
Applying  == {"coordinate", "recheck", "hold", "verify", "begin", "install", "recordInstall",
              "migrate", "open", "compensate", "rollback", "recordRollback", "restore",
              "recordRestore", "releaseHold", "releaseCoord", "settle", "mark", "finish",
              "unexpected", "dropHold", "dropCoord", "guard", "guardMark"}

\* What a process keeps in prepare() and apply(): where it is, the update, the snapshot
\* it took, and what the last call of the driver or of the recovery came to.
Calls == [at : Preparing \cup Applying \cup {"idle"}, upd : Update \cup {None},
          copy : Database \cup {None},
          outcome : InstallStates \cup RollbackStates \cup Settled \cup {"none", "raised"}]

Asked == [by : Process, action : {"INSTALL", "ROLLBACK"},
          answer : InstallStates \cup RollbackStates \cup {"raised"}]

Idle == [at |-> "idle", upd |-> None, copy |-> None, outcome |-> "none"]

TypeOK ==
  /\ alive \subseteq Process
  /\ hold \in Process \cup {None}
  /\ coord \in Process \cup {None}
  /\ rt \in [Process -> {"STOPPED", "RUNNING", "RECOVERY_REQUIRED"}]
  /\ call \in [Process -> Calls]
  /\ journal \in [Update -> Journal \cup {None}]
  /\ bound \subseteq Update
  /\ db \in Database
  /\ snap \in Database \cup {None}
  /\ package \subseteq Release
  /\ asked \in [Update -> Seq(Asked)]
  /\ worked \in 0..MaxWork
  /\ due \in Release
  /\ failures \in 0..MaxFailures

Init ==
  /\ alive = Process
  /\ hold = None
  /\ coord = None
  /\ rt = [p \in Process |-> "STOPPED"]
  /\ call = [p \in Process |-> Idle]
  /\ journal = [u \in Update |-> None]
  /\ bound = {}
  /\ db = [work |-> 0, schema |-> 1]
  /\ snap = None
  /\ package = {1}
  /\ asked = [u \in Update |-> <<>>]
  /\ worked = 0
  /\ due = 1
  /\ failures = 0

Exists(u)     == journal[u] # None
StateOf(u)    == Last(journal[u].history)
Unresolved(u) == Exists(u) /\ StateOf(u) \notin Settled
Target(u)     == journal[u].from + 1

-----------------------------------------------------------------------------
(* Leases and control flow *)

At(p, where)     == p \in alive /\ call[p].at = where
Becomes(p, c)    == call' = [call EXCEPT ![p] = c]
Goto(p, where)   == call' = [call EXCEPT ![p].at = where]
Leave(p)         == Becomes(p, Idle)

Disk     == <<journal, bound, db, snap, package, failures>>
World    == <<alive, rt, asked, worked, due>>
Leases   == <<hold, coord>>

\* InstanceLeaseManager.acquire may take a lease nobody alive has.
Free(lease) == lease \notin alive

\* _transition: append the state with its evidence, or fail to write it.
Then == [INSTALLING |-> "install", VALIDATING |-> "migrate", ROLLING_BACK |-> "rollback",
         RESTORING |-> "restore", FINALIZING |-> "releaseHold", RECOVERY_REQUIRED |-> "finish"]

Write(u, j, state) == journal' = [journal EXCEPT ![u] = [j EXCEPT !.history = Append(@, state)]]

WriteFails ==
  /\ failures < MaxFailures
  /\ failures' = failures + 1
  /\ UNCHANGED journal

Transition(p, j, state) ==
  /\ \/ /\ Write(call[p].upd, j, state) /\ UNCHANGED failures
        /\ Goto(p, Then[state])
     \/ WriteFails /\ Goto(p, "unexpected")
  /\ UNCHANGED <<Leases, World, bound, db, snap, package>>

-----------------------------------------------------------------------------
(* Runtimes of the profile *)

\* launch and quit of ApplicationRuntime, each as a whole.
Launch(p) ==
  /\ At(p, "idle") /\ rt[p] = "STOPPED" /\ Free(hold)
  /\ hold' = p
  /\ rt' = [rt EXCEPT ![p] = "RUNNING"]
  /\ UNCHANGED <<alive, coord, call, Disk, asked, worked, due>>

QuitResult(p) ==
  \/ /\ rt' = [rt EXCEPT ![p] = "STOPPED"]
     /\ hold' = None
  \/ /\ rt' = [rt EXCEPT ![p] = "RECOVERY_REQUIRED"]
     /\ UNCHANGED hold

Quit(p) ==
  /\ At(p, "idle") /\ rt[p] # "STOPPED"
  /\ QuitResult(p)
  /\ UNCHANGED <<alive, coord, call, Disk, asked, worked, due>>

\* A commit of the artist's work, also while an update is being prepared.
Work(p) ==
  /\ p \in alive /\ rt[p] = "RUNNING"
  /\ worked < MaxWork
  /\ worked' = worked + 1
  /\ db' = [db EXCEPT !.work = @ + 1]
  /\ UNCHANGED <<alive, Leases, rt, call, journal, bound, snap, package, asked, due,
                 failures>>

\* The process ends, at any point.
End(p) ==
  /\ p \in alive
  /\ alive' = alive \ {p}
  /\ rt' = [rt EXCEPT ![p] = "STOPPED"]
  /\ UNCHANGED <<Leases, call, Disk, asked, worked, due>>

-----------------------------------------------------------------------------
(* The other owners of the one snapshot *)

\* create_snapshot called by a runtime on its own, at any time.
CreateSnapshot(p) ==
  /\ p \in alive /\ rt[p] = "RUNNING"
  /\ snap' = db
  /\ UNCHANGED <<Leases, call, World, journal, bound, db, package, failures>>

\* ApplicationSchemaMigrator.migrate, under the profile's lease from its snapshot to
\* its end: it fails before the snapshot, changes nothing after it, or migrates; the
\* lease may stay, because its release fails or the process ends before.
MigrateStandalone(p) ==
  /\ At(p, "idle") /\ Free(hold)
  /\ hold' \in {None, p}
  /\ \/ UNCHANGED <<snap, db>>
     \/ /\ snap' = db
        /\ \E version \in db.schema..MaxSchema : db' = [db EXCEPT !.schema = version]
  /\ due' = db'.schema
  /\ UNCHANGED <<alive, coord, rt, call, journal, bound, package, asked, worked, failures>>

-----------------------------------------------------------------------------
(* prepare *)

\* As long as there are update ids left.
CallPrepare(p) ==
  /\ At(p, "idle") /\ rt[p] = "RUNNING" /\ Free(coord)
  /\ \E u \in Update : ~Exists(u)
  /\ coord' = p
  /\ Goto(p, "scan")
  /\ UNCHANGED <<hold, World, Disk>>

\* `if self._blocking_updates(profile_id)'
Scan(p) ==
  /\ At(p, "scan")
  /\ Goto(p, IF \E u \in Update : Unresolved(u) THEN "endPrepare" ELSE "snapshot")
  /\ UNCHANGED <<Leases, World, Disk>>

\* RecoveryManager.create_snapshot replaces the file, or leaves the old one.
Snapshot(p) ==
  /\ At(p, "snapshot")
  /\ \/ snap' = db /\ Becomes(p, [call[p] EXCEPT !.at = "quit", !.copy = db])
     \/ UNCHANGED snap /\ Goto(p, "endPrepare")
  /\ UNCHANGED <<Leases, World, journal, bound, db, package, failures>>

QuitForUpdate(p) ==
  /\ At(p, "quit")
  /\ QuitResult(p)
  /\ Goto(p, IF rt'[p] = "STOPPED" THEN "fingerprint" ELSE "endPrepare")
  /\ UNCHANGED <<alive, coord, Disk, asked, worked, due>>

Fingerprint(p) ==
  /\ At(p, "fingerprint")
  /\ Goto(p, IF db = call[p].copy THEN "writePlan" ELSE "endPrepare")
  /\ UNCHANGED <<Leases, World, Disk>>

\* The plan is from the release that is installed to the next.
WritePlan(p, u) ==
  /\ At(p, "writePlan") /\ ~Exists(u)
  /\ \/ /\ \E release \in package : journal' = [journal EXCEPT ![u] =
             [from |-> release, snapshot |-> call[p].copy, history |-> <<"PREPARED">>,
              install |-> "none", rollback |-> "none", restored |-> FALSE]]
        /\ Becomes(p, [call[p] EXCEPT !.at = "endPrepare", !.upd = u])
        /\ UNCHANGED failures
     \/ WriteFails /\ Goto(p, "endPrepare")
  /\ UNCHANGED <<Leases, World, bound, db, snap, package>>

\* The coordination lease goes back, with a plan or with the error.
EndPrepare(p) ==
  /\ At(p, "endPrepare")
  /\ \/ /\ coord' = None
        /\ IF call[p].upd = None THEN Leave(p) ELSE Goto(p, "bind")
     \/ /\ UNCHANGED coord
        /\ IF call[p].upd = None THEN Leave(p) ELSE Goto(p, "markPrepare")
  /\ UNCHANGED <<hold, World, Disk>>

\* safe_update's prepare: bind the schema program to the update; it never goes back
\* (select_migration_chain).
Bind(p) ==
  /\ At(p, "bind")
  /\ \/ /\ db.schema <= Target(call[p].upd)
        /\ bound' = bound \cup {call[p].upd}
        /\ Leave(p)
     \/ UNCHANGED bound /\ Goto(p, "markPrepare")
  /\ UNCHANGED <<Leases, World, journal, db, snap, package, failures>>

\* A failed release or binding; the transition may fail unnoticed.
MarkPrepare(p) ==
  /\ At(p, "markPrepare")
  /\ \/ Write(call[p].upd, journal[call[p].upd], "RECOVERY_REQUIRED") /\ UNCHANGED failures
     \/ WriteFails
  /\ Leave(p)
  /\ UNCHANGED <<Leases, World, bound, db, snap, package>>

-----------------------------------------------------------------------------
(* apply: up to the first change *)

\* A bug: a missing binding is taken for an empty one.
CallApplyUnbound(p, u) ==
  /\ At(p, "idle")
  /\ Exists(u) /\ StateOf(u) = "PREPARED"
  /\ Becomes(p, [Idle EXCEPT !.at = "coordinate", !.upd = u])
  /\ UNCHANGED <<Leases, World, Disk>>

\* safe_update's apply loads the binding, update's apply a PREPARED journal.
CallApply(p, u) ==
  /\ At(p, "idle")
  /\ u \in bound /\ Exists(u) /\ StateOf(u) = "PREPARED"
  /\ Becomes(p, [Idle EXCEPT !.at = "coordinate", !.upd = u])
  /\ UNCHANGED <<Leases, World, Disk>>

Coordinate(p) ==
  /\ At(p, "coordinate")
  /\ \/ Free(coord) /\ coord' = p /\ Goto(p, "recheck")
     \/ UNCHANGED coord /\ Leave(p)
  /\ UNCHANGED <<hold, World, Disk>>

Recheck(p) ==
  /\ At(p, "recheck")
  /\ Goto(p, IF StateOf(call[p].upd) = "PREPARED" THEN "hold" ELSE "dropCoord")
  /\ UNCHANGED <<Leases, World, Disk>>

\* The runtime's own lease does not count: ALREADY_OWNED is busy.
Hold(p) ==
  /\ At(p, "hold")
  /\ \/ Free(hold) /\ hold' = p /\ Goto(p, "verify")
     \/ UNCHANGED hold /\ Goto(p, "dropCoord")
  /\ UNCHANGED <<coord, World, Disk>>

\* A bug: the snapshot is verified, the live database is not.
VerifySnapshot(p) ==
  /\ At(p, "verify")
  /\ Goto(p, IF snap = journal[call[p].upd].snapshot THEN "begin" ELSE "dropHold")
  /\ UNCHANGED <<Leases, World, Disk>>

Verify(p) ==
  /\ At(p, "verify")
  /\ Goto(p, IF {snap, db} = {journal[call[p].upd].snapshot} THEN "begin" ELSE "dropHold")
  /\ UNCHANGED <<Leases, World, Disk>>

Begin(p) == At(p, "begin") /\ Transition(p, journal[call[p].upd], "INSTALLING")

-----------------------------------------------------------------------------
(* apply: the package driver *)

Ask(p, action, answer, left) ==
  /\ asked' = [asked EXCEPT ![call[p].upd] =
                 Append(@, [by |-> p, action |-> action, answer |-> answer])]
  /\ package' = left
  /\ UNCHANGED <<alive, Leases, rt, journal, bound, db, snap, worked, due, failures>>

\* The driver: a sure answer is true; "raised" is an exception or a receipt
\* _validate_receipt refuses.
Install(p) ==
  LET from == {journal[call[p].upd].from}
      to   == {Target(call[p].upd)} IN
  /\ At(p, "install")
  /\ \E answer \in InstallStates \cup {"raised"}, left \in {from, to, from \cup to} :
       /\ answer = "SUCCEEDED" => left = to
       /\ answer = "FAILED_SAFE" => left = from
       /\ answer = "FAILED_CHANGED" => left # from
       /\ Ask(p, "INSTALL", answer, left)
       /\ Becomes(p, [call[p] EXCEPT !.at = "recordInstall", !.outcome = answer])

\* A bug: an UNKNOWN install is rolled back like a failed one.
LeadsUnknownBack == [SUCCEEDED |-> "VALIDATING", FAILED_SAFE |-> "FINALIZING",
                     FAILED_CHANGED |-> "ROLLING_BACK", UNKNOWN |-> "ROLLING_BACK",
                     raised |-> "RECOVERY_REQUIRED"]

InstallLeads == [SUCCEEDED |-> "VALIDATING", FAILED_SAFE |-> "FINALIZING",
                 FAILED_CHANGED |-> "ROLLING_BACK", UNKNOWN |-> "RECOVERY_REQUIRED",
                 raised |-> "RECOVERY_REQUIRED"]

\* A bug: the transition leaves the receipt out.
RecordInstallBare(p) ==
  /\ At(p, "recordInstall")
  /\ Transition(p, journal[call[p].upd], InstallLeads[call[p].outcome])

RecordInstall(p) ==
  LET a == call[p].outcome IN
  /\ At(p, "recordInstall")
  /\ Transition(p, [journal[call[p].upd] EXCEPT !.install = IF a = "raised" THEN @ ELSE a],
                InstallLeads[a])

\* migrate_under_maintenance: installed and reopened; failed before the install;
\* restored after it; or neither (_SchemaMigrationRecoveryRequired).
Migrate(p) ==
  LET u == call[p].upd
      migrated == [db EXCEPT !.schema = Target(u)] IN
  /\ At(p, "migrate")
  /\ \/ snap = journal[u].snapshot /\ db' = migrated /\ Goto(p, "open")
     \/ UNCHANGED db /\ Goto(p, "compensate")
     \/ snap = journal[u].snapshot /\ db' = snap /\ Goto(p, "compensate")
     \/ db' \in {db, migrated} /\ Goto(p, "guard")
  /\ UNCHANGED <<Leases, World, journal, bound, snap, package, failures>>

\* Open the Headquarters, check it, close it; a close that fails is guarded.
Validate(p) ==
  /\ At(p, "open")
  /\ \/ Transition(p, journal[call[p].upd], "FINALIZING")
     \/ /\ \E where \in {"compensate", "guard"} : Goto(p, where)
        /\ UNCHANGED <<Leases, World, Disk>>

-----------------------------------------------------------------------------
(* _compensate *)

Compensate(p) == At(p, "compensate") /\ Transition(p, journal[call[p].upd], "ROLLING_BACK")

Rollback(p) ==
  LET from == {journal[call[p].upd].from}
      to   == {Target(call[p].upd)} IN
  /\ At(p, "rollback")
  /\ \E answer \in RollbackStates \cup {"raised"}, left \in {from, to, from \cup to} :
       /\ answer = "SUCCEEDED" => left = from
       /\ Ask(p, "ROLLBACK", answer, left)
       /\ Becomes(p, [call[p] EXCEPT !.at = "recordRollback", !.outcome = answer])

RecordRollback(p) ==
  LET a == call[p].outcome IN
  /\ At(p, "recordRollback")
  /\ Transition(p, [journal[call[p].upd] EXCEPT !.rollback = IF a = "raised" THEN @ ELSE a],
                IF a = "SUCCEEDED" THEN "RESTORING" ELSE "RECOVERY_REQUIRED")

\* A bug: a failed restore goes unnoticed.
RestoreSilently(p) ==
  /\ At(p, "restore")
  /\ db' \in {db, snap}
  /\ Becomes(p, [call[p] EXCEPT !.at = "recordRestore", !.outcome = "ROLLED_BACK"])
  /\ UNCHANGED <<Leases, World, journal, bound, snap, package, failures>>

\* restore_snapshot may fail before or after it replaced the live database.
Restore(p) ==
  /\ At(p, "restore")
  /\ \/ /\ snap = journal[call[p].upd].snapshot
        /\ db' = snap
        /\ Becomes(p, [call[p] EXCEPT !.at = "recordRestore", !.outcome = "ROLLED_BACK"])
     \/ /\ db' \in {db, snap}
        /\ Becomes(p, [call[p] EXCEPT !.at = "recordRestore", !.outcome = "raised"])
  /\ UNCHANGED <<Leases, World, journal, bound, snap, package, failures>>

RecordRestore(p) ==
  LET ok == call[p].outcome = "ROLLED_BACK" IN
  /\ At(p, "recordRestore")
  /\ Transition(p, [journal[call[p].upd] EXCEPT !.restored = ok],
                IF ok THEN "FINALIZING" ELSE "RECOVERY_REQUIRED")

-----------------------------------------------------------------------------
(* _finalize, with the terminal state in call[p].outcome *)

ReleaseHold(p) ==
  /\ At(p, "releaseHold")
  /\ \/ hold' = None /\ Goto(p, "releaseCoord")
     \/ UNCHANGED hold /\ Goto(p, "mark")
  /\ due' = IF call[p].outcome = "SUCCEEDED" THEN Target(call[p].upd) ELSE due
  /\ UNCHANGED <<coord, alive, rt, asked, worked, Disk>>

Mark(p) == At(p, "mark") /\ Transition(p, journal[call[p].upd], "RECOVERY_REQUIRED")

\* A release of the coordination that fails is recorded, and not tried again.
ReleaseCoord(p) ==
  /\ At(p, "releaseCoord")
  /\ \/ coord' = None /\ Goto(p, "settle") /\ UNCHANGED <<journal, failures>>
     \/ /\ Write(call[p].upd, journal[call[p].upd], "RECOVERY_REQUIRED")
        /\ Leave(p)
        /\ UNCHANGED <<coord, failures>>
     \/ WriteFails /\ Goto(p, "unexpected") /\ UNCHANGED coord
  /\ UNCHANGED <<hold, World, bound, db, snap, package>>

Settle(p) ==
  /\ At(p, "settle")
  /\ \/ /\ Write(call[p].upd, journal[call[p].upd], call[p].outcome) /\ UNCHANGED failures
        /\ Leave(p)
     \/ WriteFails /\ Goto(p, "unexpected")
  /\ UNCHANGED <<Leases, World, bound, db, snap, package>>

-----------------------------------------------------------------------------
(* The ways out of apply *)

\* A lease that is not the process's any more stays where it is: the failed
\* release is swallowed.
GiveBack(p, lease) == IF lease = p THEN {lease, None} ELSE {lease}

\* A bug: recovery gives the profile back.
FinishReleasing(p) ==
  /\ At(p, "finish")
  /\ coord' \in GiveBack(p, coord)
  /\ hold' \in GiveBack(p, hold)
  /\ Leave(p)
  /\ UNCHANGED <<World, Disk>>

\* _finish_recovery keeps the profile's lease.
Finish(p) ==
  /\ At(p, "finish")
  /\ coord' \in GiveBack(p, coord)
  /\ Leave(p)
  /\ UNCHANGED <<hold, World, Disk>>

\* `except Exception': a journal that cannot be written at all loses the lease.
Unexpected(p) ==
  LET u == call[p].upd IN
  /\ At(p, "unexpected")
  /\ \/ /\ StateOf(u) \in InFlight
        /\ Write(u, journal[u], "RECOVERY_REQUIRED")
        /\ Goto(p, "finish") /\ UNCHANGED failures
     \/ StateOf(u) \in InFlight /\ WriteFails /\ Goto(p, "dropHold")
     \/ StateOf(u) = "PREPARED" /\ Goto(p, "dropHold") /\ UNCHANGED <<journal, failures>>
  /\ UNCHANGED <<Leases, World, bound, db, snap, package>>

DropHold(p) ==
  /\ At(p, "dropHold")
  /\ hold' \in GiveBack(p, hold)
  /\ Goto(p, "dropCoord")
  /\ UNCHANGED <<coord, World, Disk>>

DropCoord(p) ==
  /\ At(p, "dropCoord")
  /\ coord' \in GiveBack(p, coord)
  /\ Leave(p)
  /\ UNCHANGED <<hold, World, Disk>>

\* _finish_guarded_recovery: the coordination goes back before the journal says so.
Guard(p) ==
  /\ At(p, "guard")
  /\ coord' \in GiveBack(p, coord)
  /\ Goto(p, "guardMark")
  /\ UNCHANGED <<hold, World, Disk>>

GuardMark(p) ==
  /\ At(p, "guardMark")
  /\ \/ Write(call[p].upd, journal[call[p].upd], "RECOVERY_REQUIRED") /\ UNCHANGED failures
     \/ WriteFails
  /\ Leave(p)
  /\ UNCHANGED <<Leases, World, bound, db, snap, package>>

-----------------------------------------------------------------------------

\* One step of a prepare() or an apply() in progress.
Step(p) ==
  \/ Scan(p) \/ Snapshot(p) \/ QuitForUpdate(p) \/ Fingerprint(p)
  \/ \E u \in Update : WritePlan(p, u)
  \/ EndPrepare(p) \/ Bind(p) \/ MarkPrepare(p)
  \/ Coordinate(p) \/ Recheck(p) \/ Hold(p) \/ Verify(p) \/ Begin(p)
  \/ Install(p) \/ RecordInstall(p) \/ Migrate(p) \/ Validate(p)
  \/ Compensate(p) \/ Rollback(p) \/ RecordRollback(p) \/ Restore(p) \/ RecordRestore(p)
  \/ ReleaseHold(p) \/ Mark(p) \/ ReleaseCoord(p) \/ Settle(p)
  \/ Finish(p) \/ Unexpected(p) \/ DropHold(p) \/ DropCoord(p) \/ Guard(p) \/ GuardMark(p)

Next == \E p \in Process :
  \/ Step(p) \/ Launch(p) \/ Quit(p) \/ Work(p) \/ End(p) \/ CallPrepare(p)
  \/ CreateSnapshot(p) \/ MigrateStandalone(p)
  \/ \E u \in Update : CallApply(p, u)

Spec == Init /\ [][Next]_vars

\* A call goes on while its process lives: the driver answers.
FairSpec == Spec /\ \A p \in Process : WF_vars(Step(p))

-----------------------------------------------------------------------------
(* Properties *)

\* No commit of the artist's work is lost to an update, although a runtime may work on
\* between snapshot and quit, and between prepare and apply, and although any runtime
\* and any standalone migration may replace the one snapshot before and after: from its
\* check until the restore that may need it, it is the one the update is bound to, of a
\* database that lacks no commit.
Changing == {"begin", "install", "recordInstall", "migrate", "open", "compensate", "rollback",
             "recordRollback", "restore"}

WorkSafe ==
  /\ db.work = worked
  /\ \A p \in alive : call[p].at \in Changing =>
       snap = journal[call[p].upd].snapshot /\ snap.work = worked

\* The package driver is asked once to install, and to roll back only what an
\* answer says was changed: "Ambiguous outcomes ... are never retried or rolled
\* back blindly".
NeverBlindly ==
  \A u \in Update :
    /\ Len(asked[u]) <= 2
    /\ \A i \in DOMAIN asked[u] :
         asked[u][i].action = IF i = 1 THEN "INSTALL" ELSE "ROLLBACK"
    /\ Len(asked[u]) = 2 => asked[u][1].answer \in {"SUCCEEDED", "FAILED_CHANGED"}

\* One release is installed, and the database has the schema it is due.
Whole == (\E release \in package : package = {release}) /\ db.schema = due

\* A runtime works only on a whole package and the database that belongs to it
\* ("a profile-scoped maintenance lease"), unless the process that changed them
\* has ended and left its lease to be replaced.
RunningSeesWhole ==
  \A p \in Process : rt[p] = "RUNNING" =>
    \/ Whole
    \/ \E u \in Update : Unresolved(u) /\ asked[u] # <<>> /\ asked[u][1].by \notin alive

\* A profile never has two unresolved updates (prepare's "profile already has
\* unresolved or prepared update work"), also when processes end in prepare.
OneUnresolved == \A u, v \in Update : Unresolved(u) /\ Unresolved(v) => u = v

\* A journal is written by one living process at a time, although a transition
\* reads it, checks it and replaces the file without a lock of its own.
Writers == {"begin", "recordInstall", "open", "compensate", "recordRollback", "recordRestore",
            "mark", "releaseCoord", "settle", "unexpected", "guardMark", "markPrepare"}

OneWriter ==
  \A p, q \in alive :
    {call[p].at, call[q].at} \subseteq Writers /\ call[p].upd = call[q].upd => p = q

\* Updates of one profile go one after the other: one that is not settled, and one
\* process that writes of it.
OneUpdate == OneUnresolved /\ OneWriter

\* What a settled journal says of the package and the database is so when it is
\* written, although both leases are released before (_finalize): the schema is the one
\* the update migrated to, or went back to, if none came after.
SettledTruth ==
  [][\A u \in Update : Unresolved(u) /\ StateOf(u)' \in Settled =>
       LET release == IF StateOf(u)' = "SUCCEEDED" THEN Target(u) ELSE journal[u].from
       IN  package = {release} /\ db.schema = due]_vars

\* Every journal a transition leads to passes _validate_journal_semantics.
\* _write_journal refuses what does not, so a transition that leaves out its
\* evidence would leave a change of the package unrecorded.
Allowed ==
  [PREPARED |-> {"INSTALLING", "RECOVERY_REQUIRED"},
   INSTALLING |-> {"VALIDATING", "ROLLING_BACK", "FINALIZING", "RECOVERY_REQUIRED"},
   VALIDATING |-> {"ROLLING_BACK", "FINALIZING", "RECOVERY_REQUIRED"},
   ROLLING_BACK |-> {"RESTORING", "RECOVERY_REQUIRED"},
   RESTORING |-> {"FINALIZING", "RECOVERY_REQUIRED"},
   FINALIZING |-> Settled \cup {"RECOVERY_REQUIRED"},
   SUCCEEDED |-> {}, FAILED_SAFE |-> {}, ROLLED_BACK |-> {}, RECOVERY_REQUIRED |-> {}]

Changed(j)     == j.install \in {"SUCCEEDED", "FAILED_CHANGED"}
Compensated(j) == Changed(j) /\ j.rollback = "SUCCEEDED" /\ j.restored
Unrolled(j)    == j.rollback = "none" /\ ~j.restored

Evidenced(j, state) ==
  CASE state = "PREPARED"     -> j.install = "none" /\ Unrolled(j)
    [] state = "INSTALLING"   -> Unrolled(j)
    [] state = "VALIDATING"   -> j.install = "SUCCEEDED" /\ j.rollback = "none"
    [] state = "ROLLING_BACK" -> Changed(j) /\ Unrolled(j)
    [] state = "RESTORING"    -> Changed(j) /\ j.rollback = "SUCCEEDED"
    [] state = "FINALIZING"   -> \/ j.install = "FAILED_SAFE"
                                 \/ j.install = "SUCCEEDED" /\ j.rollback = "none"
                                 \/ Compensated(j)
    [] state = "SUCCEEDED"    -> j.install = "SUCCEEDED" /\ Unrolled(j)
    [] state = "FAILED_SAFE"  -> j.install = "FAILED_SAFE" /\ Unrolled(j)
    [] state = "ROLLED_BACK"  -> Compensated(j)
    [] OTHER                  -> TRUE

JournalReadable ==
  TypeOK /\ \A u \in Update : Exists(u) =>
    LET h == journal[u].history IN
    /\ h # <<>> /\ h[1] = "PREPARED"
    /\ \A i \in 1..Len(h) - 1 : h[i + 1] \in Allowed[h[i]]
    /\ Evidenced(journal[u], StateOf(u))

-----------------------------------------------------------------------------
(* What apply says when it refuses, against what prepare does *)

\* apply refuses the update with "live creative state changed after update preparation;
\* prepare a new update".
Refused(u) ==
  /\ u \in bound /\ StateOf(u) = "PREPARED" /\ db # journal[u].snapshot
  /\ \E p \in alive : call[p].at = "dropHold" /\ call[p].upd = u

\* A lease is left behind by a process that lives on and does nothing more with it.
LeaseLeft ==
  \E p \in Process : call[p].at = "idle" /\ (coord = p \/ (hold = p /\ rt[p] = "STOPPED"))

\* However often prepare and apply are tried again, such an update stops standing
\* in the way of the new one it asks for, as long as there is an id for that one, unless
\* a process ends or leaves a lease.
AdviceCanBeFollowed ==
  \A u \in Update :
    Refused(u) /\ (\E v \in Update : ~Exists(v)) ~> ~Unresolved(u) \/ alive # Process \/ LeaseLeft

\* The users of the application try again as often as they may.
RetrySpec ==
  FairSpec /\ \A p \in Process :
    /\ SF_vars(Launch(p)) /\ SF_vars(Quit(p)) /\ SF_vars(CallPrepare(p))
    /\ \A u \in Update : SF_vars(CallApply(p, u))

-----------------------------------------------------------------------------
(* Why the properties hold: an inductive invariant *)

\* Where a living process has both leases, and where it has one.
Maintaining  == {"verify", "begin", "install", "recordInstall", "migrate", "open", "compensate",
                 "rollback", "recordRollback", "restore", "recordRestore", "releaseHold", "mark",
                 "guard"}
Coordinating == Maintaining \cup {"scan", "snapshot", "quit", "fingerprint", "writePlan",
                                  "endPrepare", "recheck", "hold", "releaseCoord"}
Keeping      == Maintaining \cup {"guardMark"}

\* Where its own runtime is stopped: the profile's lease was free when it took it.
Stopped == Keeping \cup {"releaseCoord", "settle", "finish", "unexpected", "dropHold"}

LeaseOf(p) ==
  /\ call[p].at \in Coordinating => coord = p
  /\ call[p].at \in Keeping => hold = p
  /\ call[p].at \in Stopped => rt[p] = "STOPPED"
  /\ call[p].at \in {"scan", "snapshot", "quit"} => rt[p] = "RUNNING"

LeaseInv ==
  /\ \A p \in alive : LeaseOf(p)
  /\ \A p \in Process : rt[p] # "STOPPED" => p \in alive /\ hold = p

\* The state in which the journal of an update is where its apply() is.
Reached == [hold |-> {"PREPARED"}, verify |-> {"PREPARED"}, begin |-> {"PREPARED"},
            install |-> {"INSTALLING"}, recordInstall |-> {"INSTALLING"},
            migrate |-> {"VALIDATING"}, open |-> {"VALIDATING"}, compensate |-> {"VALIDATING"},
            guard |-> {"VALIDATING"}, guardMark |-> {"VALIDATING"},
            rollback |-> {"ROLLING_BACK"}, recordRollback |-> {"ROLLING_BACK"},
            restore |-> {"RESTORING"}, recordRestore |-> {"RESTORING"},
            releaseHold |-> {"FINALIZING"}, mark |-> {"FINALIZING"},
            releaseCoord |-> {"FINALIZING"}, settle |-> {"FINALIZING"},
            unexpected |-> {"PREPARED"} \cup InFlight, finish |-> {"RECOVERY_REQUIRED"}]

\* Where a process is the only one to write the journal of its update, or has put an end
\* to it.
Writing == DOMAIN Reached \ {"hold", "verify", "begin"}

\* What a process has planned and not bound is nobody else's.
Planned(p) ==
  call[p].at \in {"bind", "markPrepare"} \/ (call[p].at = "endPrepare" /\ call[p].upd # None)

PlannedOK(p) ==
  LET u == call[p].upd IN
  /\ u \in Update \ bound /\ Exists(u) /\ StateOf(u) = "PREPARED"
  /\ \A q \in alive : call[q].upd = u => q = p

PlaceOf(p) ==
  LET at == call[p].at  u == call[p].upd IN
  /\ at \in {"idle", "scan", "snapshot", "quit", "fingerprint", "writePlan"} => u = None
  /\ at \in {"snapshot", "quit", "fingerprint", "writePlan"} => \A v \in Update : ~Unresolved(v)
  /\ Planned(p) => PlannedOK(p)
  /\ at \in Applying => u \in bound
  /\ at \in DOMAIN Reached => StateOf(u) \in Reached[at]
  /\ at = "unexpected" /\ StateOf(u) = "PREPARED" => coord = p /\ hold = p

OneWrites ==
  \A p, q \in alive :
    {call[p].at, call[q].at} \subseteq Writing /\ call[p].upd = call[q].upd => p = q

WriterInv ==
  /\ \A u \in bound : Exists(u)
  /\ \A p \in alive : PlaceOf(p)
  /\ OneWrites

\* The state an update starts from and goes back to, while its process keeps everybody
\* else out.
WorkOf(p) ==
  LET at == call[p].at  j == journal[call[p].upd] IN
  /\ at \in {"quit", "fingerprint", "writePlan"} => call[p].copy \in Database
  /\ at \in Changing =>
       snap = j.snapshot /\ j.snapshot.work = worked /\ j.snapshot.schema = due
  /\ at \in {"begin", "install", "recordInstall", "migrate"} => db = j.snapshot

WorkInv == db.work = worked /\ \A p \in alive : WorkOf(p)

\* What the driver was asked, and what the journal has on record of it.
RecordOf(p) ==
  LET u == call[p].upd  j == journal[u]  a == asked[u]  at == call[p].at IN
  /\ at = "install" => a = <<>>
  /\ at \in {"recordInstall", "migrate", "open", "compensate", "guard", "rollback"} => Len(a) = 1
  /\ at = "recordInstall" => a[1].answer = call[p].outcome
  /\ at \in {"migrate", "open", "compensate"} => a[1].answer = "SUCCEEDED"
  /\ at = "rollback" => a[1].answer \in {"SUCCEEDED", "FAILED_CHANGED"}
  /\ at \in Keeping \ {"verify", "begin", "install"} => a # <<>> /\ a[1].by = p
  /\ at \in {"migrate", "open", "compensate"} => j.install = "SUCCEEDED" /\ Unrolled(j)
  /\ at \in {"migrate", "open"} => call[p].outcome = "SUCCEEDED"
  /\ at = "recordInstall" => call[p].outcome \in InstallStates \cup {"raised"}
  /\ at = "recordRollback" => call[p].outcome \in RollbackStates \cup {"raised"}
  /\ at = "recordRestore" => call[p].outcome \in {"ROLLED_BACK", "raised"}
  /\ at \in {"releaseHold", "releaseCoord", "settle"} =>
       call[p].outcome \in Settled /\ Evidenced(j, call[p].outcome)

RecordInv ==
  /\ \A u \in Update : ~Exists(u) \/ StateOf(u) = "PREPARED" => asked[u] = <<>>
  /\ \A p \in alive : RecordOf(p)

\* The package, where it is known, and what it and the database end as.
PackageOf(p) ==
  LET u == call[p].upd  j == journal[u]  at == call[p].at  o == call[p].outcome IN
  /\ at \in {"begin", "install"} => package = {j.from}
  /\ at = "recordInstall" /\ o = "FAILED_SAFE" => package = {j.from}
  /\ at = "recordInstall" /\ o = "SUCCEEDED" => package = {Target(u)}
  /\ at \in {"migrate", "open"} => package = {Target(u)}
  /\ at = "open" => db.schema = Target(u)
  /\ at = "recordRollback" /\ o = "SUCCEEDED" => package = {j.from}
  /\ at \in {"restore", "recordRestore"} => package = {j.from}
  /\ at = "recordRestore" /\ o = "ROLLED_BACK" => db.schema = due
  /\ at \in {"releaseHold", "releaseCoord", "settle"} =>
       package = {IF o = "SUCCEEDED" THEN Target(u) ELSE j.from}
  /\ at = "releaseHold" => db.schema = IF o = "SUCCEEDED" THEN Target(u) ELSE due
  /\ at \in {"releaseCoord", "settle"} => db.schema = due

\* Between two updates, and while one is only prepared, the package is whole, and the
\* prepared one starts from it.
PackageInv ==
  /\ Whole \/ \E u \in Update : Unresolved(u) /\ StateOf(u) # "PREPARED"
  /\ \A u \in Update : Exists(u) /\ StateOf(u) = "PREPARED" => package = {journal[u].from}
  /\ \A p \in alive : PackageOf(p)

IInv == /\ JournalReadable /\ LeaseInv /\ WriterInv /\ OneUnresolved
        /\ WorkInv /\ NeverBlindly /\ RecordInv /\ PackageInv

\* Where at most one journal write fails, whoever leaves a package in pieces, or with a
\* database of another release, keeps the profile's lease.
Covered ==
  \/ Whole
  \/ \E u \in Update : Unresolved(u) /\ asked[u] # <<>> /\
       LET q == asked[u][1].by IN q \in alive => hold = q /\ rt[q] = "STOPPED"

WholeOf(p) ==
  /\ call[p].at \in {"unexpected", "finish"} => hold = p \/ Whole
  /\ call[p].at = "unexpected" => failures > 0
  /\ call[p].at = "dropHold" => hold = p /\ Whole
  /\ call[p].at = "mark" => Whole

WholeInv == Covered /\ \A p \in alive : WholeOf(p)
=============================================================================
