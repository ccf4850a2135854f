# N0TE2 in TLA+

N0TE2 keeps the creative memory of one artist (a *profile*) in a local SQLite
database, the profile's *Headquarters*, and puts guarded operations over it: a
runtime that opens it for one process only, a journal of operations that are
executed at most once, transactions against a host program, and updates of the
installed package. A local window, served to the artist's browser, works on that
memory. The modules beside this file model the guards, the memory and the window as
the code in `src/n0te2` implements them. TLC checks them on small instances, TLAPS proves
the central ones for every instance.

Run inside this directory:

    tlc -workers 2 -config MCLaunch.cfg MCLaunch
    tlapm ApplicationRuntimeProofs.tla

(`HeadquartersProofs` takes some ten minutes, the other modules a few each.)

`PROJECT.json` lists the runs, the source lines every definition stands for, the
hazards and the theorems.

## The system

| Component (src/n0te2) | State it keeps | Operations | Hard behaviour | What makes it correct |
| --- | --- | --- | --- | --- |
| instance lease (`instance.py`) | `lease.json`, `takeover.json`, `stale/<nonce>.json` of a profile | `acquire` (with takeover of a stale lease), `release`, `inspect` | check and unlink by path in several file system calls, pids handed out again, partial files of dead writers, contention | one owner at a time; a living owner keeps its lease; calls return |
| application runtime (`app_runtime.py`) | runtime state, the open Headquarters | `launch`, `quit` | failure of every single call on the way in and out, end of the process | the Headquarters is open only under the lease, in one process |
| operation journal (`operations.py`) | tables `operations`, `operation_events` | `prepare`, `claim_execution`, `complete_success`, `complete_failure`, `mark_unknown`, `reconcile_unknown` | lookup of an idempotency key outside the inserting transaction, racing claims, crash between claim and outcome | one operation per key, executed at most once, one outcome, histories readable |
| transaction coordinator (`transactions.py`) | tables `transactions`, `transaction_events`; the host program | `run` (register, snapshot, execute and verify each step, compensate), `history`, validation at start | crash between the host's change and its record, UNKNOWN answers, a second session on the same operation | no step twice, a failure leaves nothing in force, the log suffices for the reviewer |
| update coordinator (`update.py`, `safe_update.py`) | update journals, schema bindings, the leases of profile and coordination | `prepare`, `apply`, compensation, recovery marks | work between prepare and apply, driver answers that are ambiguous, failing journal writes, leases released before the final record, a snapshot file that others replace | no work lost, nothing retried blindly, no runtime on half an update |
| snapshot, restore, migration (`recovery.py`, `migration.py`, `update_migration.py`, `schema_program.py`) | the one snapshot of a profile, the live database file, migration history | `create_snapshot`, `restore_snapshot`, `migrate`, `migrate_under_maintenance` | file replacement and side files (`-wal`, `-shm`) under crashes | opening the profile shows the old or the new database; no work is destroyed; verdicts are true |
| profile catalog (`profiles.py`) | the folders of profiles, the lease `__profile_bootstrap__` | `discover`, `resolve` | two shells on a computer without a profile, a crash between folder and database | one first profile, and none opened that was only begun |
| song transactions (`song_transactions.py`) | the binding of a transaction to a Song and its current Version | `run` | the current Version moves between binding, claim and run | the run works on the Version it was bound to, and not after its operation ended |
| lineage store (`lineage.py`, `material.py`, `version_approval.py`, `version_compare_decision.py`, `provenance.py`), chronology (`activity.py`) | Songs with a current and an approved Version, Versions, assets, files, judgments, derivations, events | create, select, import, approve, decide | files and rows of one import, pointers that move after a page was shown, triggers that write the chronology | bytes before rows; writes bound to what was shown; the chronology agrees with the rows |
| host workspaces (`workspace.py`, `shadow.py`, `capability_evidence.py`, `host_observation.py`) | projects and where they were seen, what a host reported of them, which routes it has | `create`, `derive`, `reconcile_existing`; `begin`, `observe` | answers of hosts that come late, twice or out of order, projects that move meanwhile, rows recorded before one that fails | nothing is tied to a place a project has left; what is written can be read again |
| reconciliation (`evidence.py`, `twins.py`, `reconcile.py`) | claims about songs, cases, decisions | `record_claim`, `reconcile_for_song`; `open_case`, `record_decision` | cases overtaken by claims and by observations | the artist decides only on a comparison that still holds |
| sessions and focus (`session.py`, `songwriting.py`, `attention.py`) | sessions of a Song, their items and promotions, focus | start, note, close, promote; start and end a focus | promotion in two transactions, one open session, one focus | a note belongs to the session it was bound to; at most one of each is on |
| resuming (`resume.py`, `hosts.py`) | none | contexts from the tables above | contexts that are stale when used | a context is checked again before use |
| credits, rights, obligations (`credits.py`, `rights_evidence_chain.py`, `obligations.py`) | credits, split sheets, claims about rights, obligations with their life | record, save, submit, confirm, void; ask, observe, receive; trigger, transition | forms of old pages, superseded evidence, conditions that come late | shares change only as shown; a declaration advances nothing; what is closed stays closed |
| people and handoffs (`people.py`, `person_identity.py`, `collaboration_handoff.py`, `professional_handoffs.py`, `career_state.py`) | people, follow-ups, reviews of identities, packages and feedback, handoffs, seasons | create, close, propose, decide, prepare, revoke, address, submit, accept, return | Versions that move under a package or a handoff, a person linked twice | lifecycles end once; what is handed over names the Version it was |
| learning and evidence (`evidence.py`, `learning.py`, `skills.py`, `friction.py`, `context_lifecycle.py`, `retention.py`) | claims, experiments, assessments, frictions, imported context | record, decide, declare, import, project | experiments that go on while a form is open, views over part of the memory | decided on what was shown; a view that still matches tells the truth |
| creative reads (`song_references.py`, `creative_suggestions.py`, `suggestion_*.py`, `version_compare.py`, `template_catalog.py`) | references and judgments of them, suggestions put off, opinions, templates chosen | create, revise, judge; suggest, put off; save, choose | conflicting revisions, the horizon of "next Song", prompts of another context | a judgment stays with its revision |
| audience (`direct_fan.py`, `fan_journey.py`) | contact points, consent, intents | record, assess, plan | consent withdrawn, given again, superseded | nothing is offered when something newer is known |
| consumer shell (`consumer_shell.py`, `*_shell.py`) | the forms of the last page, the runtime, the request to stop | GET, POST, quit, stop | old pages, a stop of another thread, a failed quit, connections without a time limit | a form acts on what was shown; closed stays closed; a stop settles once the browser lets go |
| authority, egress, network (`authority.py`, `eligibility.py`, `egress.py`, `network.py`, `worker.py`, ...) | decisions and catalogs | decide | pure functions of exact inputs | no outbound action without its approvals (the gates of OperationJournal) |
| career reads, creative evaluations, media analysis | none | evaluations of arguments | none | - |
| support, uninstall | none | plans from a snapshot of a profile | none | - |
| construction governance (`src/governance`) | the repository | checks in the build | not part of the running program | - |

How they interact. `ApplicationRuntime.launch` acquires the lease of the profile
and opens `HeadquartersMemory`, whose memories share one SQLite connection.
`TransactionCoordinator.run` is handed an operation that was claimed in the
`OperationJournal` and records the outcome there; its own log is a second table.
`ApplicationUpdateCoordinator.prepare` works from inside a running runtime,
takes the snapshot and quits the runtime; `apply` takes the same lease the
runtimes use, calls the package driver, migrates the database through
`UpdateBoundSchemaMigrator` and reopens the Headquarters. The memories of a
Headquarters read one another: `HostObservationCoordinator` records into the shadow
and the capability evidence under the current observation of `WorkspaceMemory`, and
`ReconciliationService` compares the shadow with the claims of `EvidenceMemory`. Leases, journals and
snapshots are files; journals of operations and transactions are SQLite tables.
The shell launches the runtime through the profile
catalog and answers requests over the memories of its Headquarters; every memory
writes to the chronology, most read the active Song, and claims about people, rights,
obligations, references and facts lie in the one table of `EvidenceMemory`.
Concurrency is that of processes, of callers that share a database, of the end of a
process at any point, of the shell's serving thread and the thread that stops it, and
of a browser that sends the forms of its pages whenever it likes.

## Modules

| Module | Models | Checked by |
| --- | --- | --- |
| `InstanceLease` | `InstanceLeaseManager`: one action per file system call another process can observe; what it promises to any callers, and the inductive invariant behind it | (composed) |
| `ApplicationRuntime` | `ApplicationRuntime` over `InstanceLease`, on the lease of the profile | (composed) |
| `ConsumerLaunch` | `resolve()` over `InstanceLease`, on the lease `__profile_bootstrap__`: who makes the first profile | (composed) |
| `ApplicationLaunch` | the shell: `ConsumerLaunch` and then `ApplicationRuntime`, each with its own lease | `MCLaunch` |
| `ApplicationRuntimeProofs` | theorems about the lease and both callers | tlapm |
| `ExecuteOnce` | abstract promise of the journal: the life of one operation | `MCJournal` (refinement) |
| `OperationJournal` | `OperationJournal`: tables, derivation of states from events, gates, callers; its inductive invariant | `MCJournal` |
| `JournalProofs` | theorems, the refinement among them | tlapm |
| `TransactionCoordinator` | `TransactionCoordinator.run` over `ExecuteOnce` and a host | `MCTransactions` |
| `TransactionHistory` | what is read back from the log: unresolved work, the validator; the inductive invariant of the logs | `MCTransactions` |
| `TransactionProofs` | theorems about both | tlapm |
| `UpdateCoordinator` | `prepare` and `apply` of both update coordinators, beside the runtimes of the profile; their inductive invariant | `MCUpdate` |
| `UpdateProofs` | theorems | tlapm |
| `AtomicDatabase` | abstract promise of the file operations: one database, replaced in one step | `ProfileFiles.cfg` (refinement) |
| `ProfileFiles` | snapshot, restore and migration as operations on the files of a profile; their inductive invariant | `ProfileFiles.cfg` |
| `ProfileFilesProofs` | theorems, the refinement among them | tlapm |
| `HostWorkspaces` | projects, observation sessions, shadow and capability evidence, and the validators of their tables | (composed) |
| `Reconciliation` | claims, cases and decisions over `HostWorkspaces` | `MCReconciliation` |
| `ReconciliationProofs` | theorems about both | tlapm |
| `SongLineage` | Songs, Versions, assets, the import, approvals, judgments, derivations and the chronology | (composed) |
| `SongSessions` | sessions with their items and promotions | (composed) |
| `ConsumerShell` | the window: serving thread, pages and their forms, with the focus, over the two above | `MCShell` |
| `ConsumerShellProofs` | theorems | tlapm |
| `EvidenceClaims` | claims with their scope, source and what they supersede; song references, which are claims | (composed) |
| `ArtistPeople`, `CollaborationHandoff`, `ProfessionalHandoffs`, `CareerState` | people, follow-ups, identities; packages and feedback; handoffs; seasons | `MCMemories` |
| `SongCredits`, `RightsEvidence`, `Obligations` | credits and split sheets, the evidence chain of a right, obligations | `MCMemories` |
| `LearningMemory`, `SongRetention` | experiments, skills and frictions; imported context and views of the whole | `MCMemories` |
| `CreativeSuggestions`, `TemplateCatalog`, `DirectFan`, `SongTransactions` | suggestions; templates; audience; bound transactions | `MCMemories` |
| `HeadquartersMemory` | the memories of a profile together, and their properties | `MCMemories` |
| `HeadquartersProofs` | theorems about all of them | tlapm |

Operators whose comment begins "A bug:" are mutated forms of the definition
that follows them. No action uses them; they are what shows that a property can
fail.

### InstanceLease and ApplicationRuntime

`lease`, `marker` and `archive` are the files. A file made with `O_EXCL` is on
disk, but not *whole*, from its creation until its payload is written. `pc` is
the place of a launch between two calls of `acquire` or `release`; `mk`, `seen`,
`attempt` are the local variables it acts on later. The hazardous shape
is "read, compare, unlink by path" (`_remove_marker_exact`, `release`,
`_complete_owned_takeover`): each is two actions, and any other launch may act in
between. `Probe` gives any answer a truthful probe of the operating system may
give: a dead process is never reported running under its own identity, a
living one never reported ended; "unknown" is always possible. A launch ends at
any point (`End`), losing its local state and leaving its files. `WorkflowOf`
models pids handed out again: launches with one workflow identity follow each
other. `OrphanedMarkers` says whether a launch may end while its takeover marker
is on disk; the code cannot prevent it, and the constant separates what holds
in any case from what holds only without it.

### ConsumerLaunch and ApplicationLaunch

`ConsumerLaunch` extends `InstanceLease` a second time, for the lease
`__profile_bootstrap__`: `resolve()` calls the same `acquire` and `release` as the
runtime, so each of their file system calls is a step here too, and another launch may
come between any two of them. `stage` is where a launch is in the shell: it finds one
profile, none, or one that cannot be read, and in the second case calls `acquire`
(`PostCreateProfile`, `InLeases`), looks again as the owner (`DiscoverLocked`), makes the
folder and then its database (`MakeFolder`, `InitializeLineage`), and releases. A crash
between the two leaves a folder that is an issue for every later launch: the shell then
asks for recovery and makes no second profile. `Past` launches may have left all of this
behind, a lease with a dead owner included.

`ApplicationLaunch` puts the two callers together: `Boot` is `ConsumerLaunch` over its own
copy of the variables of the lease, and a launch that has selected a profile goes on as a
launch of `ApplicationRuntime`. A process ends in both at once.

### SongLineage, SongSessions and ConsumerShell

Tables that only grow are sequences, whose places are the ids; `events` is the
chronology, which the triggers of each store write, so that every action of a store
names its lines (`Log`). The import is two actions (`InstallBlob`, then `CommitImport`
or `ImportFails`), because a crash may fall between the file and the rows. A
service that is given a *binding*, the state the page was made from, compares it
inside its transaction (`ApproveBound`, `RecordDecision`, `CaptureBound`, ...).

`ConsumerShell` has the focus of the artist (`AttentionMemory`) and one serving thread
(`loop`), which looks for a stop between requests (`Check`). `forms` are the forms that can still be sent: a page replaces them
(`Render`), a POST uses one up. The browser sends any of them at any time. `Stands`
is what each handler checks, `Effect` what it then does to the stores. `stop` is
asked for by another thread or by the quit page, and a quit that fails clears it and
holds the profile for recovery. The loop waits a tenth of a second for a connection, but
for what comes over it, and for its answer to be taken, without a limit: a browser may
have the thread `held` for as long as it likes (`Hold`, `Answered`), and then nothing else
is served and `stop()` times out. GETs that only change the page are `Get`; one that
finds the runtime stopped launches it.

### HeadquartersMemory and its memories

Each memory is a module with its tables, one action per operation, and its
`_validate_existing`; those that have forms on a page keep what each form was bound
to (`offered`, `requested`, `bound`, `captures`, `starts`, `reviewed`, `plans`).
`HeadquartersMemory` takes their disjunction. An artist uses some of them at a time:
`uses`, chosen once, is a bound, named `Use` in the configuration, and `Within` says
how many rows there is room for. What the combinations have in common (people,
claims, Versions, the chronology) is where one memory can break another.

- `EvidenceClaims`: a claim supersedes claims of its own scope and key that are in
  force, and nothing is ever removed.
- `SongCredits`: a sheet is drafted, submitted, confirmed and voided from forms
  which carry a digest of what they showed; `sheets[k].saved` counts the saves of a
  draft.
- `RightsEvidence`: `Reach` is how far the chain of a credit or sheet got, from
  declared over requested and observed to received; what a stage needs is
  `Qualifies`.
- `Obligations`: `Life` grows by triggers and transitions, each founded on a claim
  that is in force.
- `SongRetention`: a list of a packet is what is said of its items and how many are listed
  before each (`Place`). A view is a digest of all that could be shown, cut to `Limit` items
  of a section, with the contradictions among the facts. What is imported is context,
  not a fact.
- `SongTransactions`: between the claim of an operation and its run the Song, its
  current Version and the artist's choice may move, back to where they were too, and the
  journal may end the operation on its own (`EndOperation`); what `RunBound` checks is
  compared with the chronology and with the times the journal ended an operation
  (`endings`) by `RanAsBound`. The check and the call of the coordinator are one
  step: the memories of a profile share one connection, used by the thread that opened it,
  and one Headquarters has the profile (`OneHeadquarters`).
- `DirectFan`: consent and contact points are claims about a person; an intent names
  the two it was formed on. `ProviderRecords` is another writer of the same claims.

### OperationJournal and ExecuteOnce

`operations` are rows, `log` the events. `Derive` says of a whole history what the
loop of `_derive` computes event by event: every event follows the kind it may follow,
and the last one decides. That form can be reasoned about; `MCJournal` has the loop
itself (`DeriveLoop`), and its `LoopAssumption` makes TLC compare the two on every
history of up to five events.
Every write is one transaction, so one action, except `prepare`, whose lookup of
the key (`Lookup`) precedes the transaction that inserts (`Insert`); the unique
index on the key turns the loser of a race around. `Gates` are the approvals
`claim_execution` asks for. `ImplementsExecuteOnce` maps a key to the status of
its operation and requires every step to be one of `ExecuteOnce` or a stutter.

### TransactionCoordinator and TransactionHistory

`plans` and `events` are the tables, `status` is the journal through
`ExecuteOnce`, `effect` the host, `execs` counts what drivers were asked. `run`
holds the local variables of one `run()`. A driver answers what it likes within
its contract (`Answers`): a change that was made is never answered NOT_APPLIED.
`Crash` loses `run` between any two appends. `JournalCall` are the other users of
the journal: they prepare, claim, mark UNKNOWN and reconcile; none of them
records an outcome but UNKNOWN for a transaction's operation. `Readable` is
`_validate_existing`, which decides whether the profile opens again: `Accepted` says
what its pass asks of the event at one place of a log, and the flags and balances the
pass carries along are counts of what lies before that place. `MCTransactions` has the
loop itself (`ReadLoop`), and TLC compares the two on logs of up to six events.

### UpdateCoordinator

`hold` is the profile's lease, shared by runtimes and updates, `coord` the one
that coordinates updates. Both are taken as *one owner, replaced only after its
end*, which is what the theorem MutualExclusion says of the file protocol where no
process ends with its takeover marker on disk. Finding 1 is what else can happen, and
nothing is claimed of updates then.
`journal` holds update journals with their history and evidence, `db` the live
database (how many commits of work it contains, its schema), `snap` the one
snapshot, `package` the releases parts of which are installed, `due` the schema version
the last standalone migration left or the last update validated. `call` is the
`prepare` or `apply` a process is in; its `at` names the next call of the code
that can fail or be observed. Each journal transition either writes or fails
(`WriteFails`, at most MaxFailures times), a failure going where the exception
goes. What is assumed:

- a sure answer of the package driver is true (SUCCEEDED: the target is
  installed; FAILED_SAFE: nothing changed; FAILED_CHANGED: something did);
  UNKNOWN, an exception or an inconsistent receipt say nothing;
- the release id handed to `prepare` is that of the installed package, and
  release *n* comes with semantic schema *n*, though a profile may be ahead of it;
- databases that are equal have equal snapshots: the digest of the snapshot file that
  `apply` compares is taken as that of the database in it;
- migration and restore under the maintenance lease are one step each, with
  every outcome the code distinguishes; that their file operations look like one
  step from outside is what `ProfileFiles` shows;
- a process is in one call at a time, as the coordinator itself requires
  (`_schema_apply_context`); its runtime may go on working during `prepare`.

Two others replace the one snapshot and never look at an update journal:
`create_snapshot` of a runtime (`CreateSnapshot`, at any time) and the standalone
`migrate` (`MigrateStandalone`, under the profile's lease, one step for the same reason
as above), also while an update is prepared, or unresolved after its process ended or
left its lease. So an update that needs recovery may *lose* the snapshot it is bound to, and
nothing in the code prevents that. What holds, and what `WorkSafe` says, is that such a
snapshot is never restored over work: from the check of `apply` to the restore that
may need it, the snapshot is the one the update is bound to and lacks no commit.

The `expected=` check of `_transition` is not modelled as a guard: `OneWriter`, a
part of `OneUpdate`, shows that it never fires.

### ProfileFiles and AtomicDatabase

`live` is `lineage.sqlite3` with its write-ahead log, `snap` the one recovery
snapshot, `kept` the files preserved when the database was replaced. A state of
the database is its work, of which the commits in `Songs` are what a migration plan
notices (Artist/Song identity; `_read_state_from_connection` does not read the
rest), and its schema. A log names the main file it was written for, so a log
that ends up beside another main file shows in the model (`Opened` is then
undefined) as it would on disk. `call` is the runtime or the call at
work: its `at` is the next file operation, `next` the temporary file at hand.
`made` and `call.before` are history. Every operation after which a crash or an
exception leaves a different disk is an action: the copy, the snapshot's
replacement, the close of the store it was taken through, the copy of the main file,
the move of the log, the move of the shared-memory file, the replacement, the
reopening, the inspection. `restore_snapshot` is reached from three places (by
hand, from a failed migration, from the compensation of an update), which `job` and
`back` tell apart. What is assumed:

- SQLite folds the log into the main file when the last connection closes, and a
  read-only connection leaves it alone; a process that ends leaves main file and
  log as they are, and opening them recovers the log;
- one process works on the profile at a time. For runtimes and migrations that is
  the lease, hence ApplicationRuntime; `restore_snapshot` takes no lease, and is
  called while nothing has the profile open;
- a restore by hand promises nothing about what is live until it has returned: cut
  off after the log was moved, it leaves the last checkpoint live and later work
  only in the preserved pair. `AtomicDatabase` says so (`restoring`), and
  `NothingDestroyed` says that the pair can be opened. A migration has no such gap:
  its log is empty by the time it is moved, because the store opened for the
  rollback snapshot folds it (`migration.py:484`) or because the update has
  compared the database with a snapshot (`update.py:837`);
- a chain of migration steps runs in one staged copy and is installed once, so it is
  one step of the schema here, and the steps may fail or be refused at any point
  before the installation;
- `bound` is set whenever a runtime quits and the snapshot is up to date: more
  often than updates are prepared.

### HostWorkspaces and Reconciliation

Five tables of SQLite that only grow, so sequences, whose places are the ids.
Every writer is one call of one transaction, hence one action, except what a host
takes part in: `BeginSession` binds a session to the current observation of a
project, `Observe` comes later and records what the host answered, up to the row
that fails. In between any other call may move the project. The shadow is followed
for one field of one object and the claims for one key, which is all that one
comparison looks at; a batch that is about other fields says `None`. A claim is
TECHNICAL or OTHER (CREATIVE and UNSPECIFIED, which no comparison reads), an
observation EXISTING or DERIVED where the code keeps two words for the same checks.

JSON is modelled by what it does to an object whose keys are numbers: `Dump` sorts
them as numbers and writes texts, `Load` returns texts, so that `Dump(Load(t))` may
differ from `t`. `HistoryReadable` is the conjunction of the five
`_validate_existing` that run when a profile is opened.

`state()` compares ids of claims and batches only, and a claim that supersedes another
of the other domain can uncover a wider scope again, which makes a STALE case OPEN
once more. `DecidedKnowingly` says that this is sound: when the ids agree, status,
values and host fact do. On the side of the host there is no way back
(`OvertakenForGood`), because a moved project has a new observation even where it
was before.

What is assumed: the songs, versions and the artist of a song are there before and do
not change; a caller of `begin` hands over the runtime last observed, or is refused.

## Runs

| Run | Instance | Shows |
| --- | --- | --- |
| `two_launches` | 2 shells over the leases and the profile of a dead one, two calls of `acquire` each, on the bootstrap lease or the profile's, 3 attempts, one with the dead one's pid, orphaned markers allowed | one first profile is made; two processes never share a Headquarters; open implies leased; only the dead are archived; no live lease is lost; every call returns |
| `three_launches` (violation) | 3 launches that have selected the profile, one call each, orphaned markers allowed | finding 1 |
| `journal` | 2 callers, 2 keys, 3 operation ids, 2 identities, 2 prepares each | one operation per key and one claim of it (`ExecutedOnce`, with the refinement of ExecuteOnce), readable histories |
| `transactions` | 2 sessions, 2 transaction ids, one operation, 3 steps, the middle one not compensatable, crashes | no step twice, FAILED leaves nothing, logs readable and true of every change (`RecordTrue`), compensation in reverse order, termination |
| `updates` | 2 processes, 2 updates, one commit of work, one failing journal write, snapshots of runtimes, standalone migrations to schema 2 | work is never lost and what may be restored is the snapshot the update is bound to (`WorkSafe`), one unresolved update with one writer (`OneUpdate`), no blind requests, no runtime on half an update, evidence complete, settled journals true |
| `update_full_disk` (violation) | one update, two failing journal writes | finding 2 |
| `update_obsolete` (violation) | one process, whose user tries again, 2 updates, no migration | finding 3 |
| `files` | 2 commits (a song, a note), 3 schemas, 2 replacements, process ends and failures anywhere | database replaced in one step (refinement of AtomicDatabase), no commit destroyed, verdicts true |
| `reconciliation` | 2 songs, one with a version, 2 projects, 2 places, 2 families of hosts, one session, 5 rows | histories readable, no way back for what was overtaken, decisions only on comparisons that hold |
| `shadow_keys` (violation) | the same, values keyed by numbers | finding 4 |
| `shell` | one Song, two Versions, the browser keeps any old page, 7 lines of chronology and two more for each Version | forms act on what was shown, the closed window stays closed, bytes before rows, what is opened again is accepted and told truly, a stop settles if the browser lets go of the thread |
| `memories` | 16 combinations of memories, each with one or two Songs and a handful of rows (`Bounded`) | what is opened again is accepted and told once, decisions stay, forms act on what was shown, runs as bound, rights advance by evidence, intents, views and judgments say what is known |

Why the bounds are enough. The lease protocol hands one of three files from
launch to launch; a conflict needs a launch that looked, one that changed what
it saw, and the remains of a dead one, which is `Past` plus two launches, and plus
three when the marker is a remainder too. The lease proofs have no bound on
launches, calls and attempts. In the journal a conflict is between two callers
on one key; the second key lets the wrong operation be returned, the third
operation id lets a loser insert. In the coordinator the second session and
transaction id are what a rerun needs; three steps are the least in which
"reverse order" and "skip the middle one" differ; plan length is arbitrary in
the proofs. Two updates are the least in which one stands in the way of, or
overwrites the snapshot of, another; one commit of work is enough to be lost, and since
`prepare` and `apply` compare whole databases a second says nothing new; a standalone
migration to schema 2 changes what an update was prepared on, and leaves one that can
still be bound. On the files, two commits let one be in the snapshot and one in the log, or one
be noticed by a plan and the other not; two replacements let one follow, or roll
back, another. Constants that bound: `MaxCalls`, `MaxAttempts` (8 in the code),
`MaxWork`, `MaxFailures`, `MaxSchema` (of UpdateCoordinator and of ProfileFiles), `MaxKept`, `MaxTime` and, for the rows of the
tables of Reconciliation, of the shell and of the memories, `Within`, with `Use` for
what is used together; nothing else is bounded. In `memories` a conflict is between a
thing, what was shown or bound of it, and what another writer did to it since: one row
of the first, one form or binding, and the two or three moves that can come between. A
combination is of memories that read one another's rows; those that share nothing but
the chronology are not put together. Songs and people are symmetric there, because no
order of ids is read. `shell` has no symmetry, because it has a liveness property. Two Versions let a pointer move while
a page shows the other; with three moves of them (two Versions of one Song) the current one
goes on and back between the bind and the run of `transactions`. Five rows are a project, a
reading of it, a case, what overtakes it (a claim, a reading or a move) and either a
decision or the move back; `Few` lets no more than three of them be observations of
projects, claims and capability facts together, the least with which each of these can
conflict with an earlier one.

Deadlock checking is off throughout because every system may rightly stop: all
launches or processes ended, every operation settled.

Fairness. `FairSpec` is always weak fairness of the steps *inside* a call of a
live process: a thread that runs is scheduled and its file system, database and
driver calls return. Nothing is assumed of users: no call is ever required to
begin, no process to end or to survive. In the shell it is weak fairness of `Check` and
`NoRequest` (the loop goes on: `handle_request` waits a tenth of a second for a
connection) and of `FinishImport` (the file is there, the rows are made or refused);
nothing is assumed of the browser, so `StopSettles` has as its premise that the browser
lets go of the thread again and again (`BrowserLetsGo`). Without the premise it is false:
TLC shows a stop that waits for ever on a connection that is held. In
`ApplicationLaunch` it is that of the steps inside the manager, on the profile's lease
(`EveryCallReturns`); a launch may stop anywhere else. Only `RetrySpec`, used for the violated
`AdviceCanBeFollowed`, adds strong fairness of the users' calls, to show that
even tireless retries do not help.

## Findings

1. `instance.py:504`. `_remove_marker_exact` compares the marker and then
   unlinks by path. With the lease and marker of a launch that died in its
   takeover, two launches both pass the comparison; the second unlinks the
   marker of the first, both are then inside a takeover, and the second unlinks
   the first's *lease* (`instance.py:572`). Both run on one Headquarters. The bootstrap
   lease is taken by the same code, so three launches can make two first profiles the
   same way: `MCLaunch_three.cfg` with `SPECIFICATION NewMachineSpec` and `INVARIANT
   OneFirstProfile` shows it. `two_launches` has too few launches for either.
2. `update.py:1456`. If the journal cannot be written after the package was
   changed, the exception handler fails to mark RECOVERY_REQUIRED, swallows that
   and releases the profile's lease, which every recorded ambiguity retains. A
   runtime starts on a half-updated profile.
3. `update.py:839`. `apply` refuses an update whose database moved on with
   "prepare a new update"; `prepare` refuses a new one because the old one is
   PREPARED. No operation moves it on.

4. `shadow.py:493`. A host value with numbers as keys, 9 and 10 say, is written sorted as
   numbers; read back its keys are texts, which sort the other way round. The writer
   accepts what the validator of the next start refuses (`shadow.py:395`), and with it
   the profile.

## Proofs

`ApplicationRuntimeProofs` (for any set of launches, calls and attempts). First the lease
alone, under callers that acquire whenever they like (`LeaseSpec`):

- `BaseInvariant`: `BaseInv` is inductive with or without orphaned markers. It
  joins the types with the facts a launch relies on later: launches of one
  workflow identity follow each other, and what is in hand when a check passed is
  ended. `StaleMeansEnded` follows.
- `IInv` adds, where OrphanedMarkers = FALSE, that a marker on disk belongs to a
  living taker (`MarkerInv`), so that nobody is about to remove another's marker,
  and that whoever relies on a lease finds exactly that lease on disk
  (`HolderInv`). Neither is inductive alone: that the unlink of a stale lease
  hits the lease that was looked at needs the marker to exclude other takers, and
  the marker can only be trusted because takers outlive it. `MutualExclusion` (two
  launches are never told that one lease is theirs) and, as an action property,
  `LiveLeasesStay` follow. Finding 1 is what happens without the assumption, so it
  cannot be dropped.

Then its two callers, each shown to use the lease as `LeaseSpec` lets a caller:

- `RuntimeUsesLease` for the runtime, from `SessionInv`: it is inside the manager exactly
  when it waits for it, releases only what it once asked for, and has its Headquarters
  open only while it takes itself for the owner. `TypeCorrect`, `OneSession` and
  `LeaseCoversHeadquarters` follow, the last two under the assumption.
- `FirstProfileOnce`, under the assumption, rests on `BootInv`: a launch acts as the owner
  of the bootstrap lease only while it is (`OwnerInv`), so by `OneOwner` the second look
  under it is still true when the folder is made; and launches of one workflow identity
  follow each other (`WorkflowsApart`), which is what the lease asks of its callers.
  Without the second look the first may be of a time before another launch was done.
- `LaunchImplementsRuntime`: a behaviour of `ApplicationLaunch` is one of `ConsumerLaunch`
  on the bootstrap lease and one of `ApplicationRuntime` on the profile's, so what is
  proved of each holds of it.

`ConsumerShellProofs` (any Songs, files and pages): `ClosedForGood` rests on `ClosedInv`:
after the page that says N0TE is closed the loop is never between two requests with the
stop still unread, so `_serve` meets it before it takes another one. `BytesComeFirst`
rests on `ImportInv`: an import that waits for its rows, the retention lock released,
already has its file, and no file goes away. That a stop ends the window of a
browser that lets go of it is liveness (`StopSettles`) and stays with TLC.

`ReopensTrue` and `FormsActAsShown` rest on `RecordInv`. `ReopensAsLeft` alone is not
inductive: that the validators accept what the next request writes depends on what that
request may carry. So `RecordInv` adds that the window makes one Song, which is the
active one, and that an import of it holds up the thread (`OneSong`); that every form but
the closing ones carries what the last page said, the form that makes a Song being alone on
its page (`FormsAreShown`); that the pointers of a Song are to its own Versions
(`PointersInv`); and that the chronology has only the rows the window writes (`Row`).
`FormsAreShown` is also what makes `FormsActAsShown` true: a form of an older page is
gone, or it was put on the new page with what that page said. The
proof has one lemma per handler: which rows it adds, and that each validator accepts the
stores with them. The validators look for the *latest* row of a kind; that a set of rows
has a greatest id is proved from the well-founded order of the ids
(`WellFoundedInduction`) instead of by an induction over them.

`TransactionProofs` (any plan, transactions, sessions): `IInv` says that a
registered transaction has one session and an operation one transaction
(`OwnerInv`), that steps ahead of a run are untouched (`AheadInv`), and that a
run that may still record FAILED has every applied change in hand (`InHandInv`).
From it `TypeCorrect`, `ExecutedAtMostOnce` and `FailureLeavesNothing`.

Of `TransactionHistory`: `HistoryInv` gives every kind of entry a place of its own in
the life of a transaction (`Rank`: the steps of the plan in order, then what is undone
in the reverse order), and says that a log is in that order (`OrderInv`), that each
entry has its form and comes after the one it answers (`EntryInv`), that a `run()` has
logged what it has passed and nothing further (`RunInv`), and what the log says of the
host and of SUCCEEDED (`EffectInv`, `SucceededInv`). One lemma per step of `run()`
shows that what it logs is next in order; a session that is alone in its transaction
(`Alone`, from `IInv`) then cannot be disturbed. No place is taken twice, so every
count the validator makes is 0 or 1 (`CountIs`), which gives `LogsStayReadable`;
`RecordIsTrue` and `UndoneInReverse` read off the same invariant.

`JournalProofs` (any callers, keys, identities and operation ids): `IInv` says that a
key has one row and a row a history that is a path of the lifecycle (`RowInv`), that
what `prepare` handed out is what the row says (`PreparedInv`), and that each claim
that returned has its event, once (`ClaimedInv`). `ExecutesOnce` and
`HistoriesStayReadable` follow. `JournalImplementsExecuteOnce` proves the refinement
for keys: initial states map to initial states, and every action to the step of
`ExecuteOnce` it is named after, for the key of its row, or to a stutter.

`UpdateProofs` (any processes, updates, amount of work and number of failing writes):
`IInv` says who holds which lease at each place of `prepare` and `apply` (`LeaseInv`),
which state the journal of an update is in there and that nobody else writes it
(`WriterInv`), that database and snapshot are those the update is bound to as long as its
process keeps the others out (`WorkInv`), what the driver was asked and what of it is on record
(`RecordInv`), and that the package is whole between two updates (`PackageInv`).
`WorkIsSafe`, `UpdatesGoOneByOne`, `DriverIsAskedOnce`, `JournalsAreReadable` and, as an
action property, `SettledIsTrue` follow with any number of failing writes.
`RunningIsOnWhole` needs `MaxFailures <= 1`, stated in the theorem, for `WholeInv`: who
leaves a package in pieces keeps the profile's lease. Finding 2 is what two failures
do, so that assumption cannot be dropped.

`ReconciliationProofs` (any projects, songs, versions, hosts, places and sessions):
`BaseInv` says that rows are typed and in their places (the validators that hold whatever a
host reports), that a project is known from its first observation on (`KnownInv`), and that
a case still says what the rows say that it was opened on (`CaseInv`): its values are those
of its claims, and its host fact is the last word of the batches from its baseline to its
latest one (`FactBetween`), which appending cannot change. From the last,
`DecisionsAreInformed`: where baseline, latest batch and claims are the same, the whole
comparison comes out the same, though `state` compares ids only. `OvertakenStaysSo` needs
that a case names batches there are, so that a later baseline is another one.
`HistoryStaysReadable` needs besides that what a host reports reads back as it was written
(`TextsReadBack`), which is so where maps are keyed by texts: the theorem has that as its
hypothesis, and finding 4 is what happens without it. That a set of keys can be sorted, and
in one way only as far as the text goes, is proved by counting (`KeysSort`).

`HeadquartersProofs` (any Songs, people, contents, operations and bounds, and any memories
used together): every invariant has one lemma per memory, which says what a step of it may
do to the rows the invariant is about.

- `DecisionsStay`: `TablesInv` and `SheetsInv` say that what is indexed is a table, that a
  sheet has its columns and a form its kind. Each operation then adds a row or puts another
  one in the place of a row that is not decided (`Kept`).
- `RunsKeepToBindings`: `PointersInv` says that the chronology tells which Song is active
  and which Version of each Song is current. It has to be shown of every step of every
  memory, since all of them write the chronology: `OthersQuiet` says that a memory other
  than the lineage store writes no line that tells of a pointer (`Quiet`), `LineagePoints`
  that the lineage store writes exactly one with each move. `RunsInv` adds that an operation
  the journal has ended (`endings`), by a run or without one, is not being executed, so it
  is not handed over again. What the chronology
  tells up to a place does not change by what is written after it (`RanStays`).
- `JudgmentsStand`, `IntentsAreLatest`: `ClaimsInv` says what each claim keeps for ever: what
  it replaces is older and of the same scope and key, a reference is of one Song, a judgment
  names the one revision that was in force when it was made (`HeldBefore`, read off the rows
  before it), an intent the consent and the contact point of its person and channel. All
  that the memories record are rows of one of five kinds (`RowKind`). Two things that are
  read *now*, the latest claim and the one in force, are then compared with what was so
  *then*: a claim that nothing supersedes now was superseded by nothing before.
- `DeclaringStays`: for any claims at all, one more declaration takes no chain further
  (`DeclaringAdvancesNothing`); `ClaimsInv` gives that the claims are a table.
- `PagesActAsShown`: a form of a sheet carries marks (how often the draft was saved, how much
  was said), not the shares it showed. `FormsInv` says what a mark still tells: that a sheet
  whose count of saves is the one of the page has the shares of the page (`SheetSince`), as
  long as somebody has a share; a sheet without shares has the mark of one never saved. The
  other forms carry what they showed, and the handler compares it.

- `MemoriesReopen`: `StoresInv` gives each store an invariant of its own that says what
  its rows name in the others and which states its rules let them reach, as its validator
  asks for; `TalesInv` says that the chronology counts it. Neither is inductive store by
  store: a validator reads the rows of others, and every store writes the one chronology.
  So `StoresAreKept` says what no step takes away (Songs, Versions, people, claims, sessions
  and what they say; `RowsKept`, `SessionsGrow`), which is all that a store
  that is not written itself needs to stay readable; and `WhoWrites` says which lines each
  store may add (`TellsOf`) and that the words of two stores are never the same
  (`WordsApart`), so that a count is disturbed by its own store only (`WhatIsUntold`). Under
  the store that does write there is one lemma per operation: its row reads, and one line
  more is told exactly when the count of rows grows by one. The counts are of sets cut from
  tables, so what appending a row or replacing one does to them is proved once
  (`TallyAppended`, `InStateAppended` and the lemmas around them).
- `ViewsAreTrue`: `ViewInv` is about a view and the digest it carries alone, so only the step
  that hands it out can disturb it: its contradictions are those of the facts in the digest,
  and no experiment shown was decided while one left out was not. That the limit cuts it so
  is a comparison of two counts: whatever is ahead of an undecided experiment is ahead of a
  decided one (`UndecidedFirst`). A digest that still matches says of the memory now what
  it said then.

`ProfileFilesProofs` (any commits, schemas, number of replacements): `IInv` joins
the properties with what they rest on. `MigrationInv` says where a migration has come to and
that past the copy its log adds nothing (`Folded`); for the migration of an update
that follows from `BoundInv`: neither the main file nor the snapshot ever falls
behind the bound snapshot, so a database that compares equal has nothing in its
log. `InstallInv` says that between the moves the preserved main file is the live
one, so the moved log still belongs to it. One lemma per action shows that it
preserves IInv; `FilesInvariant`, `NothingIsDestroyed` and `VerdictsAreTrue`
follow. `FilesImplementAtomicDatabase` proves the refinement: initial states map to
initial states (`Opened(live)`, `snap`, whether a restore by hand is under way), and
with IInv before and after, every action maps to the abstract action its name
suggests or to a stutter (`RestoreRefines`, `StepRefines`).

Assumptions: those named in the modules (`LaunchAssumption`,
`OrphanedMarkersAssumption`, `PlanAssumption`, `FilesAssumption`, `JournalAssumption`,
`UpdateAssumption`, that `None` is no row, process, update, database, Song or number,
`NoneAssumption`, and no reason for the end of a focus, `ReasonAssumption`; and that
songwriting is a key of what an artist's words are about, as in `session.py`,
`KeyAssumption`; that `None` is no promotion either, `TermsAssumption`; that a view has room
for something, `LimitAssumption`, as `ContextBudget` demands; `HostAssumption` and `ScopeAssumption`: what a host reports is either a
scalar or a map, and songs, versions and wider scopes are different things;
`OperationAssumption`: `None` is no row of an operation; `ShareAssumption`: shares are
numbers); TLC evaluates them in every run. The two `LoopAssumption` of the MC
modules are compared by TLC up to a length; no proof rests on them.

Only model-checked: liveness (`EveryCallReturns`, `EveryRunEnds`, `StopSettles`), which
TLAPS does not prove; that the loops of `_derive` and `_validate_existing` compute
`Derive` and `Readable` for histories of every length, which is induction over data; and
the properties of the runs that expect a violation, which the code does not have.
Not checked: that `prepare` and `apply` of the update coordinator return; `FairSpec`
states the fairness it needs.

## Not modelled

- Contents: what is in a snapshot, a plan, a receipt or a song is a value to
  compare; hashing is taken as injective, and JSON too but for the keys of
  host values (Reconciliation).
- Symbolic links, file permissions and tampering with files, which the code
  refuses.
- Torn or lost writes of a machine that loses power: files are replaced
  atomically and synced by the code; a *process* may end anywhere.
- Stateless evaluations (diagnoses, lenses, opportunities, roles, ethics, economics),
  catalogs, signal analysis, rendering and HTTP: no state for interleavings to break.
- Read models that no writer reads (`graph.py`, `artifacts.py`, `success*.py`,
  `resume.py`, `learning_experiment.py`, ...).
- The media grants of a page, which let a browser listen and change nothing.
- The texts of suggestions and the search in templates; amounts of money.
- The lease an ambiguous update retains, once its process ended: the next launch takes
  it over and opens the profile; the source promises nothing about it.
- That an accepted professional handoff becomes stale for ever once a pointer moved,
  as its docstring says: the code compares when it is asked (`_freshness_reason`), so a
  pointer that was moved back unseen is not noticed. `VerifyFreshness` is the code.

## Plan

In this order:

1. *(done)* InstanceLease, ApplicationRuntime and their proofs.
2. *(done)* ExecuteOnce, OperationJournal; TransactionCoordinator, TransactionHistory and
   their proofs.
3. *(done)* UpdateCoordinator.
4. *(done)* SongLineage and, over it, SongTransactions: the binding checked before a run
   against a Version that moves.
5. *(done)* AtomicDatabase, ProfileFiles and their proofs.
6. *(done)* HostWorkspaces, Reconciliation.
7. *(done)* The stores with lifecycles, one module each, composed in HeadquartersMemory;
   the shell and the launch of the first profile.
8. *(open)* Pure decisions (eligibility, egress, schema chains, evidence freshness)
   against reference definitions on bounded inputs.
9. *(done)* Proofs of the update coordinator, of the journal with its refinement and of
   the logs of transactions; of what the shell shows, records and finds again; of the
   reconciliation; of what the memories decide, run, judge, offer and show.
10. *(done)* Proofs that the memories open again as they were left and that their views
   are true.
