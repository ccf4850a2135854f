----------------------------- MODULE UpdateProofs -----------------------------
(***************************************************************************)
(* Proofs about UpdateCoordinator, for any set of processes and updates, any  *)
(* amount of work and any number of failing journal writes.                  *)
(***************************************************************************)
EXTENDS UpdateCoordinator, TLAPS

-----------------------------------------------------------------------------
(* Control flow: where a process goes, and what it takes along *)

\* A process writes no local variable of another.
Moves(p) == call' \in [Process -> Calls] /\ \A q \in Process \ {p} : call'[q] = call[q]

Carries(p, at, upd, copy, outcome) ==
  /\ Moves(p)
  /\ call'[p].at = at /\ call'[p].upd = upd
  /\ call'[p].copy = copy /\ call'[p].outcome = outcome

Goes(p, at) == Carries(p, at, call[p].upd, call[p].copy, call[p].outcome)
Left(p)     == Carries(p, "idle", None, None, "none")

\* What an assignment of all local variables does.
LEMMA Moving ==
  ASSUME TypeOK, NEW p \in Process, NEW c \in Calls, Becomes(p, c)
  PROVE  Moves(p) /\ call'[p] = c
BY DEF TypeOK, Becomes, Moves

\* What a step to another place of the code does.
LEMMA Going ==
  ASSUME TypeOK, NEW p \in Process, NEW at \in Preparing \cup Applying, Goto(p, at)
  PROVE  Goes(p, at)
BY DEF TypeOK, Goto, Goes, Carries, Moves, Calls

\* What a return from prepare() or apply() does.
LEMMA Leaving ==
  ASSUME TypeOK, NEW p \in Process, Leave(p)
  PROVE  Left(p)
<1>1. Idle \in Calls
  BY DEF Idle, Calls
<1> QED
  BY <1>1, Moving DEF Leave, Left, Carries, Idle

\* A transition is written and gone on from, or it fails.
LEMMA Passing ==
  ASSUME TypeOK, NEW p \in Process, NEW j, NEW state \in DOMAIN Then, Transition(p, j, state)
  PROVE  \/ Goes(p, Then[state]) /\ Write(call[p].upd, j, state) /\ failures' = failures
         \/ Goes(p, "unexpected") /\ WriteFails
BY Going DEF Transition, Then, Preparing, Applying

\* Those who come back with something else than they went with.
LEMMA Taking ==
  ASSUME TypeOK, NEW p \in Process, Snapshot(p)
  PROVE  \/ Carries(p, "quit", call[p].upd, db, call[p].outcome) /\ snap' = db
         \/ Goes(p, "endPrepare") /\ snap' = snap
<1>0. call[p] \in Calls /\ db \in Database
  BY DEF TypeOK
<1>1. CASE Becomes(p, [call[p] EXCEPT !.at = "quit", !.copy = db]) /\ snap' = db
  <2>1. [call[p] EXCEPT !.at = "quit", !.copy = db] \in Calls
    BY <1>0 DEF Calls, Preparing
  <2>2. Moves(p) /\ call'[p] = [call[p] EXCEPT !.at = "quit", !.copy = db]
    BY <1>1, <2>1, Moving
  <2> QED
    BY <1>0, <1>1, <2>2 DEF Carries, Calls
<1>2. CASE Goto(p, "endPrepare") /\ snap' = snap
  BY <1>2, Going DEF Preparing
<1> QED
  BY <1>1, <1>2 DEF Snapshot

\* What writePlan leaves.
LEMMA Planning ==
  ASSUME TypeOK, NEW p \in Process, NEW u \in Update, WritePlan(p, u)
  PROVE  \/ /\ Carries(p, "endPrepare", u, call[p].copy, call[p].outcome)
            /\ \E release \in package : journal' = [journal EXCEPT ![u] =
                 [from |-> release, snapshot |-> call[p].copy,
                  history |-> <<"PREPARED">>, install |-> "none", rollback |-> "none",
                  restored |-> FALSE]]
            /\ failures' = failures
         \/ Goes(p, "endPrepare") /\ WriteFails
<1>0. call[p] \in Calls
  BY DEF TypeOK
<1>1. ASSUME Becomes(p, [call[p] EXCEPT !.at = "endPrepare", !.upd = u])
      PROVE  Carries(p, "endPrepare", u, call[p].copy, call[p].outcome)
  <2>1. [call[p] EXCEPT !.at = "endPrepare", !.upd = u] \in Calls
    BY <1>0 DEF Calls, Preparing
  <2>2. Moves(p) /\ call'[p] = [call[p] EXCEPT !.at = "endPrepare", !.upd = u]
    BY <1>1, <2>1, Moving
  <2> QED
    BY <1>0, <2>2 DEF Carries, Calls
<1> QED
  BY <1>1, Going DEF WritePlan, Preparing

\* What a call of apply() starts with.
LEMMA Calling ==
  ASSUME TypeOK, NEW p \in Process, NEW u \in Update, CallApply(p, u)
  PROVE  Carries(p, "coordinate", u, None, "none")
<1>1. Idle \in Calls
  BY DEF Idle, Calls
<1>2. [Idle EXCEPT !.at = "coordinate", !.upd = u] \in Calls
  BY <1>1 DEF Calls, Applying
<1>3. Moves(p) /\ call'[p] = [Idle EXCEPT !.at = "coordinate", !.upd = u]
  BY <1>2, Moving DEF CallApply
<1> QED
  BY <1>1, <1>3 DEF Carries, Idle, Calls

\* What an answer of the driver, or of the recovery, is kept as.
LEMMA Answering ==
  ASSUME TypeOK, NEW p \in Process,
         NEW at \in Applying, NEW o \in InstallStates \cup RollbackStates \cup Settled \cup {"raised"},
         Becomes(p, [call[p] EXCEPT !.at = at, !.outcome = o])
  PROVE  Carries(p, at, call[p].upd, call[p].copy, o)
<1>0. call[p] \in Calls
  BY DEF TypeOK
<1>1. [call[p] EXCEPT !.at = at, !.outcome = o] \in Calls
  BY <1>0 DEF Calls
<1>2. Moves(p) /\ call'[p] = [call[p] EXCEPT !.at = at, !.outcome = o]
  BY <1>1, Moving
<1> QED
  BY <1>0, <1>2 DEF Carries, Calls

-----------------------------------------------------------------------------
(* What a step of a process may change, and what it keeps for the others *)

\* The parts of the invariant that are about one process.
Using(p) == rt[p] # "STOPPED" => p \in alive /\ hold = p
Mine(p)  == p \in alive => LeaseOf(p) /\ PlaceOf(p) /\ WorkOf(p) /\ RecordOf(p) /\ PackageOf(p)

\* A lease is taken when it is free and given back by its owner; the package is the
\* driver's, the database and the snapshot a runtime's or a maintenance's.
Touches(p) ==
  /\ p \in alive /\ Moves(p)
  /\ alive' \in {alive, alive \ {p}}
  /\ \A q \in Process \ {p} : rt'[q] = rt[q]
  /\ coord' # coord => coord = p \/ coord \notin alive
  /\ hold' # hold => hold = p \/ hold \notin alive
  /\ bound' # bound => call[p].at = "bind" /\ bound' = bound \cup {call[p].upd}
  /\ \/ asked' = asked
     \/ \E r \in Asked :
          /\ r.by = p
          /\ \/ call[p].at = "install" /\ r.action = "INSTALL"
             \/ call[p].at = "rollback" /\ r.action = "ROLLBACK"
          /\ asked' = [asked EXCEPT ![call[p].upd] = Append(@, r)]
  /\ package' # package => call[p].at \in {"install", "rollback"}
  /\ db'.work = worked'
  /\ db' # db => rt[p] = "RUNNING" \/ call[p].at \in {"migrate", "restore"} \/ hold \notin alive
  /\ \/ db'.schema = db.schema /\ due' = due
     \/ call[p].at \in {"migrate", "restore"} /\ due' = due
     \/ call[p].at = "releaseHold" /\ db' = db /\ due' = db.schema
     \/ call[p].at = "idle" /\ hold \notin alive /\ due' = db'.schema
  /\ snap' # snap => rt[p] = "RUNNING" \/ hold \notin alive
  /\ call'[p].upd \in {call[p].upd, None} \cup bound \cup {u \in Update : ~Exists(u)}
  /\ call'[p].at \in Writing =>
       call'[p].upd = call[p].upd /\ call[p].at \in Writing \cup {"begin"}

\* A journal is begun by prepare, and continued with evidence of the new state.
Continues(u, j, state) ==
  /\ j \in Journal /\ state \in Allowed[StateOf(u)] /\ Evidenced(j, state)
  /\ j.from = journal[u].from /\ j.snapshot = journal[u].snapshot
  /\ j.history = journal[u].history
  /\ Write(u, j, state)

NewPlan(release, copy) ==
  [from |-> release, snapshot |-> copy, history |-> <<"PREPARED">>,
   install |-> "none", rollback |-> "none", restored |-> FALSE]

Plans(p, u) ==
  ~Exists(u) /\ \E release \in package :
    journal' = [journal EXCEPT ![u] = NewPlan(release, call[p].copy)]

Writes(p) ==
  \/ journal' = journal
  \/ call[p].at = "writePlan" /\ \E u \in Update : Plans(p, u)
  \/ /\ call[p].at \in Writers
     /\ \E j, state : /\ Continues(call[p].upd, j, state)
                      /\ state \in Settled => call[p].at = "settle" /\ state = call[p].outcome

\* How a step comes to the ways out of apply, and what it leaves to others.
Comes(p) ==
  LET old == call[p].at  new == call'[p].at IN
  /\ failures > 0 => failures' > 0
  /\ new = "unexpected" =>
       \/ old = "unexpected"
       \/ /\ old \in {"begin"} \cup (Writing \ {"unexpected", "finish", "guardMark"})
          /\ failures' > 0
  /\ new = "finish" =>
       old \in {"finish", "unexpected", "mark", "recordInstall", "recordRollback", "recordRestore"}
  /\ new = "dropHold" =>
       \/ old \in {"dropHold", "verify"}
       \/ old = "unexpected" /\ (StateOf(call[p].upd) = "PREPARED" \/ failures < MaxFailures)
  /\ new = "mark" => old \in {"mark", "releaseHold"}
  /\ hold = p /\ hold' # hold =>
       \/ rt[p] # "STOPPED"
       \/ old \in {"releaseHold", "dropHold"} /\ new # old
  /\ old = "releaseHold" /\ new # old => due' = db'.schema
  /\ rt'[p] # "STOPPED" => rt[p] # "STOPPED" \/ hold \notin alive
  /\ package' # package \/ (db'.schema # db.schema /\ old # "idle") =>
       /\ p \in alive' /\ call'[p].upd = call[p].upd
       /\ old \in {"install", "rollback", "migrate", "restore"}
       /\ new \in {"recordInstall", "recordRollback", "open", "compensate", "guard", "recordRestore"}

\* Where a process is in the course of an update, the update is there.
LEMMA Being ==
  ASSUME IInv, NEW p \in alive,
         call[p].at \in Applying \/ Planned(p)
  PROVE  /\ p \in Process /\ call[p].upd \in Update /\ Exists(call[p].upd)
         /\ journal[call[p].upd] \in Journal
BY NoneAssumption DEF IInv, WriterInv, PlaceOf, PlannedOK, JournalReadable, TypeOK, Exists

\* What a transition does to the journals.
Wrote(u, j, state) ==
  /\ journal'[u] # None /\ Last(journal'[u].history) = state /\ state \in States
  /\ journal'[u].from = journal[u].from /\ journal'[u].snapshot = journal[u].snapshot
  /\ journal'[u].install = j.install /\ journal'[u].rollback = j.rollback
  /\ journal'[u].restored = j.restored
  /\ journal'[u].history = Append(journal[u].history, state)
  /\ journal' \in [Update -> Journal \cup {None}]
  /\ \A v \in Update \ {u} : journal'[v] = journal[v]

\* A transition leaves a journal of the right form, in the new state.
LEMMA Continued ==
  ASSUME JournalReadable, NEW u \in Update, Exists(u), NEW j, NEW state, Continues(u, j, state)
  PROVE  Wrote(u, j, state)
<1>0. journal \in [Update -> Journal \cup {None}] /\ journal[u] \in Journal /\ j \in Journal
  BY NoneAssumption DEF JournalReadable, TypeOK, Exists, Continues
<1>1. journal[u].history \in Seq(States) /\ Len(journal[u].history) > 0
  BY <1>0 DEF JournalReadable, Journal, Exists
<1>2. StateOf(u) \in States
  BY <1>1 DEF StateOf, Last
<1>3. state \in States
  BY <1>2 DEF Continues, Allowed, States, Settled, InFlight
<1>4. [j EXCEPT !.history = Append(@, state)] \in Journal
  <2>1. j.history \in Seq(States)
    BY <1>0 DEF Journal
  <2>2. Append(j.history, state) \in Seq(States)
    BY <1>3, <2>1
  <2> QED
    BY <1>0, <2>2 DEF Journal
<1>5. journal'[u] = [j EXCEPT !.history = Append(@, state)]
  BY <1>0 DEF Continues, Write
<1>6. journal'[u].history = Append(journal[u].history, state)
  BY <1>0, <1>5 DEF Continues, Journal
<1>7. Last(journal'[u].history) = state
  BY <1>1, <1>3, <1>6 DEF StateOf, Last
<1>8. journal' \in [Update -> Journal \cup {None}]
  BY <1>0, <1>4 DEF Continues, Write
<1>9. /\ journal'[u].from = j.from /\ journal'[u].snapshot = j.snapshot
      /\ journal'[u].install = j.install /\ journal'[u].rollback = j.rollback
      /\ journal'[u].restored = j.restored
  BY <1>0, <1>5 DEF Journal
<1>10. journal'[u] # None
  BY <1>4, <1>5, NoneAssumption DEF Exists
<1> QED
  BY <1>0, <1>3, <1>6, <1>7, <1>8, <1>9, <1>10 DEF Continues, Write, Wrote

\* A transition changes a journal, and nothing else of the world.
LEMMA Transitions ==
  ASSUME NEW p \in Process, NEW j, NEW state, Transition(p, j, state)
  PROVE  UNCHANGED <<hold, coord, alive, rt, asked, worked, due, bound, db, snap, package>>
BY DEF Transition, Leases, World

\* An update a process knows of has a journal.
LEMMA Held ==
  ASSUME IInv, NEW q \in alive
  PROVE  call[q].upd = None \/ (call[q].upd \in Update /\ Exists(call[q].upd))
<1>1. call[q] \in Calls /\ PlaceOf(q)
  BY DEF IInv, WriterInv, JournalReadable, TypeOK
<1>2. CASE call[q].at \in Applying \/ Planned(q)
  BY <1>2, Being
<1> QED
  BY <1>1, <1>2 DEF Calls, PlaceOf, Planned, Preparing

\* Everything a step has to keep.
Sound(p) == Touches(p) /\ Writes(p) /\ TypeOK' /\ Using(p)' /\ Mine(p)' /\ Comes(p)

-----------------------------------------------------------------------------
(* Every action is sound: its effect on the local variables first, then what it touches
   and writes, then each part of the invariant for the process that takes the step *)

\* Scan lets prepare on only where no update is unresolved.
LEMMA ScanStep ==
  ASSUME IInv, NEW p \in Process, Scan(p)
  PROVE  Sound(p)
<1> USE UpdateAssumption, NoneAssumption DEF At, World, Leases, Disk, Changing, Goes, Carries, Left,
      Moves, QuitResult, GiveBack, Free
<1>1. \/ Goes(p, "endPrepare")
      \/ Goes(p, "snapshot") /\ \A u \in Update : ~Unresolved(u)
  BY Going DEF IInv, JournalReadable, Scan, Preparing
<1>2. Touches(p)
  BY <1>1 DEF IInv, JournalReadable, TypeOK, Scan, Touches, WorkInv, WriterInv, PlaceOf,
     LeaseInv, LeaseOf, Maintaining, Coordinating, Keeping, Writing, Reached
<1>3. Writes(p)
  BY DEF Scan, Writes
<1>4. TypeOK'
  BY <1>1 DEF IInv, JournalReadable, TypeOK, Scan
<1>5. Using(p)'
  BY <1>1 DEF IInv, JournalReadable, TypeOK, Scan, LeaseInv, LeaseOf, Using, Maintaining,
     Coordinating, Keeping, Stopped
<1>6. p \in alive' => LeaseOf(p)'
  BY <1>1 DEF IInv, JournalReadable, TypeOK, Scan, LeaseInv, LeaseOf, Maintaining, Coordinating,
     Keeping, Stopped
<1>7. p \in alive' => PlaceOf(p)'
  BY <1>1 DEF IInv, JournalReadable, TypeOK, Scan, LeaseInv, WriterInv, PlaceOf, LeaseOf,
     Maintaining, Coordinating, Keeping, Reached, Planned, PlannedOK, Applying, StateOf, Exists,
     Unresolved
<1>8. p \in alive' => WorkOf(p)'
  BY <1>1 DEF IInv, JournalReadable, TypeOK, Scan, WorkInv, WorkOf
<1>9. p \in alive' => RecordOf(p)'
  BY <1>1 DEF IInv, JournalReadable, TypeOK, Scan, RecordInv, RecordOf, Maintaining, Keeping
<1>10. p \in alive' => PackageOf(p)'
  BY <1>1 DEF IInv, JournalReadable, TypeOK, Scan, PackageInv, PackageOf, Target
<1>11. Comes(p)
  BY <1>1 DEF IInv, JournalReadable, TypeOK, Scan, LeaseInv, LeaseOf, Stopped, Keeping,
     Maintaining, Comes, Writing, Reached
<1> QED
  BY <1>2, <1>3, <1>4, <1>5, <1>6, <1>7, <1>8, <1>9, <1>10, <1>11 DEF Sound, Mine

\* The runtime is stopped before the plan is written, or there is no plan.
LEMMA QuitForUpdateStep ==
  ASSUME IInv, NEW p \in Process, QuitForUpdate(p)
  PROVE  Sound(p)
<1> USE UpdateAssumption, NoneAssumption DEF At, World, Leases, Disk, Changing, Goes, Carries, Left,
      Moves, QuitResult, GiveBack, Free
<1>1. \/ rt'[p] = "STOPPED" /\ Goes(p, "fingerprint")
      \/ Goes(p, "endPrepare")
  BY Going DEF IInv, JournalReadable, QuitForUpdate, Preparing
<1>2. Touches(p)
  BY <1>1 DEF IInv, JournalReadable, TypeOK, QuitForUpdate, Touches, WorkInv, WriterInv,
     PlaceOf, LeaseInv, LeaseOf, Maintaining, Coordinating, Keeping, Writing, Reached
<1>3. Writes(p)
  BY DEF QuitForUpdate, Writes
<1>4. TypeOK'
  BY <1>1 DEF IInv, JournalReadable, TypeOK, QuitForUpdate
<1>5. Using(p)'
  BY <1>1 DEF IInv, JournalReadable, TypeOK, QuitForUpdate, LeaseInv, LeaseOf, Using,
     Maintaining, Coordinating, Keeping, Stopped
<1>6. p \in alive' => LeaseOf(p)'
  BY <1>1 DEF IInv, JournalReadable, TypeOK, QuitForUpdate, LeaseInv, LeaseOf, Maintaining,
     Coordinating, Keeping, Stopped
<1>7. p \in alive' => PlaceOf(p)'
  BY <1>1 DEF IInv, JournalReadable, TypeOK, QuitForUpdate, LeaseInv, WriterInv, PlaceOf,
     LeaseOf, Maintaining, Coordinating, Keeping, Reached, Planned, PlannedOK, Applying,
     StateOf, Exists, Unresolved
<1>8. p \in alive' => WorkOf(p)'
  BY <1>1 DEF IInv, JournalReadable, TypeOK, QuitForUpdate, WorkInv, WorkOf
<1>9. p \in alive' => RecordOf(p)'
  BY <1>1 DEF IInv, JournalReadable, TypeOK, QuitForUpdate, RecordInv, RecordOf, Maintaining,
     Keeping
<1>10. p \in alive' => PackageOf(p)'
  BY <1>1 DEF IInv, JournalReadable, TypeOK, QuitForUpdate, PackageInv, PackageOf, Target
<1>11. Comes(p)
  BY <1>1 DEF IInv, JournalReadable, TypeOK, QuitForUpdate, LeaseInv, LeaseOf, Stopped, Keeping,
     Maintaining, Comes, Writing, Reached
<1> QED
  BY <1>2, <1>3, <1>4, <1>5, <1>6, <1>7, <1>8, <1>9, <1>10, <1>11 DEF Sound, Mine

\* The plan is of the snapshot.
LEMMA FingerprintStep ==
  ASSUME IInv, NEW p \in Process, Fingerprint(p)
  PROVE  Sound(p)
<1> USE UpdateAssumption, NoneAssumption DEF At, World, Leases, Disk, Changing, Goes, Carries, Left,
      Moves, QuitResult, GiveBack, Free
<1>1. \/ db = call[p].copy /\ Goes(p, "writePlan")
      \/ Goes(p, "endPrepare")
  BY Going DEF IInv, JournalReadable, Fingerprint, Preparing
<1>2. Touches(p)
  BY <1>1 DEF IInv, JournalReadable, TypeOK, Fingerprint, Touches, WorkInv, WriterInv, PlaceOf,
     LeaseInv, LeaseOf, Maintaining, Coordinating, Keeping, Writing, Reached
<1>3. Writes(p)
  BY DEF Fingerprint, Writes
<1>4. TypeOK'
  BY <1>1 DEF IInv, JournalReadable, TypeOK, Fingerprint
<1>5. Using(p)'
  BY <1>1 DEF IInv, JournalReadable, TypeOK, Fingerprint, LeaseInv, LeaseOf, Using, Maintaining,
     Coordinating, Keeping, Stopped
<1>6. p \in alive' => LeaseOf(p)'
  BY <1>1 DEF IInv, JournalReadable, TypeOK, Fingerprint, LeaseInv, LeaseOf, Maintaining,
     Coordinating, Keeping, Stopped
<1>7. p \in alive' => PlaceOf(p)'
  BY <1>1 DEF IInv, JournalReadable, TypeOK, Fingerprint, LeaseInv, WriterInv, PlaceOf, LeaseOf,
     Maintaining, Coordinating, Keeping, Reached, Planned, PlannedOK, Applying, StateOf, Exists,
     Unresolved
<1>8. p \in alive' => WorkOf(p)'
  BY <1>1 DEF IInv, JournalReadable, TypeOK, Fingerprint, WorkInv, WorkOf
<1>9. p \in alive' => RecordOf(p)'
  BY <1>1 DEF IInv, JournalReadable, TypeOK, Fingerprint, RecordInv, RecordOf, Maintaining,
     Keeping
<1>10. p \in alive' => PackageOf(p)'
  BY <1>1 DEF IInv, JournalReadable, TypeOK, Fingerprint, PackageInv, PackageOf, Target
<1>11. Comes(p)
  BY <1>1 DEF IInv, JournalReadable, TypeOK, Fingerprint, LeaseInv, LeaseOf, Stopped, Keeping,
     Maintaining, Comes, Writing, Reached
<1> QED
  BY <1>2, <1>3, <1>4, <1>5, <1>6, <1>7, <1>8, <1>9, <1>10, <1>11 DEF Sound, Mine

\* The coordination is given back, or not; the plan stays the process's own.
LEMMA EndPrepareStep ==
  ASSUME IInv, NEW p \in Process, EndPrepare(p)
  PROVE  Sound(p)
<1> USE UpdateAssumption, NoneAssumption DEF At, World, Leases, Disk, Changing, Goes, Carries, Left,
      Moves, QuitResult, GiveBack, Free
<1>1. \/ call[p].upd = None /\ Left(p)
      \/ call[p].upd # None /\ coord' = None /\ Goes(p, "bind")
      \/ call[p].upd # None /\ coord' = coord /\ Goes(p, "markPrepare")
  BY Going, Leaving DEF IInv, JournalReadable, EndPrepare, Preparing
<1>2. Touches(p)
  BY <1>1 DEF IInv, JournalReadable, TypeOK, EndPrepare, Touches, WorkInv, WriterInv, PlaceOf,
     LeaseInv, LeaseOf, Maintaining, Coordinating, Keeping, Writing, Reached
<1>3. Writes(p)
  BY DEF EndPrepare, Writes
<1>4. TypeOK'
  BY <1>1 DEF IInv, JournalReadable, TypeOK, EndPrepare
<1>5. Using(p)'
  BY <1>1 DEF IInv, JournalReadable, TypeOK, EndPrepare, LeaseInv, LeaseOf, Using, Maintaining,
     Coordinating, Keeping, Stopped
<1>6. p \in alive' => LeaseOf(p)'
  BY <1>1 DEF IInv, JournalReadable, TypeOK, EndPrepare, LeaseInv, LeaseOf, Maintaining,
     Coordinating, Keeping, Stopped
<1>7. p \in alive' => PlaceOf(p)'
  BY <1>1 DEF IInv, JournalReadable, TypeOK, EndPrepare, LeaseInv, WriterInv, PlaceOf, LeaseOf,
     Maintaining, Coordinating, Keeping, Reached, Planned, PlannedOK, Applying, StateOf, Exists,
     Unresolved
<1>8. p \in alive' => WorkOf(p)'
  BY <1>1 DEF IInv, JournalReadable, TypeOK, EndPrepare, WorkInv, WorkOf
<1>9. p \in alive' => RecordOf(p)'
  BY <1>1 DEF IInv, JournalReadable, TypeOK, EndPrepare, RecordInv, RecordOf, Maintaining, Keeping
<1>10. p \in alive' => PackageOf(p)'
  BY <1>1 DEF IInv, JournalReadable, TypeOK, EndPrepare, PackageInv, PackageOf, Target
<1>11. Comes(p)
  BY <1>1 DEF IInv, JournalReadable, TypeOK, EndPrepare, LeaseInv, LeaseOf, Stopped, Keeping,
     Maintaining, Comes, Writing, Reached
<1> QED
  BY <1>2, <1>3, <1>4, <1>5, <1>6, <1>7, <1>8, <1>9, <1>10, <1>11 DEF Sound, Mine

\* One process coordinates.
LEMMA CoordinateStep ==
  ASSUME IInv, NEW p \in Process, Coordinate(p)
  PROVE  Sound(p)
<1> USE UpdateAssumption, NoneAssumption DEF At, World, Leases, Disk, Changing, Goes, Carries, Left,
      Moves, QuitResult, GiveBack, Free
<1>1. \/ coord' = p /\ Goes(p, "recheck")
      \/ Left(p)
  BY Going, Leaving DEF IInv, JournalReadable, Coordinate, Applying
<1>2. Touches(p)
  BY <1>1 DEF IInv, JournalReadable, TypeOK, Coordinate, Touches, WorkInv, WriterInv, PlaceOf,
     LeaseInv, LeaseOf, Maintaining, Coordinating, Keeping, Writing, Reached
<1>3. Writes(p)
  BY DEF Coordinate, Writes
<1>4. TypeOK'
  BY <1>1 DEF IInv, JournalReadable, TypeOK, Coordinate
<1>5. Using(p)'
  BY <1>1 DEF IInv, JournalReadable, TypeOK, Coordinate, LeaseInv, LeaseOf, Using, Maintaining,
     Coordinating, Keeping, Stopped
<1>6. p \in alive' => LeaseOf(p)'
  BY <1>1 DEF IInv, JournalReadable, TypeOK, Coordinate, LeaseInv, LeaseOf, Maintaining,
     Coordinating, Keeping, Stopped
<1>7. p \in alive' => PlaceOf(p)'
  BY <1>1 DEF IInv, JournalReadable, TypeOK, Coordinate, LeaseInv, WriterInv, PlaceOf, LeaseOf,
     Maintaining, Coordinating, Keeping, Reached, Planned, PlannedOK, Applying, StateOf, Exists,
     Unresolved
<1>8. p \in alive' => WorkOf(p)'
  BY <1>1 DEF IInv, JournalReadable, TypeOK, Coordinate, WorkInv, WorkOf
<1>9. p \in alive' => RecordOf(p)'
  BY <1>1 DEF IInv, JournalReadable, TypeOK, Coordinate, RecordInv, RecordOf, Maintaining, Keeping
<1>10. p \in alive' => PackageOf(p)'
  BY <1>1 DEF IInv, JournalReadable, TypeOK, Coordinate, PackageInv, PackageOf, Target
<1>11. Comes(p)
  BY <1>1 DEF IInv, JournalReadable, TypeOK, Coordinate, LeaseInv, LeaseOf, Stopped, Keeping,
     Maintaining, Comes, Writing, Reached
<1> QED
  BY <1>2, <1>3, <1>4, <1>5, <1>6, <1>7, <1>8, <1>9, <1>10, <1>11 DEF Sound, Mine

\* The update is still prepared when its process coordinates.
LEMMA RecheckStep ==
  ASSUME IInv, NEW p \in Process, Recheck(p)
  PROVE  Sound(p)
<1> USE UpdateAssumption, NoneAssumption DEF At, World, Leases, Disk, Changing, Goes, Carries, Left,
      Moves, QuitResult, GiveBack, Free
<1>1. \/ StateOf(call[p].upd) = "PREPARED" /\ Goes(p, "hold")
      \/ Goes(p, "dropCoord")
  BY Going DEF IInv, JournalReadable, Recheck, Applying
<1>2. Touches(p)
  BY <1>1 DEF IInv, JournalReadable, TypeOK, Recheck, Touches, WorkInv, WriterInv, PlaceOf,
     LeaseInv, LeaseOf, Maintaining, Coordinating, Keeping, Writing, Reached
<1>3. Writes(p)
  BY DEF Recheck, Writes
<1>4. TypeOK'
  BY <1>1 DEF IInv, JournalReadable, TypeOK, Recheck
<1>5. Using(p)'
  BY <1>1 DEF IInv, JournalReadable, TypeOK, Recheck, LeaseInv, LeaseOf, Using, Maintaining,
     Coordinating, Keeping, Stopped
<1>6. p \in alive' => LeaseOf(p)'
  BY <1>1 DEF IInv, JournalReadable, TypeOK, Recheck, LeaseInv, LeaseOf, Maintaining,
     Coordinating, Keeping, Stopped
<1>7. p \in alive' => PlaceOf(p)'
  BY <1>1 DEF IInv, JournalReadable, TypeOK, Recheck, LeaseInv, WriterInv, PlaceOf, LeaseOf,
     Maintaining, Coordinating, Keeping, Reached, Planned, PlannedOK, Applying, StateOf, Exists,
     Unresolved
<1>8. p \in alive' => WorkOf(p)'
  BY <1>1 DEF IInv, JournalReadable, TypeOK, Recheck, WorkInv, WorkOf
<1>9. p \in alive' => RecordOf(p)'
  BY <1>1 DEF IInv, JournalReadable, TypeOK, Recheck, RecordInv, RecordOf, Maintaining, Keeping
<1>10. p \in alive' => PackageOf(p)'
  BY <1>1 DEF IInv, JournalReadable, TypeOK, Recheck, PackageInv, PackageOf, Target
<1>11. Comes(p)
  BY <1>1 DEF IInv, JournalReadable, TypeOK, Recheck, LeaseInv, LeaseOf, Stopped, Keeping,
     Maintaining, Comes, Writing, Reached
<1> QED
  BY <1>2, <1>3, <1>4, <1>5, <1>6, <1>7, <1>8, <1>9, <1>10, <1>11 DEF Sound, Mine

\* Nobody runs where maintenance begins.
LEMMA HoldStep ==
  ASSUME IInv, NEW p \in Process, Hold(p)
  PROVE  Sound(p)
<1> USE UpdateAssumption, NoneAssumption DEF At, World, Leases, Disk, Changing, Goes, Carries, Left,
      Moves, QuitResult, GiveBack, Free
<1>1. \/ Free(hold) /\ hold' = p /\ Goes(p, "verify")
      \/ hold' = hold /\ Goes(p, "dropCoord")
  BY Going DEF IInv, JournalReadable, Hold, Applying
<1>2. Touches(p)
  BY <1>1 DEF IInv, JournalReadable, TypeOK, Hold, Touches, WorkInv, WriterInv, PlaceOf,
     LeaseInv, LeaseOf, Maintaining, Coordinating, Keeping, Writing, Reached
<1>3. Writes(p)
  BY DEF Hold, Writes
<1>4. TypeOK'
  BY <1>1 DEF IInv, JournalReadable, TypeOK, Hold
<1>5. Using(p)'
  BY <1>1 DEF IInv, JournalReadable, TypeOK, Hold, LeaseInv, LeaseOf, Using, Maintaining,
     Coordinating, Keeping, Stopped
<1>6. p \in alive' => LeaseOf(p)'
  BY <1>1 DEF IInv, JournalReadable, TypeOK, Hold, LeaseInv, LeaseOf, Maintaining, Coordinating,
     Keeping, Stopped
<1>7. p \in alive' => PlaceOf(p)'
  BY <1>1 DEF IInv, JournalReadable, TypeOK, Hold, LeaseInv, WriterInv, PlaceOf, LeaseOf,
     Maintaining, Coordinating, Keeping, Reached, Planned, PlannedOK, Applying, StateOf, Exists,
     Unresolved
<1>8. p \in alive' => WorkOf(p)'
  BY <1>1 DEF IInv, JournalReadable, TypeOK, Hold, WorkInv, WorkOf
<1>9. p \in alive' => RecordOf(p)'
  BY <1>1 DEF IInv, JournalReadable, TypeOK, Hold, RecordInv, RecordOf, Maintaining, Keeping
<1>10. p \in alive' => PackageOf(p)'
  BY <1>1 DEF IInv, JournalReadable, TypeOK, Hold, PackageInv, PackageOf, Target
<1>11. Comes(p)
  BY <1>1 DEF IInv, JournalReadable, TypeOK, Hold, LeaseInv, LeaseOf, Stopped, Keeping,
     Maintaining, Comes, Writing, Reached
<1> QED
  BY <1>2, <1>3, <1>4, <1>5, <1>6, <1>7, <1>8, <1>9, <1>10, <1>11 DEF Sound, Mine

\* What apply begins with is what prepare saw: whole, and the snapshot.
LEMMA VerifyStep ==
  ASSUME IInv, NEW p \in Process, Verify(p)
  PROVE  Sound(p)
<1> USE UpdateAssumption, NoneAssumption DEF At, World, Leases, Disk, Changing, Goes, Carries, Left,
      Moves, QuitResult, GiveBack, Free
<1>1. \/ {snap, db} = {journal[call[p].upd].snapshot} /\ Goes(p, "begin")
      \/ Goes(p, "dropHold")
  BY Going DEF IInv, JournalReadable, Verify, Applying
<1>2. Touches(p)
  BY <1>1 DEF IInv, JournalReadable, TypeOK, Verify, Touches, WorkInv, WriterInv, PlaceOf,
     LeaseInv, LeaseOf, Maintaining, Coordinating, Keeping, Writing, Reached
<1>3. Writes(p)
  BY DEF Verify, Writes
<1>4. TypeOK'
  BY <1>1 DEF IInv, JournalReadable, TypeOK, Verify
<1>5. Using(p)'
  BY <1>1 DEF IInv, JournalReadable, TypeOK, Verify, LeaseInv, LeaseOf, Using, Maintaining,
     Coordinating, Keeping, Stopped
<1>6. p \in alive' => LeaseOf(p)'
  BY <1>1 DEF IInv, JournalReadable, TypeOK, Verify, LeaseInv, LeaseOf, Maintaining,
     Coordinating, Keeping, Stopped
<1>7. p \in alive' => PlaceOf(p)'
  BY <1>1 DEF IInv, JournalReadable, TypeOK, Verify, LeaseInv, WriterInv, PlaceOf, LeaseOf,
     Maintaining, Coordinating, Keeping, Reached, Planned, PlannedOK, Applying, StateOf, Exists,
     Unresolved
<1>0. /\ call[p].upd \in Update /\ Exists(call[p].upd) /\ StateOf(call[p].upd) = "PREPARED"
      /\ Whole /\ package = {journal[call[p].upd].from} /\ db.work = worked
  <2>1. call[p].upd \in Update /\ Exists(call[p].upd) /\ StateOf(call[p].upd) = "PREPARED"
    BY Being DEF Verify, IInv, WriterInv, PlaceOf, Reached, Applying
  <2> QED
    BY <2>1 DEF IInv, WorkInv, PackageInv, OneUnresolved, Unresolved, Settled
<1>8. p \in alive' => WorkOf(p)'
  <2>1. CASE {snap, db} = {journal[call[p].upd].snapshot} /\ Goes(p, "begin")
    <3>1. /\ call'[p].at = "begin" /\ db' = db /\ snap' = snap /\ journal' = journal
          /\ call'[p].upd = call[p].upd /\ worked' = worked /\ due' = due
      BY <2>1 DEF Verify
    <3>2. db = journal[call[p].upd].snapshot /\ snap = journal[call[p].upd].snapshot
      BY <2>1
    <3>3. db.schema = due
      BY <1>0 DEF Whole
    <3> QED
      BY <1>0, <3>1, <3>2, <3>3 DEF WorkOf
  <2>2. CASE Goes(p, "dropHold")
    BY <2>2 DEF WorkOf
  <2> QED
    BY <1>1, <2>1, <2>2
<1>9. p \in alive' => RecordOf(p)'
  BY <1>1 DEF IInv, JournalReadable, TypeOK, Verify, RecordInv, RecordOf, Maintaining, Keeping
<1>10. p \in alive' => PackageOf(p)'
  <2>1. CASE Goes(p, "begin")
    <3>1. /\ call'[p].at = "begin" /\ package' = package /\ journal' = journal
          /\ call'[p].upd = call[p].upd
      BY <2>1 DEF Verify
    <3> QED
      BY <1>0, <3>1 DEF PackageOf
  <2>2. CASE Goes(p, "dropHold")
    BY <2>2 DEF PackageOf
  <2> QED
    BY <1>1, <2>1, <2>2
<1>11. Comes(p)
  BY <1>1 DEF IInv, JournalReadable, TypeOK, Verify, LeaseInv, LeaseOf, Stopped, Keeping,
     Maintaining, Comes, Writing, Reached
<1> QED
  BY <1>2, <1>3, <1>4, <1>5, <1>6, <1>7, <1>8, <1>9, <1>10, <1>11 DEF Sound, Mine

\* The lease is given back with the package whole.
LEMMA ReleaseHoldStep ==
  ASSUME IInv, NEW p \in Process, ReleaseHold(p)
  PROVE  Sound(p)
<1> USE UpdateAssumption, NoneAssumption DEF At, World, Leases, Disk, Changing, Goes, Carries, Left,
      Moves, QuitResult, GiveBack, Free
<1>1. \/ hold' = None /\ Goes(p, "releaseCoord")
      \/ hold' = hold /\ Goes(p, "mark")
  BY Going DEF IInv, JournalReadable, ReleaseHold, Applying
<1>0. due' = db.schema /\ due' \in Release
  BY DEF ReleaseHold, IInv, PackageInv, PackageOf, JournalReadable, TypeOK, Database
<1>2. Touches(p)
  BY <1>0, <1>1 DEF IInv, JournalReadable, TypeOK, ReleaseHold, Touches, WorkInv, WriterInv, PlaceOf,
     LeaseInv, LeaseOf, Maintaining, Coordinating, Keeping, Writing, Reached
<1>3. Writes(p)
  BY DEF ReleaseHold, Writes
<1>4. TypeOK'
  BY <1>0, <1>1 DEF IInv, JournalReadable, TypeOK, ReleaseHold
<1>5. Using(p)'
  BY <1>1 DEF IInv, JournalReadable, TypeOK, ReleaseHold, LeaseInv, LeaseOf, Using, Maintaining,
     Coordinating, Keeping, Stopped
<1>6. p \in alive' => LeaseOf(p)'
  BY <1>1 DEF IInv, JournalReadable, TypeOK, ReleaseHold, LeaseInv, LeaseOf, Maintaining,
     Coordinating, Keeping, Stopped
<1>7. p \in alive' => PlaceOf(p)'
  BY <1>1 DEF IInv, JournalReadable, TypeOK, ReleaseHold, LeaseInv, WriterInv, PlaceOf, LeaseOf,
     Maintaining, Coordinating, Keeping, Reached, Planned, PlannedOK, Applying, StateOf, Exists,
     Unresolved
<1>8. p \in alive' => WorkOf(p)'
  BY <1>1 DEF IInv, JournalReadable, TypeOK, ReleaseHold, WorkInv, WorkOf
<1>9. p \in alive' => RecordOf(p)'
  BY <1>1 DEF IInv, JournalReadable, TypeOK, ReleaseHold, RecordInv, RecordOf, Maintaining,
     Keeping
<1>10. p \in alive' => PackageOf(p)'
  BY <1>0, <1>1 DEF IInv, JournalReadable, TypeOK, ReleaseHold, PackageInv, PackageOf, Target
<1>11. Comes(p)
  BY <1>0, <1>1 DEF IInv, JournalReadable, TypeOK, ReleaseHold, LeaseInv, LeaseOf, Stopped, Keeping,
     Maintaining, Comes, Writing, Reached
<1> QED
  BY <1>2, <1>3, <1>4, <1>5, <1>6, <1>7, <1>8, <1>9, <1>10, <1>11 DEF Sound, Mine

\* Recovery gives back the coordination only.
LEMMA FinishStep ==
  ASSUME IInv, NEW p \in Process, Finish(p)
  PROVE  Sound(p)
<1> USE UpdateAssumption, NoneAssumption DEF At, World, Leases, Disk, Changing, Goes, Carries, Left,
      Moves, QuitResult, GiveBack, Free
<1>1. Left(p)
  BY Leaving DEF IInv, JournalReadable, Finish
<1>2. Touches(p)
  BY <1>1 DEF IInv, JournalReadable, TypeOK, Finish, Touches, WorkInv, WriterInv, PlaceOf,
     LeaseInv, LeaseOf, Maintaining, Coordinating, Keeping, Writing, Reached
<1>3. Writes(p)
  BY DEF Finish, Writes
<1>4. TypeOK'
  BY <1>1 DEF IInv, JournalReadable, TypeOK, Finish
<1>5. Using(p)'
  BY <1>1 DEF IInv, JournalReadable, TypeOK, Finish, LeaseInv, LeaseOf, Using, Maintaining,
     Coordinating, Keeping, Stopped
<1>6. p \in alive' => LeaseOf(p)'
  BY <1>1 DEF IInv, JournalReadable, TypeOK, Finish, LeaseInv, LeaseOf, Maintaining,
     Coordinating, Keeping, Stopped
<1>7. p \in alive' => PlaceOf(p)'
  BY <1>1 DEF IInv, JournalReadable, TypeOK, Finish, LeaseInv, WriterInv, PlaceOf, LeaseOf,
     Maintaining, Coordinating, Keeping, Reached, Planned, PlannedOK, Applying, StateOf, Exists,
     Unresolved
<1>8. p \in alive' => WorkOf(p)'
  BY <1>1 DEF IInv, JournalReadable, TypeOK, Finish, WorkInv, WorkOf
<1>9. p \in alive' => RecordOf(p)'
  BY <1>1 DEF IInv, JournalReadable, TypeOK, Finish, RecordInv, RecordOf, Maintaining, Keeping
<1>10. p \in alive' => PackageOf(p)'
  BY <1>1 DEF IInv, JournalReadable, TypeOK, Finish, PackageInv, PackageOf, Target
<1>11. Comes(p)
  BY <1>1 DEF IInv, JournalReadable, TypeOK, Finish, LeaseInv, LeaseOf, Stopped, Keeping,
     Maintaining, Comes, Writing, Reached
<1> QED
  BY <1>2, <1>3, <1>4, <1>5, <1>6, <1>7, <1>8, <1>9, <1>10, <1>11 DEF Sound, Mine

\* A lease that is dropped is the process's own.
LEMMA DropHoldStep ==
  ASSUME IInv, NEW p \in Process, DropHold(p)
  PROVE  Sound(p)
<1> USE UpdateAssumption, NoneAssumption DEF At, World, Leases, Disk, Changing, Goes, Carries, Left,
      Moves, QuitResult, GiveBack, Free
<1>1. Goes(p, "dropCoord")
  BY Going DEF IInv, JournalReadable, DropHold, Applying
<1>2. Touches(p)
  BY <1>1 DEF IInv, JournalReadable, TypeOK, DropHold, Touches, WorkInv, WriterInv, PlaceOf,
     LeaseInv, LeaseOf, Maintaining, Coordinating, Keeping, Writing, Reached
<1>3. Writes(p)
  BY DEF DropHold, Writes
<1>4. TypeOK'
  BY <1>1 DEF IInv, JournalReadable, TypeOK, DropHold
<1>5. Using(p)'
  BY <1>1 DEF IInv, JournalReadable, TypeOK, DropHold, LeaseInv, LeaseOf, Using, Maintaining,
     Coordinating, Keeping, Stopped
<1>6. p \in alive' => LeaseOf(p)'
  BY <1>1 DEF IInv, JournalReadable, TypeOK, DropHold, LeaseInv, LeaseOf, Maintaining,
     Coordinating, Keeping, Stopped
<1>7. p \in alive' => PlaceOf(p)'
  BY <1>1 DEF IInv, JournalReadable, TypeOK, DropHold, LeaseInv, WriterInv, PlaceOf, LeaseOf,
     Maintaining, Coordinating, Keeping, Reached, Planned, PlannedOK, Applying, StateOf, Exists,
     Unresolved
<1>8. p \in alive' => WorkOf(p)'
  BY <1>1 DEF IInv, JournalReadable, TypeOK, DropHold, WorkInv, WorkOf
<1>9. p \in alive' => RecordOf(p)'
  BY <1>1 DEF IInv, JournalReadable, TypeOK, DropHold, RecordInv, RecordOf, Maintaining, Keeping
<1>10. p \in alive' => PackageOf(p)'
  BY <1>1 DEF IInv, JournalReadable, TypeOK, DropHold, PackageInv, PackageOf, Target
<1>11. Comes(p)
  BY <1>1 DEF IInv, JournalReadable, TypeOK, DropHold, LeaseInv, LeaseOf, Stopped, Keeping,
     Maintaining, Comes, Writing, Reached
<1> QED
  BY <1>2, <1>3, <1>4, <1>5, <1>6, <1>7, <1>8, <1>9, <1>10, <1>11 DEF Sound, Mine

\* So is a coordination that is dropped.
LEMMA DropCoordStep ==
  ASSUME IInv, NEW p \in Process, DropCoord(p)
  PROVE  Sound(p)
<1> USE UpdateAssumption, NoneAssumption DEF At, World, Leases, Disk, Changing, Goes, Carries, Left,
      Moves, QuitResult, GiveBack, Free
<1>1. Left(p)
  BY Leaving DEF IInv, JournalReadable, DropCoord
<1>2. Touches(p)
  BY <1>1 DEF IInv, JournalReadable, TypeOK, DropCoord, Touches, WorkInv, WriterInv, PlaceOf,
     LeaseInv, LeaseOf, Maintaining, Coordinating, Keeping, Writing, Reached
<1>3. Writes(p)
  BY DEF DropCoord, Writes
<1>4. TypeOK'
  BY <1>1 DEF IInv, JournalReadable, TypeOK, DropCoord
<1>5. Using(p)'
  BY <1>1 DEF IInv, JournalReadable, TypeOK, DropCoord, LeaseInv, LeaseOf, Using, Maintaining,
     Coordinating, Keeping, Stopped
<1>6. p \in alive' => LeaseOf(p)'
  BY <1>1 DEF IInv, JournalReadable, TypeOK, DropCoord, LeaseInv, LeaseOf, Maintaining,
     Coordinating, Keeping, Stopped
<1>7. p \in alive' => PlaceOf(p)'
  BY <1>1 DEF IInv, JournalReadable, TypeOK, DropCoord, LeaseInv, WriterInv, PlaceOf, LeaseOf,
     Maintaining, Coordinating, Keeping, Reached, Planned, PlannedOK, Applying, StateOf, Exists,
     Unresolved
<1>8. p \in alive' => WorkOf(p)'
  BY <1>1 DEF IInv, JournalReadable, TypeOK, DropCoord, WorkInv, WorkOf
<1>9. p \in alive' => RecordOf(p)'
  BY <1>1 DEF IInv, JournalReadable, TypeOK, DropCoord, RecordInv, RecordOf, Maintaining, Keeping
<1>10. p \in alive' => PackageOf(p)'
  BY <1>1 DEF IInv, JournalReadable, TypeOK, DropCoord, PackageInv, PackageOf, Target
<1>11. Comes(p)
  BY <1>1 DEF IInv, JournalReadable, TypeOK, DropCoord, LeaseInv, LeaseOf, Stopped, Keeping,
     Maintaining, Comes, Writing, Reached
<1> QED
  BY <1>2, <1>3, <1>4, <1>5, <1>6, <1>7, <1>8, <1>9, <1>10, <1>11 DEF Sound, Mine

\* The guarded recovery gives back the coordination first.
LEMMA GuardStep ==
  ASSUME IInv, NEW p \in Process, Guard(p)
  PROVE  Sound(p)
<1> USE UpdateAssumption, NoneAssumption DEF At, World, Leases, Disk, Changing, Goes, Carries, Left,
      Moves, QuitResult, GiveBack, Free
<1>1. Goes(p, "guardMark")
  BY Going DEF IInv, JournalReadable, Guard, Applying
<1>2. Touches(p)
  BY <1>1 DEF IInv, JournalReadable, TypeOK, Guard, Touches, WorkInv, WriterInv, PlaceOf,
     LeaseInv, LeaseOf, Maintaining, Coordinating, Keeping, Writing, Reached
<1>3. Writes(p)
  BY DEF Guard, Writes
<1>4. TypeOK'
  BY <1>1 DEF IInv, JournalReadable, TypeOK, Guard
<1>5. Using(p)'
  BY <1>1 DEF IInv, JournalReadable, TypeOK, Guard, LeaseInv, LeaseOf, Using, Maintaining,
     Coordinating, Keeping, Stopped
<1>6. p \in alive' => LeaseOf(p)'
  BY <1>1 DEF IInv, JournalReadable, TypeOK, Guard, LeaseInv, LeaseOf, Maintaining,
     Coordinating, Keeping, Stopped
<1>7. p \in alive' => PlaceOf(p)'
  BY <1>1 DEF IInv, JournalReadable, TypeOK, Guard, LeaseInv, WriterInv, PlaceOf, LeaseOf,
     Maintaining, Coordinating, Keeping, Reached, Planned, PlannedOK, Applying, StateOf, Exists,
     Unresolved
<1>8. p \in alive' => WorkOf(p)'
  BY <1>1 DEF IInv, JournalReadable, TypeOK, Guard, WorkInv, WorkOf
<1>9. p \in alive' => RecordOf(p)'
  BY <1>1 DEF IInv, JournalReadable, TypeOK, Guard, RecordInv, RecordOf, Maintaining, Keeping
<1>10. p \in alive' => PackageOf(p)'
  BY <1>1 DEF IInv, JournalReadable, TypeOK, Guard, PackageInv, PackageOf, Target
<1>11. Comes(p)
  BY <1>1 DEF IInv, JournalReadable, TypeOK, Guard, LeaseInv, LeaseOf, Stopped, Keeping,
     Maintaining, Comes, Writing, Reached
<1> QED
  BY <1>2, <1>3, <1>4, <1>5, <1>6, <1>7, <1>8, <1>9, <1>10, <1>11 DEF Sound, Mine

\* A runtime starts where nobody has the lease.
LEMMA LaunchStep ==
  ASSUME IInv, NEW p \in Process, Launch(p)
  PROVE  Sound(p)
<1> USE UpdateAssumption, NoneAssumption DEF At, World, Leases, Disk, Changing, Goes, Carries, Left,
      Moves, QuitResult, GiveBack, Free
<1>1. call' = call
  BY DEF IInv, JournalReadable, Launch
<1>2. Touches(p)
  BY <1>1 DEF IInv, JournalReadable, TypeOK, Launch, Touches, WorkInv, WriterInv, PlaceOf,
     LeaseInv, LeaseOf, Maintaining, Coordinating, Keeping, Writing, Reached
<1>3. Writes(p)
  BY DEF Launch, Writes
<1>4. TypeOK'
  BY <1>1 DEF IInv, JournalReadable, TypeOK, Launch
<1>5. Using(p)'
  BY <1>1 DEF IInv, JournalReadable, TypeOK, Launch, LeaseInv, LeaseOf, Using, Maintaining,
     Coordinating, Keeping, Stopped
<1>6. p \in alive' => LeaseOf(p)'
  BY <1>1 DEF IInv, JournalReadable, TypeOK, Launch, LeaseInv, LeaseOf, Maintaining,
     Coordinating, Keeping, Stopped
<1>7. p \in alive' => PlaceOf(p)'
  BY <1>1 DEF IInv, JournalReadable, TypeOK, Launch, LeaseInv, WriterInv, PlaceOf, LeaseOf,
     Maintaining, Coordinating, Keeping, Reached, Planned, PlannedOK, Applying, StateOf, Exists,
     Unresolved
<1>8. p \in alive' => WorkOf(p)'
  BY <1>1 DEF IInv, JournalReadable, TypeOK, Launch, WorkInv, WorkOf
<1>9. p \in alive' => RecordOf(p)'
  BY <1>1 DEF IInv, JournalReadable, TypeOK, Launch, RecordInv, RecordOf, Maintaining, Keeping
<1>10. p \in alive' => PackageOf(p)'
  BY <1>1 DEF IInv, JournalReadable, TypeOK, Launch, PackageInv, PackageOf, Target
<1>11. Comes(p)
  BY <1>1 DEF IInv, JournalReadable, TypeOK, Launch, LeaseInv, LeaseOf, Stopped, Keeping,
     Maintaining, Comes, Writing, Reached
<1> QED
  BY <1>2, <1>3, <1>4, <1>5, <1>6, <1>7, <1>8, <1>9, <1>10, <1>11 DEF Sound, Mine

\* A runtime stops and gives the lease back, or keeps both.
LEMMA QuitStep ==
  ASSUME IInv, NEW p \in Process, Quit(p)
  PROVE  Sound(p)
<1> USE UpdateAssumption, NoneAssumption DEF At, World, Leases, Disk, Changing, Goes, Carries, Left,
      Moves, QuitResult, GiveBack, Free
<1>1. call' = call
  BY DEF IInv, JournalReadable, Quit
<1>2. Touches(p)
  BY <1>1 DEF IInv, JournalReadable, TypeOK, Quit, Touches, WorkInv, WriterInv, PlaceOf,
     LeaseInv, LeaseOf, Maintaining, Coordinating, Keeping, Writing, Reached
<1>3. Writes(p)
  BY DEF Quit, Writes
<1>4. TypeOK'
  BY <1>1 DEF IInv, JournalReadable, TypeOK, Quit
<1>5. Using(p)'
  BY <1>1 DEF IInv, JournalReadable, TypeOK, Quit, LeaseInv, LeaseOf, Using, Maintaining,
     Coordinating, Keeping, Stopped
<1>6. p \in alive' => LeaseOf(p)'
  BY <1>1 DEF IInv, JournalReadable, TypeOK, Quit, LeaseInv, LeaseOf, Maintaining, Coordinating,
     Keeping, Stopped
<1>7. p \in alive' => PlaceOf(p)'
  BY <1>1 DEF IInv, JournalReadable, TypeOK, Quit, LeaseInv, WriterInv, PlaceOf, LeaseOf,
     Maintaining, Coordinating, Keeping, Reached, Planned, PlannedOK, Applying, StateOf, Exists,
     Unresolved
<1>8. p \in alive' => WorkOf(p)'
  BY <1>1 DEF IInv, JournalReadable, TypeOK, Quit, WorkInv, WorkOf
<1>9. p \in alive' => RecordOf(p)'
  BY <1>1 DEF IInv, JournalReadable, TypeOK, Quit, RecordInv, RecordOf, Maintaining, Keeping
<1>10. p \in alive' => PackageOf(p)'
  BY <1>1 DEF IInv, JournalReadable, TypeOK, Quit, PackageInv, PackageOf, Target
<1>11. Comes(p)
  BY <1>1 DEF IInv, JournalReadable, TypeOK, Quit, LeaseInv, LeaseOf, Stopped, Keeping,
     Maintaining, Comes, Writing, Reached
<1> QED
  BY <1>2, <1>3, <1>4, <1>5, <1>6, <1>7, <1>8, <1>9, <1>10, <1>11 DEF Sound, Mine

\* A process may end anywhere.
LEMMA EndStep ==
  ASSUME IInv, NEW p \in Process, End(p)
  PROVE  Sound(p)
<1> USE UpdateAssumption, NoneAssumption DEF At, World, Leases, Disk, Changing, Goes, Carries, Left,
      Moves, QuitResult, GiveBack, Free
<1>1. call' = call
  BY DEF IInv, JournalReadable, End
<1>2. Touches(p)
  BY <1>1 DEF IInv, JournalReadable, TypeOK, End, Touches, WorkInv, WriterInv, PlaceOf,
     LeaseInv, LeaseOf, Maintaining, Coordinating, Keeping, Writing, Reached
<1>3. Writes(p)
  BY DEF End, Writes
<1>4. TypeOK'
  BY <1>1 DEF IInv, JournalReadable, TypeOK, End
<1>5. Using(p)'
  BY <1>1 DEF IInv, JournalReadable, TypeOK, End, LeaseInv, LeaseOf, Using, Maintaining,
     Coordinating, Keeping, Stopped
<1>6. p \in alive' => LeaseOf(p)'
  BY <1>1 DEF IInv, JournalReadable, TypeOK, End, LeaseInv, LeaseOf, Maintaining, Coordinating,
     Keeping, Stopped
<1>7. p \in alive' => PlaceOf(p)'
  BY <1>1 DEF IInv, JournalReadable, TypeOK, End, LeaseInv, WriterInv, PlaceOf, LeaseOf,
     Maintaining, Coordinating, Keeping, Reached, Planned, PlannedOK, Applying, StateOf, Exists,
     Unresolved
<1>8. p \in alive' => WorkOf(p)'
  BY <1>1 DEF IInv, JournalReadable, TypeOK, End, WorkInv, WorkOf
<1>9. p \in alive' => RecordOf(p)'
  BY <1>1 DEF IInv, JournalReadable, TypeOK, End, RecordInv, RecordOf, Maintaining, Keeping
<1>10. p \in alive' => PackageOf(p)'
  BY <1>1 DEF IInv, JournalReadable, TypeOK, End, PackageInv, PackageOf, Target
<1>11. Comes(p)
  BY <1>1 DEF IInv, JournalReadable, TypeOK, End, LeaseInv, LeaseOf, Stopped, Keeping,
     Maintaining, Comes, Writing, Reached
<1> QED
  BY <1>2, <1>3, <1>4, <1>5, <1>6, <1>7, <1>8, <1>9, <1>10, <1>11 DEF Sound, Mine

\* prepare() begins with the coordination.
LEMMA CallPrepareStep ==
  ASSUME IInv, NEW p \in Process, CallPrepare(p)
  PROVE  Sound(p)
<1> USE UpdateAssumption, NoneAssumption DEF At, World, Leases, Disk, Changing, Goes, Carries, Left,
      Moves, QuitResult, GiveBack, Free
<1>1. Goes(p, "scan")
  BY Going DEF IInv, JournalReadable, CallPrepare, Preparing
<1>2. Touches(p)
  BY <1>1 DEF IInv, JournalReadable, TypeOK, CallPrepare, Touches, WorkInv, WriterInv, PlaceOf,
     LeaseInv, LeaseOf, Maintaining, Coordinating, Keeping, Writing, Reached
<1>3. Writes(p)
  BY DEF CallPrepare, Writes
<1>4. TypeOK'
  BY <1>1 DEF IInv, JournalReadable, TypeOK, CallPrepare
<1>5. Using(p)'
  BY <1>1 DEF IInv, JournalReadable, TypeOK, CallPrepare, LeaseInv, LeaseOf, Using, Maintaining,
     Coordinating, Keeping, Stopped
<1>6. p \in alive' => LeaseOf(p)'
  BY <1>1 DEF IInv, JournalReadable, TypeOK, CallPrepare, LeaseInv, LeaseOf, Maintaining,
     Coordinating, Keeping, Stopped
<1>7. p \in alive' => PlaceOf(p)'
  BY <1>1 DEF IInv, JournalReadable, TypeOK, CallPrepare, LeaseInv, WriterInv, PlaceOf, LeaseOf,
     Maintaining, Coordinating, Keeping, Reached, Planned, PlannedOK, Applying, StateOf, Exists,
     Unresolved
<1>8. p \in alive' => WorkOf(p)'
  BY <1>1 DEF IInv, JournalReadable, TypeOK, CallPrepare, WorkInv, WorkOf
<1>9. p \in alive' => RecordOf(p)'
  BY <1>1 DEF IInv, JournalReadable, TypeOK, CallPrepare, RecordInv, RecordOf, Maintaining,
     Keeping
<1>10. p \in alive' => PackageOf(p)'
  BY <1>1 DEF IInv, JournalReadable, TypeOK, CallPrepare, PackageInv, PackageOf, Target
<1>11. Comes(p)
  BY <1>1 DEF IInv, JournalReadable, TypeOK, CallPrepare, LeaseInv, LeaseOf, Stopped, Keeping,
     Maintaining, Comes, Writing, Reached
<1> QED
  BY <1>2, <1>3, <1>4, <1>5, <1>6, <1>7, <1>8, <1>9, <1>10, <1>11 DEF Sound, Mine

\* apply() begins with an update that is bound.
LEMMA CallApplyStep ==
  ASSUME IInv, NEW p \in Process, NEW u \in Update, CallApply(p, u)
  PROVE  Sound(p)
<1> USE UpdateAssumption, NoneAssumption DEF At, World, Leases, Disk, Changing, Goes, Carries, Left,
      Moves, QuitResult, GiveBack, Free
<1>1. Carries(p, "coordinate", u, None, "none")
  BY Calling DEF IInv, JournalReadable, CallApply
<1>2. Touches(p)
  BY <1>1 DEF IInv, JournalReadable, TypeOK, CallApply, Touches, WorkInv, WriterInv, PlaceOf,
     LeaseInv, LeaseOf, Maintaining, Coordinating, Keeping, Writing, Reached
<1>3. Writes(p)
  BY DEF CallApply, Writes
<1>4. TypeOK'
  BY <1>1 DEF IInv, JournalReadable, TypeOK, CallApply
<1>5. Using(p)'
  BY <1>1 DEF IInv, JournalReadable, TypeOK, CallApply, LeaseInv, LeaseOf, Using, Maintaining,
     Coordinating, Keeping, Stopped
<1>6. p \in alive' => LeaseOf(p)'
  BY <1>1 DEF IInv, JournalReadable, TypeOK, CallApply, LeaseInv, LeaseOf, Maintaining,
     Coordinating, Keeping, Stopped
<1>7. p \in alive' => PlaceOf(p)'
  BY <1>1 DEF IInv, JournalReadable, TypeOK, CallApply, LeaseInv, WriterInv, PlaceOf, LeaseOf,
     Maintaining, Coordinating, Keeping, Reached, Planned, PlannedOK, Applying, StateOf, Exists,
     Unresolved
<1>8. p \in alive' => WorkOf(p)'
  BY <1>1 DEF IInv, JournalReadable, TypeOK, CallApply, WorkInv, WorkOf
<1>9. p \in alive' => RecordOf(p)'
  BY <1>1 DEF IInv, JournalReadable, TypeOK, CallApply, RecordInv, RecordOf, Maintaining, Keeping
<1>10. p \in alive' => PackageOf(p)'
  BY <1>1 DEF IInv, JournalReadable, TypeOK, CallApply, PackageInv, PackageOf, Target
<1>11. Comes(p)
  BY <1>1 DEF IInv, JournalReadable, TypeOK, CallApply, LeaseInv, LeaseOf, Stopped, Keeping,
     Maintaining, Comes, Writing, Reached
<1> QED
  BY <1>2, <1>3, <1>4, <1>5, <1>6, <1>7, <1>8, <1>9, <1>10, <1>11 DEF Sound, Mine

\* Maintenance is on record before anything is changed.
LEMMA BeginStep ==
  ASSUME IInv, NEW p \in Process, Begin(p)
  PROVE  Sound(p)
<1> USE UpdateAssumption, NoneAssumption DEF At, World, Leases, Disk, Changing, Goes, Carries, Left,
      Moves, QuitResult, GiveBack, Free
<1>0. /\ call[p].at = "begin" /\ call[p].upd \in Update /\ Exists(call[p].upd)
      /\ journal[call[p].upd] \in Journal /\ StateOf(call[p].upd) = "PREPARED"
      /\ Evidenced(journal[call[p].upd], StateOf(call[p].upd))
  <2>1. p \in alive /\ call[p].at = "begin" /\ "begin" \in Applying /\ "begin" \in DOMAIN Reached
        /\ Reached["begin"] = {"PREPARED"}
    BY DEF Begin, Applying, Reached
  <2>2. /\ call[p].upd \in Update /\ Exists(call[p].upd) /\ journal[call[p].upd] \in Journal
    BY <2>1, Being
  <2>3. StateOf(call[p].upd) = "PREPARED"
    BY <2>1 DEF IInv, WriterInv, PlaceOf
  <2> QED
    BY <2>1, <2>2, <2>3 DEF IInv, JournalReadable
<1>1. \/ /\ Goes(p, "install") /\ failures' = failures
         /\ Continues(call[p].upd, journal[call[p].upd], "INSTALLING")
         /\ Wrote(call[p].upd, journal[call[p].upd], "INSTALLING")
      \/ Goes(p, "unexpected") /\ WriteFails
  <2>1. \/ /\ Goes(p, "install") /\ failures' = failures
           /\ Write(call[p].upd, journal[call[p].upd], "INSTALLING")
        \/ Goes(p, "unexpected") /\ WriteFails
    BY Passing DEF Begin, Then, IInv, JournalReadable
  <2>2. ASSUME Write(call[p].upd, journal[call[p].upd], "INSTALLING")
        PROVE  /\ Continues(call[p].upd, journal[call[p].upd], "INSTALLING")
               /\ Wrote(call[p].upd, journal[call[p].upd], "INSTALLING")
    <3>1. Continues(call[p].upd, journal[call[p].upd], "INSTALLING")
      BY <1>0, <2>2 DEF Continues, Allowed, Evidenced, Unrolled, Changed, Begin, IInv,
         RecordInv, RecordOf
    <3> QED
      BY <1>0, <3>1, Continued DEF IInv
  <2> QED
    BY <2>1, <2>2
<1>2. Touches(p)
  BY <1>1, <1>0 DEF IInv, JournalReadable, TypeOK, Begin, Touches, WorkInv, WriterInv, PlaceOf,
     LeaseInv, LeaseOf, Maintaining, Coordinating, Keeping, Writing, Reached, WriteFails,
     Transition
<1>3. Writes(p)
  BY <1>0, <1>1 DEF Writes, Writers, Settled, WriteFails
<1>4. TypeOK'
  BY <1>1, <1>0 DEF IInv, JournalReadable, TypeOK, Begin, WriteFails, Wrote, Calls, Transition
<1>5. Using(p)'
  BY <1>1, <1>0 DEF IInv, JournalReadable, TypeOK, Begin, LeaseInv, LeaseOf, Using, Maintaining,
     Coordinating, Keeping, Stopped, WriteFails, Transition
<1>6. p \in alive' => LeaseOf(p)'
  BY <1>1, <1>0 DEF IInv, JournalReadable, TypeOK, Begin, LeaseInv, LeaseOf, Maintaining,
     Coordinating, Keeping, Stopped, WriteFails, Transition
<1>7. p \in alive' => PlaceOf(p)'
  BY <1>1, <1>0 DEF IInv, JournalReadable, TypeOK, Begin, LeaseInv, WriterInv, PlaceOf, LeaseOf,
     Maintaining, Coordinating, Keeping, Reached, Planned, PlannedOK, Applying, WriteFails,
     StateOf, Wrote, Unresolved, InFlight, Transition
<1>8. p \in alive' => WorkOf(p)'
  BY <1>1, <1>0 DEF IInv, JournalReadable, TypeOK, Begin, WorkInv, WorkOf, WriteFails, Wrote,
     Transition
<1>9. p \in alive' => RecordOf(p)'
  BY <1>1, <1>0 DEF IInv, JournalReadable, TypeOK, Begin, RecordInv, RecordOf, Maintaining,
     Keeping, WriteFails, Wrote, Transition
<1>10. p \in alive' => PackageOf(p)'
  <2>1. CASE Goes(p, "install") /\ Wrote(call[p].upd, journal[call[p].upd], "INSTALLING")
    BY <1>0, <2>1 DEF Begin, Transition, IInv, JournalReadable, TypeOK, PackageInv, PackageOf,
       Target, Wrote
  <2>2. CASE Goes(p, "unexpected") /\ WriteFails
    BY <1>0, <2>2 DEF Begin, Transition, IInv, JournalReadable, TypeOK, PackageInv, PackageOf,
       Target, WriteFails
  <2> QED
    BY <1>1, <2>1, <2>2 DEF Wrote
<1>11. Comes(p)
  BY <1>1, <1>0 DEF Begin, IInv, JournalReadable, TypeOK, LeaseInv, LeaseOf, Stopped, Keeping,
     Maintaining, WriteFails, Comes, Writing, Reached, Transition
<1> QED
  BY <1>2, <1>3, <1>4, <1>5, <1>6, <1>7, <1>8, <1>9, <1>10, <1>11 DEF Sound, Mine

\* So is a compensation.
LEMMA CompensateStep ==
  ASSUME IInv, NEW p \in Process, Compensate(p)
  PROVE  Sound(p)
<1> USE UpdateAssumption, NoneAssumption DEF At, World, Leases, Disk, Changing, Goes, Carries, Left,
      Moves, QuitResult, GiveBack, Free
<1>0. /\ call[p].at = "compensate" /\ call[p].upd \in Update /\ Exists(call[p].upd)
      /\ journal[call[p].upd] \in Journal /\ StateOf(call[p].upd) = "VALIDATING"
      /\ Evidenced(journal[call[p].upd], StateOf(call[p].upd))
  BY Being DEF Compensate, IInv, WriterInv, PlaceOf, Reached, Applying, JournalReadable
<1>1. \/ /\ Goes(p, "rollback") /\ failures' = failures
         /\ Continues(call[p].upd, journal[call[p].upd], "ROLLING_BACK")
         /\ Wrote(call[p].upd, journal[call[p].upd], "ROLLING_BACK")
      \/ Goes(p, "unexpected") /\ WriteFails
  <2>1. \/ /\ Goes(p, "rollback") /\ failures' = failures
           /\ Write(call[p].upd, journal[call[p].upd], "ROLLING_BACK")
        \/ Goes(p, "unexpected") /\ WriteFails
    BY Passing DEF Compensate, Then, IInv, JournalReadable
  <2>2. ASSUME Write(call[p].upd, journal[call[p].upd], "ROLLING_BACK")
        PROVE  /\ Continues(call[p].upd, journal[call[p].upd], "ROLLING_BACK")
               /\ Wrote(call[p].upd, journal[call[p].upd], "ROLLING_BACK")
    <3>1. Continues(call[p].upd, journal[call[p].upd], "ROLLING_BACK")
      BY <1>0, <2>2 DEF Continues, Allowed, Evidenced, Unrolled, Changed, Compensate, IInv,
         RecordInv, RecordOf
    <3> QED
      BY <1>0, <3>1, Continued DEF IInv
  <2> QED
    BY <2>1, <2>2
<1>2. Touches(p)
  BY <1>1, <1>0 DEF IInv, JournalReadable, TypeOK, Compensate, Touches, WorkInv, WriterInv,
     PlaceOf, LeaseInv, LeaseOf, Maintaining, Coordinating, Keeping, Writing, Reached,
     WriteFails, Transition
<1>3. Writes(p)
  BY <1>0, <1>1 DEF Writes, Writers, Settled, WriteFails
<1>4. TypeOK'
  BY <1>1, <1>0 DEF IInv, JournalReadable, TypeOK, Compensate, WriteFails, Wrote, Calls,
     Transition
<1>5. Using(p)'
  BY <1>1, <1>0 DEF IInv, JournalReadable, TypeOK, Compensate, LeaseInv, LeaseOf, Using,
     Maintaining, Coordinating, Keeping, Stopped, WriteFails, Transition
<1>6. p \in alive' => LeaseOf(p)'
  BY <1>1, <1>0 DEF IInv, JournalReadable, TypeOK, Compensate, LeaseInv, LeaseOf, Maintaining,
     Coordinating, Keeping, Stopped, WriteFails, Transition
<1>7. p \in alive' => PlaceOf(p)'
  BY <1>1, <1>0 DEF IInv, JournalReadable, TypeOK, Compensate, LeaseInv, WriterInv, PlaceOf,
     LeaseOf, Maintaining, Coordinating, Keeping, Reached, Planned, PlannedOK, Applying,
     WriteFails, StateOf, Wrote, Unresolved, InFlight, Transition
<1>8. p \in alive' => WorkOf(p)'
  BY <1>1, <1>0 DEF IInv, JournalReadable, TypeOK, Compensate, WorkInv, WorkOf, WriteFails,
     Wrote, Transition
<1>9. p \in alive' => RecordOf(p)'
  BY <1>1, <1>0 DEF IInv, JournalReadable, TypeOK, Compensate, RecordInv, RecordOf, Maintaining,
     Keeping, WriteFails, Wrote, Transition
<1>10. p \in alive' => PackageOf(p)'
  BY <1>1, <1>0 DEF IInv, JournalReadable, TypeOK, Compensate, PackageInv, PackageOf, Target,
     WriteFails, Wrote, Transition
<1>11. Comes(p)
  BY <1>1, <1>0 DEF Compensate, IInv, JournalReadable, TypeOK, LeaseInv, LeaseOf, Stopped,
     Keeping, Maintaining, WriteFails, Comes, Writing, Reached, Transition
<1> QED
  BY <1>2, <1>3, <1>4, <1>5, <1>6, <1>7, <1>8, <1>9, <1>10, <1>11 DEF Sound, Mine

\* A lease that cannot be given back is on record.
LEMMA MarkStep ==
  ASSUME IInv, NEW p \in Process, Mark(p)
  PROVE  Sound(p)
<1> USE UpdateAssumption, NoneAssumption DEF At, World, Leases, Disk, Changing, Goes, Carries, Left,
      Moves, QuitResult, GiveBack, Free
<1>0. /\ call[p].at = "mark" /\ call[p].upd \in Update /\ Exists(call[p].upd)
      /\ journal[call[p].upd] \in Journal /\ StateOf(call[p].upd) = "FINALIZING"
      /\ Evidenced(journal[call[p].upd], StateOf(call[p].upd))
  BY Being DEF Mark, IInv, WriterInv, PlaceOf, Reached, Applying, JournalReadable
<1>1. \/ /\ Goes(p, "finish") /\ failures' = failures
         /\ Continues(call[p].upd, journal[call[p].upd], "RECOVERY_REQUIRED")
         /\ Wrote(call[p].upd, journal[call[p].upd], "RECOVERY_REQUIRED")
      \/ Goes(p, "unexpected") /\ WriteFails
  <2>1. \/ /\ Goes(p, "finish") /\ failures' = failures
           /\ Write(call[p].upd, journal[call[p].upd], "RECOVERY_REQUIRED")
        \/ Goes(p, "unexpected") /\ WriteFails
    BY Passing DEF Mark, Then, IInv, JournalReadable
  <2>2. ASSUME Write(call[p].upd, journal[call[p].upd], "RECOVERY_REQUIRED")
        PROVE  /\ Continues(call[p].upd, journal[call[p].upd], "RECOVERY_REQUIRED")
               /\ Wrote(call[p].upd, journal[call[p].upd], "RECOVERY_REQUIRED")
    <3>1. Continues(call[p].upd, journal[call[p].upd], "RECOVERY_REQUIRED")
      BY <1>0, <2>2 DEF Continues, Allowed, Evidenced, Unrolled, Changed, Mark, IInv, RecordInv,
         RecordOf
    <3> QED
      BY <1>0, <3>1, Continued DEF IInv
  <2> QED
    BY <2>1, <2>2
<1>2. Touches(p)
  BY <1>1, <1>0 DEF IInv, JournalReadable, TypeOK, Mark, Touches, WorkInv, WriterInv, PlaceOf,
     LeaseInv, LeaseOf, Maintaining, Coordinating, Keeping, Writing, Reached, WriteFails,
     Transition
<1>3. Writes(p)
  BY <1>0, <1>1 DEF Writes, Writers, Settled, WriteFails
<1>4. TypeOK'
  BY <1>1, <1>0 DEF IInv, JournalReadable, TypeOK, Mark, WriteFails, Wrote, Calls, Transition
<1>5. Using(p)'
  BY <1>1, <1>0 DEF IInv, JournalReadable, TypeOK, Mark, LeaseInv, LeaseOf, Using, Maintaining,
     Coordinating, Keeping, Stopped, WriteFails, Transition
<1>6. p \in alive' => LeaseOf(p)'
  BY <1>1, <1>0 DEF IInv, JournalReadable, TypeOK, Mark, LeaseInv, LeaseOf, Maintaining,
     Coordinating, Keeping, Stopped, WriteFails, Transition
<1>7. p \in alive' => PlaceOf(p)'
  BY <1>1, <1>0 DEF IInv, JournalReadable, TypeOK, Mark, LeaseInv, WriterInv, PlaceOf, LeaseOf,
     Maintaining, Coordinating, Keeping, Reached, Planned, PlannedOK, Applying, WriteFails,
     StateOf, Wrote, Unresolved, InFlight, Transition
<1>8. p \in alive' => WorkOf(p)'
  BY <1>1, <1>0 DEF IInv, JournalReadable, TypeOK, Mark, WorkInv, WorkOf, WriteFails, Wrote,
     Transition
<1>9. p \in alive' => RecordOf(p)'
  BY <1>1, <1>0 DEF IInv, JournalReadable, TypeOK, Mark, RecordInv, RecordOf, Maintaining,
     Keeping, WriteFails, Wrote, Transition
<1>10. p \in alive' => PackageOf(p)'
  BY <1>1, <1>0 DEF IInv, JournalReadable, TypeOK, Mark, PackageInv, PackageOf, Target,
     WriteFails, Wrote, Transition
<1>11. Comes(p)
  BY <1>1, <1>0 DEF Mark, IInv, JournalReadable, TypeOK, LeaseInv, LeaseOf, Stopped, Keeping,
     Maintaining, WriteFails, Comes, Writing, Reached, Transition
<1> QED
  BY <1>2, <1>3, <1>4, <1>5, <1>6, <1>7, <1>8, <1>9, <1>10, <1>11 DEF Sound, Mine

\* The answer to an install is recorded with where it leads.
LEMMA RecordInstallStep ==
  ASSUME IInv, NEW p \in Process, RecordInstall(p)
  PROVE  Sound(p)
<1> USE UpdateAssumption, NoneAssumption DEF At, World, Leases, Disk, Changing, Goes, Carries, Left,
      Moves, QuitResult, GiveBack, Free
<1> DEFINE J == [journal[call[p].upd] EXCEPT !.install = IF call[p].outcome = "raised" THEN @ ELSE call[p].outcome]
<1>0. /\ call[p].at = "recordInstall" /\ call[p].upd \in Update /\ Exists(call[p].upd)
      /\ journal[call[p].upd] \in Journal /\ StateOf(call[p].upd) = "INSTALLING"
      /\ Evidenced(journal[call[p].upd], StateOf(call[p].upd))
      /\ call[p].outcome \in InstallStates \cup {"raised"}
  BY Being DEF RecordInstall, IInv, WriterInv, PlaceOf, Reached, Applying, JournalReadable,
     RecordInv, RecordOf
<1>a. /\ J \in Journal /\ J.from = journal[call[p].upd].from /\ J.snapshot = journal[call[p].upd].snapshot
      /\ J.history = journal[call[p].upd].history
      /\ J.install = (IF call[p].outcome = "raised" THEN journal[call[p].upd].install ELSE call[p].outcome)
      /\ J.rollback = journal[call[p].upd].rollback /\ J.restored = journal[call[p].upd].restored
  BY <1>0 DEF Journal, InstallStates, RollbackStates
<1> HIDE DEF J
<1>1. \/ /\ call[p].outcome = "SUCCEEDED" /\ Goes(p, "migrate") /\ failures' = failures
         /\ Continues(call[p].upd, J, "VALIDATING") /\ Wrote(call[p].upd, J, "VALIDATING")
      \/ /\ call[p].outcome = "FAILED_SAFE" /\ Goes(p, "releaseHold") /\ failures' = failures
         /\ Continues(call[p].upd, J, "FINALIZING") /\ Wrote(call[p].upd, J, "FINALIZING")
      \/ /\ call[p].outcome = "FAILED_CHANGED" /\ Goes(p, "rollback") /\ failures' = failures
         /\ Continues(call[p].upd, J, "ROLLING_BACK") /\ Wrote(call[p].upd, J, "ROLLING_BACK")
      \/ /\ call[p].outcome \in {"UNKNOWN", "raised"} /\ Goes(p, "finish") /\ failures' = failures
         /\ Continues(call[p].upd, J, "RECOVERY_REQUIRED")
         /\ Wrote(call[p].upd, J, "RECOVERY_REQUIRED")
      \/ Goes(p, "unexpected") /\ WriteFails
  <2>1. CASE call[p].outcome = "SUCCEEDED"
    <3>1. Transition(p, J, "VALIDATING")
      BY <2>1, <1>0 DEF RecordInstall, J, InstallLeads
    <3>2. \/ Goes(p, "migrate") /\ Write(call[p].upd, J, "VALIDATING") /\ failures' = failures
          \/ Goes(p, "unexpected") /\ WriteFails
      BY <3>1, Passing DEF Then, IInv, JournalReadable
    <3>3. ASSUME Write(call[p].upd, J, "VALIDATING")
          PROVE  Continues(call[p].upd, J, "VALIDATING") /\ Wrote(call[p].upd, J, "VALIDATING")
      <4>1. Evidenced(J, "VALIDATING")
        BY <1>0, <1>a, <2>1
           DEF Evidenced, Unrolled, Changed, Compensated, RecordInstall, IInv, RecordInv,
               RecordOf
      <4>2. Continues(call[p].upd, J, "VALIDATING")
        BY <1>0, <1>a, <3>3, <4>1 DEF Continues, Allowed
      <4> QED
        BY <1>0, <4>2, Continued DEF IInv
    <3> QED
      BY <2>1, <3>2, <3>3
  <2>2. CASE call[p].outcome = "FAILED_SAFE"
    <3>1. Transition(p, J, "FINALIZING")
      BY <2>2, <1>0 DEF RecordInstall, J, InstallLeads
    <3>2. \/ Goes(p, "releaseHold") /\ Write(call[p].upd, J, "FINALIZING") /\ failures' = failures
          \/ Goes(p, "unexpected") /\ WriteFails
      BY <3>1, Passing DEF Then, IInv, JournalReadable
    <3>3. ASSUME Write(call[p].upd, J, "FINALIZING")
          PROVE  Continues(call[p].upd, J, "FINALIZING") /\ Wrote(call[p].upd, J, "FINALIZING")
      <4>1. Evidenced(J, "FINALIZING")
        BY <1>0, <1>a, <2>2
           DEF Evidenced, Unrolled, Changed, Compensated, RecordInstall, IInv, RecordInv,
               RecordOf
      <4>2. Continues(call[p].upd, J, "FINALIZING")
        BY <1>0, <1>a, <3>3, <4>1 DEF Continues, Allowed
      <4> QED
        BY <1>0, <4>2, Continued DEF IInv
    <3> QED
      BY <2>2, <3>2, <3>3
  <2>3. CASE call[p].outcome = "FAILED_CHANGED"
    <3>1. Transition(p, J, "ROLLING_BACK")
      BY <2>3, <1>0 DEF RecordInstall, J, InstallLeads
    <3>2. \/ Goes(p, "rollback") /\ Write(call[p].upd, J, "ROLLING_BACK") /\ failures' = failures
          \/ Goes(p, "unexpected") /\ WriteFails
      BY <3>1, Passing DEF Then, IInv, JournalReadable
    <3>3. ASSUME Write(call[p].upd, J, "ROLLING_BACK")
          PROVE  /\ Continues(call[p].upd, J, "ROLLING_BACK")
                 /\ Wrote(call[p].upd, J, "ROLLING_BACK")
      <4>1. Evidenced(J, "ROLLING_BACK")
        BY <1>0, <1>a, <2>3
           DEF Evidenced, Unrolled, Changed, Compensated, RecordInstall, IInv, RecordInv,
               RecordOf
      <4>2. Continues(call[p].upd, J, "ROLLING_BACK")
        BY <1>0, <1>a, <3>3, <4>1 DEF Continues, Allowed
      <4> QED
        BY <1>0, <4>2, Continued DEF IInv
    <3> QED
      BY <2>3, <3>2, <3>3
  <2>4. CASE call[p].outcome \in {"UNKNOWN", "raised"}
    <3>1. Transition(p, J, "RECOVERY_REQUIRED")
      BY <2>4, <1>0 DEF RecordInstall, J, InstallLeads
    <3>2. \/ Goes(p, "finish") /\ Write(call[p].upd, J, "RECOVERY_REQUIRED") /\ failures' = failures
          \/ Goes(p, "unexpected") /\ WriteFails
      BY <3>1, Passing DEF Then, IInv, JournalReadable
    <3>3. ASSUME Write(call[p].upd, J, "RECOVERY_REQUIRED")
          PROVE  /\ Continues(call[p].upd, J, "RECOVERY_REQUIRED")
                 /\ Wrote(call[p].upd, J, "RECOVERY_REQUIRED")
      <4>1. Evidenced(J, "RECOVERY_REQUIRED")
        BY <1>0, <1>a, <2>4
           DEF Evidenced, Unrolled, Changed, Compensated, RecordInstall, IInv, RecordInv,
               RecordOf
      <4>2. Continues(call[p].upd, J, "RECOVERY_REQUIRED")
        BY <1>0, <1>a, <3>3, <4>1 DEF Continues, Allowed
      <4> QED
        BY <1>0, <4>2, Continued DEF IInv
    <3> QED
      BY <2>4, <3>2, <3>3
  <2> QED
    BY <1>0, <2>1, <2>2, <2>3, <2>4 DEF InstallStates, RollbackStates
<1>c. /\ p \in alive /\ TypeOK /\ Using(p)
      /\ LeaseOf(p) /\ PlaceOf(p) /\ WorkOf(p) /\ RecordOf(p) /\ PackageOf(p)
      /\ db.work = worked
  BY DEF IInv, JournalReadable, LeaseInv, WriterInv, WorkInv, RecordInv, PackageInv, Exists,
     Using, RecordInstall
<1>b. UNCHANGED <<hold, coord, alive, rt, asked, worked, due, bound, db, snap, package>>
  BY Transitions DEF RecordInstall
<1>2. Touches(p)
  BY <1>1, <1>0, <1>a, <1>b, <1>c
     DEF Touches, TypeOK, WorkInv, IInv, LeaseOf, PlaceOf, Maintaining, Coordinating, Keeping,
         Applying, Writing, Reached, WriteFails
<1>3. Writes(p)
  BY <1>1, <1>0, <1>a, <1>b, <1>c DEF Writes, Writers, Settled, WriteFails
<1>4. TypeOK'
  <2>1. CASE call[p].outcome = "SUCCEEDED" /\ Goes(p, "migrate") /\ failures' = failures
         /\ Continues(call[p].upd, J, "VALIDATING") /\ Wrote(call[p].upd, J, "VALIDATING")
    BY <2>1, <1>0, <1>a, <1>b, <1>c DEF TypeOK, Calls, WriteFails, Wrote
  <2>2. CASE call[p].outcome = "FAILED_SAFE" /\ Goes(p, "releaseHold") /\ failures' = failures
         /\ Continues(call[p].upd, J, "FINALIZING") /\ Wrote(call[p].upd, J, "FINALIZING")
    BY <2>2, <1>0, <1>a, <1>b, <1>c DEF TypeOK, Calls, WriteFails, Wrote
  <2>3. CASE call[p].outcome = "FAILED_CHANGED" /\ Goes(p, "rollback") /\ failures' = failures
         /\ Continues(call[p].upd, J, "ROLLING_BACK") /\ Wrote(call[p].upd, J, "ROLLING_BACK")
    BY <2>3, <1>0, <1>a, <1>b, <1>c DEF TypeOK, Calls, WriteFails, Wrote
  <2>4. CASE call[p].outcome \in {"UNKNOWN", "raised"} /\ Goes(p, "finish") /\ failures' = failures
         /\ Continues(call[p].upd, J, "RECOVERY_REQUIRED")
         /\ Wrote(call[p].upd, J, "RECOVERY_REQUIRED")
    BY <2>4, <1>0, <1>a, <1>b, <1>c DEF TypeOK, Calls, WriteFails, Wrote
  <2>5. CASE Goes(p, "unexpected") /\ WriteFails
    BY <2>5, <1>0, <1>a, <1>b, <1>c DEF TypeOK, Calls, WriteFails, Wrote
  <2> QED
    BY <1>1, <2>1, <2>2, <2>3, <2>4, <2>5
<1>5. Using(p)'
  BY <1>1, <1>0, <1>a, <1>b, <1>c DEF Using, LeaseOf, Stopped, Keeping, Maintaining
<1>6. LeaseOf(p)'
  BY <1>1, <1>0, <1>a, <1>b, <1>c DEF LeaseOf, Maintaining, Coordinating, Keeping, Stopped
<1>7. PlaceOf(p)'
  <2>1. CASE call[p].outcome = "SUCCEEDED" /\ Goes(p, "migrate") /\ failures' = failures
         /\ Continues(call[p].upd, J, "VALIDATING") /\ Wrote(call[p].upd, J, "VALIDATING")
    BY <2>1, <1>0, <1>a, <1>b, <1>c
       DEF PlaceOf, Reached, InFlight, Applying, Planned, PlannedOK, StateOf, Exists,
           Unresolved, Wrote, WriteFails
  <2>2. CASE call[p].outcome = "FAILED_SAFE" /\ Goes(p, "releaseHold") /\ failures' = failures
         /\ Continues(call[p].upd, J, "FINALIZING") /\ Wrote(call[p].upd, J, "FINALIZING")
    BY <2>2, <1>0, <1>a, <1>b, <1>c
       DEF PlaceOf, Reached, InFlight, Applying, Planned, PlannedOK, StateOf, Exists,
           Unresolved, Wrote, WriteFails
  <2>3. CASE call[p].outcome = "FAILED_CHANGED" /\ Goes(p, "rollback") /\ failures' = failures
         /\ Continues(call[p].upd, J, "ROLLING_BACK") /\ Wrote(call[p].upd, J, "ROLLING_BACK")
    BY <2>3, <1>0, <1>a, <1>b, <1>c
       DEF PlaceOf, Reached, InFlight, Applying, Planned, PlannedOK, StateOf, Exists,
           Unresolved, Wrote, WriteFails
  <2>4. CASE call[p].outcome \in {"UNKNOWN", "raised"} /\ Goes(p, "finish") /\ failures' = failures
         /\ Continues(call[p].upd, J, "RECOVERY_REQUIRED")
         /\ Wrote(call[p].upd, J, "RECOVERY_REQUIRED")
    BY <2>4, <1>0, <1>a, <1>b, <1>c
       DEF PlaceOf, Reached, InFlight, Applying, Planned, PlannedOK, StateOf, Exists,
           Unresolved, Wrote, WriteFails
  <2>5. CASE Goes(p, "unexpected") /\ WriteFails
    BY <2>5, <1>0, <1>a, <1>b, <1>c
       DEF PlaceOf, Reached, InFlight, Applying, Planned, PlannedOK, StateOf, Exists,
           Unresolved, Wrote, WriteFails
  <2> QED
    BY <1>1, <2>1, <2>2, <2>3, <2>4, <2>5
<1>8. WorkOf(p)'
  <2>1. CASE call[p].outcome = "SUCCEEDED" /\ Goes(p, "migrate") /\ failures' = failures
         /\ Continues(call[p].upd, J, "VALIDATING") /\ Wrote(call[p].upd, J, "VALIDATING")
    BY <2>1, <1>0, <1>a, <1>b, <1>c DEF WorkOf, Wrote, WriteFails
  <2>2. CASE call[p].outcome = "FAILED_SAFE" /\ Goes(p, "releaseHold") /\ failures' = failures
         /\ Continues(call[p].upd, J, "FINALIZING") /\ Wrote(call[p].upd, J, "FINALIZING")
    BY <2>2, <1>0, <1>a, <1>b, <1>c DEF WorkOf, Wrote, WriteFails
  <2>3. CASE call[p].outcome = "FAILED_CHANGED" /\ Goes(p, "rollback") /\ failures' = failures
         /\ Continues(call[p].upd, J, "ROLLING_BACK") /\ Wrote(call[p].upd, J, "ROLLING_BACK")
    BY <2>3, <1>0, <1>a, <1>b, <1>c DEF WorkOf, Wrote, WriteFails
  <2>4. CASE call[p].outcome \in {"UNKNOWN", "raised"} /\ Goes(p, "finish") /\ failures' = failures
         /\ Continues(call[p].upd, J, "RECOVERY_REQUIRED")
         /\ Wrote(call[p].upd, J, "RECOVERY_REQUIRED")
    BY <2>4, <1>0, <1>a, <1>b, <1>c DEF WorkOf, Wrote, WriteFails
  <2>5. CASE Goes(p, "unexpected") /\ WriteFails
    BY <2>5, <1>0, <1>a, <1>b, <1>c DEF WorkOf, Wrote, WriteFails
  <2> QED
    BY <1>1, <2>1, <2>2, <2>3, <2>4, <2>5
<1>9. RecordOf(p)'
  <2>1. CASE call[p].outcome = "SUCCEEDED" /\ Goes(p, "migrate") /\ failures' = failures
         /\ Continues(call[p].upd, J, "VALIDATING") /\ Wrote(call[p].upd, J, "VALIDATING")
    BY <2>1, <1>0, <1>a, <1>b, <1>c
       DEF RecordOf, Maintaining, Keeping, Settled, Evidenced, Unrolled, Compensated, Changed,
           Wrote, WriteFails
  <2>2. CASE call[p].outcome = "FAILED_SAFE" /\ Goes(p, "releaseHold") /\ failures' = failures
         /\ Continues(call[p].upd, J, "FINALIZING") /\ Wrote(call[p].upd, J, "FINALIZING")
    BY <2>2, <1>0, <1>a, <1>b, <1>c
       DEF RecordOf, Maintaining, Keeping, Settled, Evidenced, Unrolled, Compensated, Changed,
           Wrote, WriteFails
  <2>3. CASE call[p].outcome = "FAILED_CHANGED" /\ Goes(p, "rollback") /\ failures' = failures
         /\ Continues(call[p].upd, J, "ROLLING_BACK") /\ Wrote(call[p].upd, J, "ROLLING_BACK")
    BY <2>3, <1>0, <1>a, <1>b, <1>c
       DEF RecordOf, Maintaining, Keeping, Settled, Evidenced, Unrolled, Compensated, Changed,
           Wrote, WriteFails
  <2>4. CASE call[p].outcome \in {"UNKNOWN", "raised"} /\ Goes(p, "finish") /\ failures' = failures
         /\ Continues(call[p].upd, J, "RECOVERY_REQUIRED")
         /\ Wrote(call[p].upd, J, "RECOVERY_REQUIRED")
    BY <2>4, <1>0, <1>a, <1>b, <1>c
       DEF RecordOf, Maintaining, Keeping, Settled, Evidenced, Unrolled, Compensated, Changed,
           Wrote, WriteFails
  <2>5. CASE Goes(p, "unexpected") /\ WriteFails
    BY <2>5, <1>0, <1>a, <1>b, <1>c
       DEF RecordOf, Maintaining, Keeping, Settled, Evidenced, Unrolled, Compensated, Changed,
           Wrote, WriteFails
  <2> QED
    BY <1>1, <2>1, <2>2, <2>3, <2>4, <2>5
<1>10. PackageOf(p)'
  <2>1. CASE call[p].outcome = "SUCCEEDED" /\ Goes(p, "migrate") /\ failures' = failures
         /\ Continues(call[p].upd, J, "VALIDATING") /\ Wrote(call[p].upd, J, "VALIDATING")
    BY <2>1, <1>0, <1>a, <1>b, <1>c DEF PackageOf, WorkOf, Target, Wrote, WriteFails
  <2>2. CASE call[p].outcome = "FAILED_SAFE" /\ Goes(p, "releaseHold") /\ failures' = failures
         /\ Continues(call[p].upd, J, "FINALIZING") /\ Wrote(call[p].upd, J, "FINALIZING")
    BY <2>2, <1>0, <1>a, <1>b, <1>c DEF PackageOf, WorkOf, Target, Wrote, WriteFails
  <2>3. CASE call[p].outcome = "FAILED_CHANGED" /\ Goes(p, "rollback") /\ failures' = failures
         /\ Continues(call[p].upd, J, "ROLLING_BACK") /\ Wrote(call[p].upd, J, "ROLLING_BACK")
    BY <2>3, <1>0, <1>a, <1>b, <1>c DEF PackageOf, WorkOf, Target, Wrote, WriteFails
  <2>4. CASE call[p].outcome \in {"UNKNOWN", "raised"} /\ Goes(p, "finish") /\ failures' = failures
         /\ Continues(call[p].upd, J, "RECOVERY_REQUIRED")
         /\ Wrote(call[p].upd, J, "RECOVERY_REQUIRED")
    BY <2>4, <1>0, <1>a, <1>b, <1>c DEF PackageOf, WorkOf, Target, Wrote, WriteFails
  <2>5. CASE Goes(p, "unexpected") /\ WriteFails
    BY <2>5, <1>0, <1>a, <1>b, <1>c DEF PackageOf, WorkOf, Target, Wrote, WriteFails
  <2> QED
    BY <1>1, <2>1, <2>2, <2>3, <2>4, <2>5
<1>11. Comes(p)
  BY <1>1, <1>0, <1>a, <1>b, <1>c
     DEF TypeOK, LeaseOf, Stopped, Keeping, Maintaining, WriteFails, Comes, Writing, Reached
<1> QED
  BY <1>2, <1>3, <1>4, <1>5, <1>6, <1>7, <1>8, <1>9, <1>10, <1>11 DEF Sound, Mine

\* And the answer to a rollback.
LEMMA RecordRollbackStep ==
  ASSUME IInv, NEW p \in Process, RecordRollback(p)
  PROVE  Sound(p)
<1> USE UpdateAssumption, NoneAssumption DEF At, World, Leases, Disk, Changing, Goes, Carries, Left,
      Moves, QuitResult, GiveBack, Free
<1> DEFINE J == [journal[call[p].upd] EXCEPT !.rollback = IF call[p].outcome = "raised" THEN @ ELSE call[p].outcome]
<1>0. /\ call[p].at = "recordRollback" /\ call[p].upd \in Update /\ Exists(call[p].upd)
      /\ journal[call[p].upd] \in Journal /\ StateOf(call[p].upd) = "ROLLING_BACK"
      /\ Evidenced(journal[call[p].upd], StateOf(call[p].upd))
      /\ call[p].outcome \in RollbackStates \cup {"raised"}
  BY Being DEF RecordRollback, IInv, WriterInv, PlaceOf, Reached, Applying, JournalReadable,
     RecordInv, RecordOf
<1>a. /\ J \in Journal /\ J.from = journal[call[p].upd].from /\ J.snapshot = journal[call[p].upd].snapshot
      /\ J.history = journal[call[p].upd].history
      /\ J.rollback = (IF call[p].outcome = "raised" THEN journal[call[p].upd].rollback ELSE call[p].outcome)
      /\ J.install = journal[call[p].upd].install /\ J.restored = journal[call[p].upd].restored
  BY <1>0 DEF Journal, InstallStates, RollbackStates
<1> HIDE DEF J
<1>1. \/ /\ call[p].outcome = "SUCCEEDED" /\ Goes(p, "restore") /\ failures' = failures
         /\ Continues(call[p].upd, J, "RESTORING") /\ Wrote(call[p].upd, J, "RESTORING")
      \/ /\ call[p].outcome # "SUCCEEDED" /\ Goes(p, "finish") /\ failures' = failures
         /\ Continues(call[p].upd, J, "RECOVERY_REQUIRED")
         /\ Wrote(call[p].upd, J, "RECOVERY_REQUIRED")
      \/ Goes(p, "unexpected") /\ WriteFails
  <2>1. CASE call[p].outcome = "SUCCEEDED"
    <3>1. Transition(p, J, "RESTORING")
      BY <2>1, <1>0 DEF RecordRollback, J
    <3>2. \/ Goes(p, "restore") /\ Write(call[p].upd, J, "RESTORING") /\ failures' = failures
          \/ Goes(p, "unexpected") /\ WriteFails
      BY <3>1, Passing DEF Then, IInv, JournalReadable
    <3>3. ASSUME Write(call[p].upd, J, "RESTORING")
          PROVE  Continues(call[p].upd, J, "RESTORING") /\ Wrote(call[p].upd, J, "RESTORING")
      <4>1. Evidenced(J, "RESTORING")
        BY <1>0, <1>a, <2>1
           DEF Evidenced, Unrolled, Changed, Compensated, RecordRollback, IInv, RecordInv,
               RecordOf
      <4>2. Continues(call[p].upd, J, "RESTORING")
        BY <1>0, <1>a, <3>3, <4>1 DEF Continues, Allowed
      <4> QED
        BY <1>0, <4>2, Continued DEF IInv
    <3> QED
      BY <2>1, <3>2, <3>3
  <2>2. CASE call[p].outcome # "SUCCEEDED"
    <3>1. Transition(p, J, "RECOVERY_REQUIRED")
      BY <2>2, <1>0 DEF RecordRollback, J
    <3>2. \/ Goes(p, "finish") /\ Write(call[p].upd, J, "RECOVERY_REQUIRED") /\ failures' = failures
          \/ Goes(p, "unexpected") /\ WriteFails
      BY <3>1, Passing DEF Then, IInv, JournalReadable
    <3>3. ASSUME Write(call[p].upd, J, "RECOVERY_REQUIRED")
          PROVE  /\ Continues(call[p].upd, J, "RECOVERY_REQUIRED")
                 /\ Wrote(call[p].upd, J, "RECOVERY_REQUIRED")
      <4>1. Evidenced(J, "RECOVERY_REQUIRED")
        BY <1>0, <1>a, <2>2
           DEF Evidenced, Unrolled, Changed, Compensated, RecordRollback, IInv, RecordInv,
               RecordOf
      <4>2. Continues(call[p].upd, J, "RECOVERY_REQUIRED")
        BY <1>0, <1>a, <3>3, <4>1 DEF Continues, Allowed
      <4> QED
        BY <1>0, <4>2, Continued DEF IInv
    <3> QED
      BY <2>2, <3>2, <3>3
  <2> QED
    BY <1>0, <2>1, <2>2 DEF InstallStates, RollbackStates
<1>c. /\ p \in alive /\ TypeOK /\ Using(p)
      /\ LeaseOf(p) /\ PlaceOf(p) /\ WorkOf(p) /\ RecordOf(p) /\ PackageOf(p)
      /\ db.work = worked
  BY DEF IInv, JournalReadable, LeaseInv, WriterInv, WorkInv, RecordInv, PackageInv, Exists,
     Using, RecordRollback
<1>b. UNCHANGED <<hold, coord, alive, rt, asked, worked, due, bound, db, snap, package>>
  BY Transitions DEF RecordRollback
<1>2. Touches(p)
  BY <1>1, <1>0, <1>a, <1>b, <1>c
     DEF Touches, TypeOK, WorkInv, IInv, LeaseOf, PlaceOf, Maintaining, Coordinating, Keeping,
         Applying, Writing, Reached, WriteFails
<1>3. Writes(p)
  BY <1>1, <1>0, <1>a, <1>b, <1>c DEF Writes, Writers, Settled, WriteFails
<1>4. TypeOK'
  <2>1. CASE call[p].outcome = "SUCCEEDED" /\ Goes(p, "restore") /\ failures' = failures
         /\ Continues(call[p].upd, J, "RESTORING") /\ Wrote(call[p].upd, J, "RESTORING")
    BY <2>1, <1>0, <1>a, <1>b, <1>c DEF TypeOK, Calls, WriteFails, Wrote
  <2>2. CASE call[p].outcome # "SUCCEEDED" /\ Goes(p, "finish") /\ failures' = failures
         /\ Continues(call[p].upd, J, "RECOVERY_REQUIRED")
         /\ Wrote(call[p].upd, J, "RECOVERY_REQUIRED")
    BY <2>2, <1>0, <1>a, <1>b, <1>c DEF TypeOK, Calls, WriteFails, Wrote
  <2>3. CASE Goes(p, "unexpected") /\ WriteFails
    BY <2>3, <1>0, <1>a, <1>b, <1>c DEF TypeOK, Calls, WriteFails, Wrote
  <2> QED
    BY <1>1, <2>1, <2>2, <2>3
<1>5. Using(p)'
  BY <1>1, <1>0, <1>a, <1>b, <1>c DEF Using, LeaseOf, Stopped, Keeping, Maintaining
<1>6. LeaseOf(p)'
  BY <1>1, <1>0, <1>a, <1>b, <1>c DEF LeaseOf, Maintaining, Coordinating, Keeping, Stopped
<1>7. PlaceOf(p)'
  <2>1. CASE call[p].outcome = "SUCCEEDED" /\ Goes(p, "restore") /\ failures' = failures
         /\ Continues(call[p].upd, J, "RESTORING") /\ Wrote(call[p].upd, J, "RESTORING")
    BY <2>1, <1>0, <1>a, <1>b, <1>c
       DEF PlaceOf, Reached, InFlight, Applying, Planned, PlannedOK, StateOf, Exists,
           Unresolved, Wrote, WriteFails
  <2>2. CASE call[p].outcome # "SUCCEEDED" /\ Goes(p, "finish") /\ failures' = failures
         /\ Continues(call[p].upd, J, "RECOVERY_REQUIRED")
         /\ Wrote(call[p].upd, J, "RECOVERY_REQUIRED")
    BY <2>2, <1>0, <1>a, <1>b, <1>c
       DEF PlaceOf, Reached, InFlight, Applying, Planned, PlannedOK, StateOf, Exists,
           Unresolved, Wrote, WriteFails
  <2>3. CASE Goes(p, "unexpected") /\ WriteFails
    BY <2>3, <1>0, <1>a, <1>b, <1>c
       DEF PlaceOf, Reached, InFlight, Applying, Planned, PlannedOK, StateOf, Exists,
           Unresolved, Wrote, WriteFails
  <2> QED
    BY <1>1, <2>1, <2>2, <2>3
<1>8. WorkOf(p)'
  <2>1. CASE call[p].outcome = "SUCCEEDED" /\ Goes(p, "restore") /\ failures' = failures
         /\ Continues(call[p].upd, J, "RESTORING") /\ Wrote(call[p].upd, J, "RESTORING")
    BY <2>1, <1>0, <1>a, <1>b, <1>c DEF WorkOf, Wrote, WriteFails
  <2>2. CASE call[p].outcome # "SUCCEEDED" /\ Goes(p, "finish") /\ failures' = failures
         /\ Continues(call[p].upd, J, "RECOVERY_REQUIRED")
         /\ Wrote(call[p].upd, J, "RECOVERY_REQUIRED")
    BY <2>2, <1>0, <1>a, <1>b, <1>c DEF WorkOf, Wrote, WriteFails
  <2>3. CASE Goes(p, "unexpected") /\ WriteFails
    BY <2>3, <1>0, <1>a, <1>b, <1>c DEF WorkOf, Wrote, WriteFails
  <2> QED
    BY <1>1, <2>1, <2>2, <2>3
<1>9. RecordOf(p)'
  <2>1. CASE call[p].outcome = "SUCCEEDED" /\ Goes(p, "restore") /\ failures' = failures
         /\ Continues(call[p].upd, J, "RESTORING") /\ Wrote(call[p].upd, J, "RESTORING")
    BY <2>1, <1>0, <1>a, <1>b, <1>c
       DEF RecordOf, Maintaining, Keeping, Settled, Evidenced, Unrolled, Compensated, Changed,
           Wrote, WriteFails
  <2>2. CASE call[p].outcome # "SUCCEEDED" /\ Goes(p, "finish") /\ failures' = failures
         /\ Continues(call[p].upd, J, "RECOVERY_REQUIRED")
         /\ Wrote(call[p].upd, J, "RECOVERY_REQUIRED")
    BY <2>2, <1>0, <1>a, <1>b, <1>c
       DEF RecordOf, Maintaining, Keeping, Settled, Evidenced, Unrolled, Compensated, Changed,
           Wrote, WriteFails
  <2>3. CASE Goes(p, "unexpected") /\ WriteFails
    BY <2>3, <1>0, <1>a, <1>b, <1>c
       DEF RecordOf, Maintaining, Keeping, Settled, Evidenced, Unrolled, Compensated, Changed,
           Wrote, WriteFails
  <2> QED
    BY <1>1, <2>1, <2>2, <2>3
<1>10. PackageOf(p)'
  <2>1. CASE call[p].outcome = "SUCCEEDED" /\ Goes(p, "restore") /\ failures' = failures
         /\ Continues(call[p].upd, J, "RESTORING") /\ Wrote(call[p].upd, J, "RESTORING")
    BY <2>1, <1>0, <1>a, <1>b, <1>c DEF PackageOf, WorkOf, Target, Wrote, WriteFails
  <2>2. CASE call[p].outcome # "SUCCEEDED" /\ Goes(p, "finish") /\ failures' = failures
         /\ Continues(call[p].upd, J, "RECOVERY_REQUIRED")
         /\ Wrote(call[p].upd, J, "RECOVERY_REQUIRED")
    BY <2>2, <1>0, <1>a, <1>b, <1>c DEF PackageOf, WorkOf, Target, Wrote, WriteFails
  <2>3. CASE Goes(p, "unexpected") /\ WriteFails
    BY <2>3, <1>0, <1>a, <1>b, <1>c DEF PackageOf, WorkOf, Target, Wrote, WriteFails
  <2> QED
    BY <1>1, <2>1, <2>2, <2>3
<1>11. Comes(p)
  BY <1>1, <1>0, <1>a, <1>b, <1>c
     DEF TypeOK, LeaseOf, Stopped, Keeping, Maintaining, WriteFails, Comes, Writing, Reached
<1> QED
  BY <1>2, <1>3, <1>4, <1>5, <1>6, <1>7, <1>8, <1>9, <1>10, <1>11 DEF Sound, Mine

\* Only what could be opened is finalized.
LEMMA ValidateStep ==
  ASSUME IInv, NEW p \in Process, Validate(p)
  PROVE  Sound(p)
<1> USE UpdateAssumption, NoneAssumption DEF At, World, Leases, Disk, Changing, Goes, Carries, Left,
      Moves, QuitResult, GiveBack, Free
<1>0. /\ call[p].at = "open" /\ call[p].upd \in Update /\ Exists(call[p].upd)
      /\ journal[call[p].upd] \in Journal
      /\ StateOf(call[p].upd) = "VALIDATING"
      /\ Evidenced(journal[call[p].upd], StateOf(call[p].upd))
  BY Being DEF Validate, IInv, WriterInv, PlaceOf, Reached, Applying, JournalReadable
<1>1. \/ /\ Goes(p, "releaseHold") /\ failures' = failures
         /\ Continues(call[p].upd, journal[call[p].upd], "FINALIZING")
         /\ Wrote(call[p].upd, journal[call[p].upd], "FINALIZING")
      \/ Goes(p, "unexpected") /\ WriteFails
      \/ Goes(p, "compensate") /\ UNCHANGED <<journal, failures>>
      \/ Goes(p, "guard") /\ UNCHANGED <<journal, failures>>
  <2>1. \/ /\ Goes(p, "releaseHold") /\ Write(call[p].upd, journal[call[p].upd], "FINALIZING")
           /\ failures' = failures
        \/ Goes(p, "unexpected") /\ WriteFails
        \/ Goes(p, "compensate") /\ UNCHANGED <<journal, failures>>
        \/ Goes(p, "guard") /\ UNCHANGED <<journal, failures>>
    BY Passing, Going DEF Validate, Then, Applying, IInv, JournalReadable
  <2>2. ASSUME Write(call[p].upd, journal[call[p].upd], "FINALIZING")
        PROVE  /\ Continues(call[p].upd, journal[call[p].upd], "FINALIZING")
               /\ Wrote(call[p].upd, journal[call[p].upd], "FINALIZING")
    <3>1. Evidenced(journal[call[p].upd], "FINALIZING")
      BY <1>0 DEF Evidenced, Unrolled, Changed, Compensated
    <3>2. Continues(call[p].upd, journal[call[p].upd], "FINALIZING")
      BY <1>0, <2>2, <3>1 DEF Continues, Allowed, InFlight
    <3> QED
      BY <1>0, <3>2, Continued DEF IInv
  <2> QED
    BY <2>1, <2>2
<1>c. /\ p \in alive /\ TypeOK /\ Using(p)
      /\ LeaseOf(p) /\ PlaceOf(p) /\ WorkOf(p) /\ RecordOf(p) /\ PackageOf(p)
      /\ db.work = worked
  BY DEF IInv, JournalReadable, LeaseInv, WriterInv, WorkInv, RecordInv, PackageInv, Exists,
     Using, Validate
<1>b. UNCHANGED <<hold, coord, alive, rt, asked, worked, due, bound, db, snap, package>>
  BY Transitions DEF Validate
<1>2. Touches(p)
  BY <1>1, <1>0, <1>b, <1>c
     DEF Touches, TypeOK, WorkInv, IInv, LeaseOf, PlaceOf, Maintaining, Coordinating, Keeping,
         Applying, Writing, Reached, WriteFails
<1>3. Writes(p)
  BY <1>1, <1>0, <1>b, <1>c DEF Writes, Writers, Settled, WriteFails
<1>4. TypeOK'
  <2>1. CASE /\ Goes(p, "releaseHold") /\ failures' = failures
             /\ Continues(call[p].upd, journal[call[p].upd], "FINALIZING")
             /\ Wrote(call[p].upd, journal[call[p].upd], "FINALIZING")
    BY <2>1, <1>0, <1>b, <1>c DEF TypeOK, Calls, WriteFails, Wrote
  <2>2. CASE Goes(p, "unexpected") /\ WriteFails
    BY <2>2, <1>0, <1>b, <1>c DEF TypeOK, Calls, WriteFails, Wrote
  <2>3. CASE Goes(p, "compensate") /\ UNCHANGED <<journal, failures>>
    BY <2>3, <1>0, <1>b, <1>c DEF TypeOK, Calls, WriteFails, Wrote
  <2>4. CASE Goes(p, "guard") /\ UNCHANGED <<journal, failures>>
    BY <2>4, <1>0, <1>b, <1>c DEF TypeOK, Calls, WriteFails, Wrote
  <2> QED
    BY <1>1, <2>1, <2>2, <2>3, <2>4
<1>5. Using(p)'
  BY <1>1, <1>0, <1>b, <1>c DEF Using, LeaseOf, Stopped, Keeping, Maintaining
<1>6. LeaseOf(p)'
  BY <1>1, <1>0, <1>b, <1>c DEF LeaseOf, Maintaining, Coordinating, Keeping, Stopped
<1>7. PlaceOf(p)'
  <2>1. CASE /\ Goes(p, "releaseHold") /\ failures' = failures
             /\ Continues(call[p].upd, journal[call[p].upd], "FINALIZING")
             /\ Wrote(call[p].upd, journal[call[p].upd], "FINALIZING")
    BY <2>1, <1>0, <1>b, <1>c
       DEF PlaceOf, Reached, InFlight, Applying, Planned, PlannedOK, StateOf, Exists,
           Unresolved, Wrote, WriteFails
  <2>2. CASE Goes(p, "unexpected") /\ WriteFails
    BY <2>2, <1>0, <1>b, <1>c
       DEF PlaceOf, Reached, InFlight, Applying, Planned, PlannedOK, StateOf, Exists,
           Unresolved, Wrote, WriteFails
  <2>3. CASE Goes(p, "compensate") /\ UNCHANGED <<journal, failures>>
    BY <2>3, <1>0, <1>b, <1>c
       DEF PlaceOf, Reached, InFlight, Applying, Planned, PlannedOK, StateOf, Exists,
           Unresolved, Wrote, WriteFails
  <2>4. CASE Goes(p, "guard") /\ UNCHANGED <<journal, failures>>
    BY <2>4, <1>0, <1>b, <1>c
       DEF PlaceOf, Reached, InFlight, Applying, Planned, PlannedOK, StateOf, Exists,
           Unresolved, Wrote, WriteFails
  <2> QED
    BY <1>1, <2>1, <2>2, <2>3, <2>4
<1>8. WorkOf(p)'
  <2>1. CASE /\ Goes(p, "releaseHold") /\ failures' = failures
             /\ Continues(call[p].upd, journal[call[p].upd], "FINALIZING")
             /\ Wrote(call[p].upd, journal[call[p].upd], "FINALIZING")
    BY <2>1, <1>0, <1>b, <1>c DEF WorkOf, Wrote, WriteFails
  <2>2. CASE Goes(p, "unexpected") /\ WriteFails
    BY <2>2, <1>0, <1>b, <1>c DEF WorkOf, Wrote, WriteFails
  <2>3. CASE Goes(p, "compensate") /\ UNCHANGED <<journal, failures>>
    BY <2>3, <1>0, <1>b, <1>c DEF WorkOf, Wrote, WriteFails
  <2>4. CASE Goes(p, "guard") /\ UNCHANGED <<journal, failures>>
    BY <2>4, <1>0, <1>b, <1>c DEF WorkOf, Wrote, WriteFails
  <2> QED
    BY <1>1, <2>1, <2>2, <2>3, <2>4
<1>9. RecordOf(p)'
  <2>1. CASE /\ Goes(p, "releaseHold") /\ failures' = failures
             /\ Continues(call[p].upd, journal[call[p].upd], "FINALIZING")
             /\ Wrote(call[p].upd, journal[call[p].upd], "FINALIZING")
    BY <2>1, <1>0, <1>b, <1>c
       DEF RecordOf, Maintaining, Keeping, Settled, Evidenced, Unrolled, Compensated, Changed,
           Wrote, WriteFails
  <2>2. CASE Goes(p, "unexpected") /\ WriteFails
    BY <2>2, <1>0, <1>b, <1>c
       DEF RecordOf, Maintaining, Keeping, Settled, Evidenced, Unrolled, Compensated, Changed,
           Wrote, WriteFails
  <2>3. CASE Goes(p, "compensate") /\ UNCHANGED <<journal, failures>>
    BY <2>3, <1>0, <1>b, <1>c
       DEF RecordOf, Maintaining, Keeping, Settled, Evidenced, Unrolled, Compensated, Changed,
           Wrote, WriteFails
  <2>4. CASE Goes(p, "guard") /\ UNCHANGED <<journal, failures>>
    BY <2>4, <1>0, <1>b, <1>c
       DEF RecordOf, Maintaining, Keeping, Settled, Evidenced, Unrolled, Compensated, Changed,
           Wrote, WriteFails
  <2> QED
    BY <1>1, <2>1, <2>2, <2>3, <2>4
<1>10. PackageOf(p)'
  <2>1. CASE /\ Goes(p, "releaseHold") /\ failures' = failures
             /\ Continues(call[p].upd, journal[call[p].upd], "FINALIZING")
             /\ Wrote(call[p].upd, journal[call[p].upd], "FINALIZING")
    BY <2>1, <1>0, <1>b, <1>c DEF PackageOf, WorkOf, Target, Wrote, WriteFails, RecordOf
  <2>2. CASE Goes(p, "unexpected") /\ WriteFails
    BY <2>2, <1>0, <1>b, <1>c DEF PackageOf, WorkOf, Target, Wrote, WriteFails, RecordOf
  <2>3. CASE Goes(p, "compensate") /\ UNCHANGED <<journal, failures>>
    BY <2>3, <1>0, <1>b, <1>c DEF PackageOf, WorkOf, Target, Wrote, WriteFails, RecordOf
  <2>4. CASE Goes(p, "guard") /\ UNCHANGED <<journal, failures>>
    BY <2>4, <1>0, <1>b, <1>c DEF PackageOf, WorkOf, Target, Wrote, WriteFails, RecordOf
  <2> QED
    BY <1>1, <2>1, <2>2, <2>3, <2>4
<1>11. Comes(p)
  BY <1>1, <1>0, <1>b, <1>c
     DEF TypeOK, LeaseOf, Stopped, Keeping, Maintaining, WriteFails, Comes, Writing, Reached
<1> QED
  BY <1>2, <1>3, <1>4, <1>5, <1>6, <1>7, <1>8, <1>9, <1>10, <1>11 DEF Sound, Mine

\* A plan that could not be bound is marked.
LEMMA MarkPrepareStep ==
  ASSUME IInv, NEW p \in Process, MarkPrepare(p)
  PROVE  Sound(p)
<1> USE UpdateAssumption, NoneAssumption DEF At, World, Leases, Disk, Changing, Goes, Carries, Left,
      Moves, QuitResult, GiveBack, Free
<1>0. /\ call[p].at = "markPrepare" /\ call[p].upd \in Update /\ Exists(call[p].upd)
      /\ journal[call[p].upd] \in Journal
      /\ StateOf(call[p].upd) = "PREPARED"
      /\ Evidenced(journal[call[p].upd], StateOf(call[p].upd))
  BY Being DEF MarkPrepare, IInv, WriterInv, PlaceOf, Reached, Applying, JournalReadable,
     Planned, PlannedOK
<1>1. \/ /\ Left(p) /\ failures' = failures
         /\ Continues(call[p].upd, journal[call[p].upd], "RECOVERY_REQUIRED")
         /\ Wrote(call[p].upd, journal[call[p].upd], "RECOVERY_REQUIRED")
      \/ Left(p) /\ WriteFails
  <2>1. Left(p)
    BY Leaving DEF MarkPrepare, IInv, JournalReadable
  <2>2. ASSUME Write(call[p].upd, journal[call[p].upd], "RECOVERY_REQUIRED")
        PROVE  /\ Continues(call[p].upd, journal[call[p].upd], "RECOVERY_REQUIRED")
               /\ Wrote(call[p].upd, journal[call[p].upd], "RECOVERY_REQUIRED")
    <3>1. Evidenced(journal[call[p].upd], "RECOVERY_REQUIRED")
      BY <1>0 DEF Evidenced, Unrolled, Changed, Compensated
    <3>2. Continues(call[p].upd, journal[call[p].upd], "RECOVERY_REQUIRED")
      BY <1>0, <2>2, <3>1 DEF Continues, Allowed, InFlight
    <3> QED
      BY <1>0, <3>2, Continued DEF IInv
  <2> QED
    BY <2>1, <2>2 DEF MarkPrepare
<1>c. /\ p \in alive /\ TypeOK /\ Using(p)
      /\ LeaseOf(p) /\ PlaceOf(p) /\ WorkOf(p) /\ RecordOf(p) /\ PackageOf(p)
      /\ db.work = worked
  BY DEF IInv, JournalReadable, LeaseInv, WriterInv, WorkInv, RecordInv, PackageInv, Exists,
     Using, MarkPrepare
<1>b. UNCHANGED <<hold, coord, alive, rt, asked, worked, due, bound, db, snap, package>>
  BY DEF MarkPrepare
<1>2. Touches(p)
  BY <1>1, <1>0, <1>b, <1>c
     DEF Touches, TypeOK, WorkInv, IInv, LeaseOf, PlaceOf, Maintaining, Coordinating, Keeping,
         Applying, Writing, Reached, WriteFails
<1>3. Writes(p)
  BY <1>1, <1>0, <1>b, <1>c DEF Writes, Writers, Settled, WriteFails
<1>4. TypeOK'
  <2>1. CASE /\ Left(p) /\ failures' = failures
             /\ Continues(call[p].upd, journal[call[p].upd], "RECOVERY_REQUIRED")
             /\ Wrote(call[p].upd, journal[call[p].upd], "RECOVERY_REQUIRED")
    BY <2>1, <1>0, <1>b, <1>c DEF TypeOK, Calls, WriteFails, Wrote
  <2>2. CASE Left(p) /\ WriteFails
    BY <2>2, <1>0, <1>b, <1>c DEF TypeOK, Calls, WriteFails, Wrote
  <2> QED
    BY <1>1, <2>1, <2>2
<1>5. Using(p)'
  BY <1>1, <1>0, <1>b, <1>c DEF Using, LeaseOf, Stopped, Keeping, Maintaining
<1>6. LeaseOf(p)'
  BY <1>1, <1>0, <1>b, <1>c DEF LeaseOf, Maintaining, Coordinating, Keeping, Stopped
<1>7. PlaceOf(p)'
  <2>1. CASE /\ Left(p) /\ failures' = failures
             /\ Continues(call[p].upd, journal[call[p].upd], "RECOVERY_REQUIRED")
             /\ Wrote(call[p].upd, journal[call[p].upd], "RECOVERY_REQUIRED")
    BY <2>1, <1>0, <1>b, <1>c
       DEF PlaceOf, Reached, InFlight, Applying, Planned, PlannedOK, StateOf, Exists,
           Unresolved, Wrote, WriteFails
  <2>2. CASE Left(p) /\ WriteFails
    BY <2>2, <1>0, <1>b, <1>c
       DEF PlaceOf, Reached, InFlight, Applying, Planned, PlannedOK, StateOf, Exists,
           Unresolved, Wrote, WriteFails
  <2> QED
    BY <1>1, <2>1, <2>2
<1>8. WorkOf(p)'
  <2>1. CASE /\ Left(p) /\ failures' = failures
             /\ Continues(call[p].upd, journal[call[p].upd], "RECOVERY_REQUIRED")
             /\ Wrote(call[p].upd, journal[call[p].upd], "RECOVERY_REQUIRED")
    BY <2>1, <1>0, <1>b, <1>c DEF WorkOf, Wrote, WriteFails
  <2>2. CASE Left(p) /\ WriteFails
    BY <2>2, <1>0, <1>b, <1>c DEF WorkOf, Wrote, WriteFails
  <2> QED
    BY <1>1, <2>1, <2>2
<1>9. RecordOf(p)'
  <2>1. CASE /\ Left(p) /\ failures' = failures
             /\ Continues(call[p].upd, journal[call[p].upd], "RECOVERY_REQUIRED")
             /\ Wrote(call[p].upd, journal[call[p].upd], "RECOVERY_REQUIRED")
    BY <2>1, <1>0, <1>b, <1>c
       DEF RecordOf, Maintaining, Keeping, Settled, Evidenced, Unrolled, Compensated, Changed,
           Wrote, WriteFails
  <2>2. CASE Left(p) /\ WriteFails
    BY <2>2, <1>0, <1>b, <1>c
       DEF RecordOf, Maintaining, Keeping, Settled, Evidenced, Unrolled, Compensated, Changed,
           Wrote, WriteFails
  <2> QED
    BY <1>1, <2>1, <2>2
<1>10. PackageOf(p)'
  <2>1. CASE /\ Left(p) /\ failures' = failures
             /\ Continues(call[p].upd, journal[call[p].upd], "RECOVERY_REQUIRED")
             /\ Wrote(call[p].upd, journal[call[p].upd], "RECOVERY_REQUIRED")
    BY <2>1, <1>0, <1>b, <1>c DEF PackageOf, WorkOf, Target, Wrote, WriteFails
  <2>2. CASE Left(p) /\ WriteFails
    BY <2>2, <1>0, <1>b, <1>c DEF PackageOf, WorkOf, Target, Wrote, WriteFails
  <2> QED
    BY <1>1, <2>1, <2>2
<1>11. Comes(p)
  BY <1>1, <1>0, <1>b, <1>c
     DEF TypeOK, LeaseOf, Stopped, Keeping, Maintaining, WriteFails, Comes, Writing, Reached
<1> QED
  BY <1>2, <1>3, <1>4, <1>5, <1>6, <1>7, <1>8, <1>9, <1>10, <1>11 DEF Sound, Mine

\* The guarded recovery is marked, if it can be.
LEMMA GuardMarkStep ==
  ASSUME IInv, NEW p \in Process, GuardMark(p)
  PROVE  Sound(p)
<1> USE UpdateAssumption, NoneAssumption DEF At, World, Leases, Disk, Changing, Goes, Carries, Left,
      Moves, QuitResult, GiveBack, Free
<1>0. /\ call[p].at = "guardMark" /\ call[p].upd \in Update /\ Exists(call[p].upd)
      /\ journal[call[p].upd] \in Journal
      /\ StateOf(call[p].upd) = "VALIDATING"
      /\ Evidenced(journal[call[p].upd], StateOf(call[p].upd))
  BY Being DEF GuardMark, IInv, WriterInv, PlaceOf, Reached, Applying, JournalReadable
<1>1. \/ /\ Left(p) /\ failures' = failures
         /\ Continues(call[p].upd, journal[call[p].upd], "RECOVERY_REQUIRED")
         /\ Wrote(call[p].upd, journal[call[p].upd], "RECOVERY_REQUIRED")
      \/ Left(p) /\ WriteFails
  <2>1. Left(p)
    BY Leaving DEF GuardMark, IInv, JournalReadable
  <2>2. ASSUME Write(call[p].upd, journal[call[p].upd], "RECOVERY_REQUIRED")
        PROVE  /\ Continues(call[p].upd, journal[call[p].upd], "RECOVERY_REQUIRED")
               /\ Wrote(call[p].upd, journal[call[p].upd], "RECOVERY_REQUIRED")
    <3>1. Evidenced(journal[call[p].upd], "RECOVERY_REQUIRED")
      BY <1>0 DEF Evidenced, Unrolled, Changed, Compensated
    <3>2. Continues(call[p].upd, journal[call[p].upd], "RECOVERY_REQUIRED")
      BY <1>0, <2>2, <3>1 DEF Continues, Allowed, InFlight
    <3> QED
      BY <1>0, <3>2, Continued DEF IInv
  <2> QED
    BY <2>1, <2>2 DEF GuardMark
<1>c. /\ p \in alive /\ TypeOK /\ Using(p)
      /\ LeaseOf(p) /\ PlaceOf(p) /\ WorkOf(p) /\ RecordOf(p) /\ PackageOf(p)
      /\ db.work = worked
  BY DEF IInv, JournalReadable, LeaseInv, WriterInv, WorkInv, RecordInv, PackageInv, Exists,
     Using, GuardMark
<1>b. UNCHANGED <<hold, coord, alive, rt, asked, worked, due, bound, db, snap, package>>
  BY DEF GuardMark
<1>2. Touches(p)
  BY <1>1, <1>0, <1>b, <1>c
     DEF Touches, TypeOK, WorkInv, IInv, LeaseOf, PlaceOf, Maintaining, Coordinating, Keeping,
         Applying, Writing, Reached, WriteFails
<1>3. Writes(p)
  BY <1>1, <1>0, <1>b, <1>c DEF Writes, Writers, Settled, WriteFails
<1>4. TypeOK'
  <2>1. CASE /\ Left(p) /\ failures' = failures
             /\ Continues(call[p].upd, journal[call[p].upd], "RECOVERY_REQUIRED")
             /\ Wrote(call[p].upd, journal[call[p].upd], "RECOVERY_REQUIRED")
    BY <2>1, <1>0, <1>b, <1>c DEF TypeOK, Calls, WriteFails, Wrote
  <2>2. CASE Left(p) /\ WriteFails
    BY <2>2, <1>0, <1>b, <1>c DEF TypeOK, Calls, WriteFails, Wrote
  <2> QED
    BY <1>1, <2>1, <2>2
<1>5. Using(p)'
  BY <1>1, <1>0, <1>b, <1>c DEF Using, LeaseOf, Stopped, Keeping, Maintaining
<1>6. LeaseOf(p)'
  BY <1>1, <1>0, <1>b, <1>c DEF LeaseOf, Maintaining, Coordinating, Keeping, Stopped
<1>7. PlaceOf(p)'
  <2>1. CASE /\ Left(p) /\ failures' = failures
             /\ Continues(call[p].upd, journal[call[p].upd], "RECOVERY_REQUIRED")
             /\ Wrote(call[p].upd, journal[call[p].upd], "RECOVERY_REQUIRED")
    BY <2>1, <1>0, <1>b, <1>c
       DEF PlaceOf, Reached, InFlight, Applying, Planned, PlannedOK, StateOf, Exists,
           Unresolved, Wrote, WriteFails
  <2>2. CASE Left(p) /\ WriteFails
    BY <2>2, <1>0, <1>b, <1>c
       DEF PlaceOf, Reached, InFlight, Applying, Planned, PlannedOK, StateOf, Exists,
           Unresolved, Wrote, WriteFails
  <2> QED
    BY <1>1, <2>1, <2>2
<1>8. WorkOf(p)'
  <2>1. CASE /\ Left(p) /\ failures' = failures
             /\ Continues(call[p].upd, journal[call[p].upd], "RECOVERY_REQUIRED")
             /\ Wrote(call[p].upd, journal[call[p].upd], "RECOVERY_REQUIRED")
    BY <2>1, <1>0, <1>b, <1>c DEF WorkOf, Wrote, WriteFails
  <2>2. CASE Left(p) /\ WriteFails
    BY <2>2, <1>0, <1>b, <1>c DEF WorkOf, Wrote, WriteFails
  <2> QED
    BY <1>1, <2>1, <2>2
<1>9. RecordOf(p)'
  <2>1. CASE /\ Left(p) /\ failures' = failures
             /\ Continues(call[p].upd, journal[call[p].upd], "RECOVERY_REQUIRED")
             /\ Wrote(call[p].upd, journal[call[p].upd], "RECOVERY_REQUIRED")
    BY <2>1, <1>0, <1>b, <1>c
       DEF RecordOf, Maintaining, Keeping, Settled, Evidenced, Unrolled, Compensated, Changed,
           Wrote, WriteFails
  <2>2. CASE Left(p) /\ WriteFails
    BY <2>2, <1>0, <1>b, <1>c
       DEF RecordOf, Maintaining, Keeping, Settled, Evidenced, Unrolled, Compensated, Changed,
           Wrote, WriteFails
  <2> QED
    BY <1>1, <2>1, <2>2
<1>10. PackageOf(p)'
  <2>1. CASE /\ Left(p) /\ failures' = failures
             /\ Continues(call[p].upd, journal[call[p].upd], "RECOVERY_REQUIRED")
             /\ Wrote(call[p].upd, journal[call[p].upd], "RECOVERY_REQUIRED")
    BY <2>1, <1>0, <1>b, <1>c DEF PackageOf, WorkOf, Target, Wrote, WriteFails
  <2>2. CASE Left(p) /\ WriteFails
    BY <2>2, <1>0, <1>b, <1>c DEF PackageOf, WorkOf, Target, Wrote, WriteFails
  <2> QED
    BY <1>1, <2>1, <2>2
<1>11. Comes(p)
  BY <1>1, <1>0, <1>b, <1>c
     DEF TypeOK, LeaseOf, Stopped, Keeping, Maintaining, WriteFails, Comes, Writing, Reached
<1> QED
  BY <1>2, <1>3, <1>4, <1>5, <1>6, <1>7, <1>8, <1>9, <1>10, <1>11 DEF Sound, Mine

\* The last state is written when both leases are given back.
LEMMA SettleStep ==
  ASSUME IInv, NEW p \in Process, Settle(p)
  PROVE  Sound(p)
<1> USE UpdateAssumption, NoneAssumption DEF At, World, Leases, Disk, Changing, Goes, Carries, Left,
      Moves, QuitResult, GiveBack, Free
<1>0. /\ call[p].at = "settle" /\ call[p].upd \in Update /\ Exists(call[p].upd)
      /\ journal[call[p].upd] \in Journal
      /\ StateOf(call[p].upd) = "FINALIZING"
      /\ Evidenced(journal[call[p].upd], StateOf(call[p].upd))
      /\ call[p].outcome \in Settled /\ Evidenced(journal[call[p].upd], call[p].outcome)
  BY Being DEF Settle, IInv, WriterInv, PlaceOf, Reached, Applying, JournalReadable, RecordInv,
     RecordOf
<1>1. \/ /\ Left(p) /\ failures' = failures
         /\ Continues(call[p].upd, journal[call[p].upd], call[p].outcome)
         /\ Wrote(call[p].upd, journal[call[p].upd], call[p].outcome)
      \/ Goes(p, "unexpected") /\ WriteFails
  <2>1. \/ Left(p) /\ Write(call[p].upd, journal[call[p].upd], call[p].outcome) /\ failures' = failures
        \/ Goes(p, "unexpected") /\ WriteFails
    BY Leaving, Going DEF Settle, Applying, IInv, JournalReadable
  <2>2. ASSUME Write(call[p].upd, journal[call[p].upd], call[p].outcome)
        PROVE  /\ Continues(call[p].upd, journal[call[p].upd], call[p].outcome)
               /\ Wrote(call[p].upd, journal[call[p].upd], call[p].outcome)
    <3>1. Continues(call[p].upd, journal[call[p].upd], call[p].outcome)
      BY <1>0, <2>2 DEF Continues, Allowed
    <3> QED
      BY <1>0, <3>1, Continued DEF IInv
  <2> QED
    BY <2>1, <2>2
<1>c. /\ p \in alive /\ TypeOK /\ Using(p)
      /\ LeaseOf(p) /\ PlaceOf(p) /\ WorkOf(p) /\ RecordOf(p) /\ PackageOf(p)
      /\ db.work = worked
  BY DEF IInv, JournalReadable, LeaseInv, WriterInv, WorkInv, RecordInv, PackageInv, Exists,
     Using, Settle
<1>b. UNCHANGED <<hold, coord, alive, rt, asked, worked, due, bound, db, snap, package>>
  BY DEF Settle
<1>2. Touches(p)
  BY <1>1, <1>0, <1>b, <1>c
     DEF Touches, TypeOK, WorkInv, IInv, LeaseOf, PlaceOf, Maintaining, Coordinating, Keeping,
         Applying, Writing, Reached, WriteFails
<1>3. Writes(p)
  BY <1>1, <1>0, <1>b, <1>c DEF Writes, Writers, Settled, WriteFails
<1>4. TypeOK'
  <2>1. CASE /\ Left(p) /\ failures' = failures
             /\ Continues(call[p].upd, journal[call[p].upd], call[p].outcome)
             /\ Wrote(call[p].upd, journal[call[p].upd], call[p].outcome)
    BY <2>1, <1>0, <1>b, <1>c DEF TypeOK, Calls, WriteFails, Wrote
  <2>2. CASE Goes(p, "unexpected") /\ WriteFails
    BY <2>2, <1>0, <1>b, <1>c DEF TypeOK, Calls, WriteFails, Wrote
  <2> QED
    BY <1>1, <2>1, <2>2
<1>5. Using(p)'
  BY <1>1, <1>0, <1>b, <1>c DEF Using, LeaseOf, Stopped, Keeping, Maintaining
<1>6. LeaseOf(p)'
  BY <1>1, <1>0, <1>b, <1>c DEF LeaseOf, Maintaining, Coordinating, Keeping, Stopped
<1>7. PlaceOf(p)'
  <2>1. CASE /\ Left(p) /\ failures' = failures
             /\ Continues(call[p].upd, journal[call[p].upd], call[p].outcome)
             /\ Wrote(call[p].upd, journal[call[p].upd], call[p].outcome)
    BY <2>1, <1>0, <1>b, <1>c
       DEF PlaceOf, Reached, InFlight, Applying, Planned, PlannedOK, StateOf, Exists,
           Unresolved, Wrote, WriteFails
  <2>2. CASE Goes(p, "unexpected") /\ WriteFails
    BY <2>2, <1>0, <1>b, <1>c
       DEF PlaceOf, Reached, InFlight, Applying, Planned, PlannedOK, StateOf, Exists,
           Unresolved, Wrote, WriteFails
  <2> QED
    BY <1>1, <2>1, <2>2
<1>8. WorkOf(p)'
  <2>1. CASE /\ Left(p) /\ failures' = failures
             /\ Continues(call[p].upd, journal[call[p].upd], call[p].outcome)
             /\ Wrote(call[p].upd, journal[call[p].upd], call[p].outcome)
    BY <2>1, <1>0, <1>b, <1>c DEF WorkOf, Wrote, WriteFails
  <2>2. CASE Goes(p, "unexpected") /\ WriteFails
    BY <2>2, <1>0, <1>b, <1>c DEF WorkOf, Wrote, WriteFails
  <2> QED
    BY <1>1, <2>1, <2>2
<1>9. RecordOf(p)'
  <2>1. CASE /\ Left(p) /\ failures' = failures
             /\ Continues(call[p].upd, journal[call[p].upd], call[p].outcome)
             /\ Wrote(call[p].upd, journal[call[p].upd], call[p].outcome)
    BY <2>1, <1>0, <1>b, <1>c
       DEF RecordOf, Maintaining, Keeping, Settled, Evidenced, Unrolled, Compensated, Changed,
           Wrote, WriteFails
  <2>2. CASE Goes(p, "unexpected") /\ WriteFails
    BY <2>2, <1>0, <1>b, <1>c
       DEF RecordOf, Maintaining, Keeping, Settled, Evidenced, Unrolled, Compensated, Changed,
           Wrote, WriteFails
  <2> QED
    BY <1>1, <2>1, <2>2
<1>10. PackageOf(p)'
  <2>1. CASE /\ Left(p) /\ failures' = failures
             /\ Continues(call[p].upd, journal[call[p].upd], call[p].outcome)
             /\ Wrote(call[p].upd, journal[call[p].upd], call[p].outcome)
    BY <2>1, <1>0, <1>b, <1>c DEF PackageOf, WorkOf, Target, Wrote, WriteFails
  <2>2. CASE Goes(p, "unexpected") /\ WriteFails
    BY <2>2, <1>0, <1>b, <1>c DEF PackageOf, WorkOf, Target, Wrote, WriteFails
  <2> QED
    BY <1>1, <2>1, <2>2
<1>11. Comes(p)
  BY <1>1, <1>0, <1>b, <1>c
     DEF TypeOK, LeaseOf, Stopped, Keeping, Maintaining, WriteFails, Comes, Writing, Reached
<1> QED
  BY <1>2, <1>3, <1>4, <1>5, <1>6, <1>7, <1>8, <1>9, <1>10, <1>11 DEF Sound, Mine

\* A coordination that cannot be given back is on record.
LEMMA ReleaseCoordStep ==
  ASSUME IInv, NEW p \in Process, ReleaseCoord(p)
  PROVE  Sound(p)
<1> USE UpdateAssumption, NoneAssumption DEF At, World, Leases, Disk, Changing, Goes, Carries, Left,
      Moves, QuitResult, GiveBack, Free
<1>0. /\ call[p].at = "releaseCoord" /\ call[p].upd \in Update /\ Exists(call[p].upd)
      /\ journal[call[p].upd] \in Journal
      /\ StateOf(call[p].upd) = "FINALIZING"
      /\ Evidenced(journal[call[p].upd], StateOf(call[p].upd))
  BY Being DEF ReleaseCoord, IInv, WriterInv, PlaceOf, Reached, Applying, JournalReadable
<1>1. \/ Goes(p, "settle") /\ coord' = None /\ UNCHANGED <<journal, failures>>
      \/ /\ Left(p) /\ coord' = coord /\ failures' = failures
         /\ Continues(call[p].upd, journal[call[p].upd], "RECOVERY_REQUIRED")
         /\ Wrote(call[p].upd, journal[call[p].upd], "RECOVERY_REQUIRED")
      \/ Goes(p, "unexpected") /\ coord' = coord /\ WriteFails
  <2>1. \/ Goes(p, "settle") /\ coord' = None /\ UNCHANGED <<journal, failures>>
        \/ /\ Left(p) /\ coord' = coord /\ failures' = failures
           /\ Write(call[p].upd, journal[call[p].upd], "RECOVERY_REQUIRED")
        \/ Goes(p, "unexpected") /\ coord' = coord /\ WriteFails
    BY Leaving, Going DEF ReleaseCoord, Applying, IInv, JournalReadable
  <2>2. ASSUME Write(call[p].upd, journal[call[p].upd], "RECOVERY_REQUIRED")
        PROVE  /\ Continues(call[p].upd, journal[call[p].upd], "RECOVERY_REQUIRED")
               /\ Wrote(call[p].upd, journal[call[p].upd], "RECOVERY_REQUIRED")
    <3>1. Evidenced(journal[call[p].upd], "RECOVERY_REQUIRED")
      BY <1>0 DEF Evidenced, Unrolled, Changed, Compensated
    <3>2. Continues(call[p].upd, journal[call[p].upd], "RECOVERY_REQUIRED")
      BY <1>0, <2>2, <3>1 DEF Continues, Allowed, InFlight
    <3> QED
      BY <1>0, <3>2, Continued DEF IInv
  <2> QED
    BY <2>1, <2>2
<1>c. /\ p \in alive /\ TypeOK /\ Using(p)
      /\ LeaseOf(p) /\ PlaceOf(p) /\ WorkOf(p) /\ RecordOf(p) /\ PackageOf(p)
      /\ db.work = worked
  BY DEF IInv, JournalReadable, LeaseInv, WriterInv, WorkInv, RecordInv, PackageInv, Exists,
     Using, ReleaseCoord
<1>b. UNCHANGED <<hold, alive, rt, asked, worked, due, bound, db, snap, package>>
  BY DEF ReleaseCoord
<1>2. Touches(p)
  BY <1>1, <1>0, <1>b, <1>c
     DEF Touches, TypeOK, WorkInv, IInv, LeaseOf, PlaceOf, Maintaining, Coordinating, Keeping,
         Applying, Writing, Reached, WriteFails
<1>3. Writes(p)
  BY <1>1, <1>0, <1>b, <1>c DEF Writes, Writers, Settled, WriteFails
<1>4. TypeOK'
  <2>1. CASE Goes(p, "settle") /\ coord' = None /\ UNCHANGED <<journal, failures>>
    BY <2>1, <1>0, <1>b, <1>c DEF TypeOK, Calls, WriteFails, Wrote
  <2>2. CASE /\ Left(p) /\ coord' = coord /\ failures' = failures
             /\ Continues(call[p].upd, journal[call[p].upd], "RECOVERY_REQUIRED")
             /\ Wrote(call[p].upd, journal[call[p].upd], "RECOVERY_REQUIRED")
    BY <2>2, <1>0, <1>b, <1>c DEF TypeOK, Calls, WriteFails, Wrote
  <2>3. CASE Goes(p, "unexpected") /\ coord' = coord /\ WriteFails
    BY <2>3, <1>0, <1>b, <1>c DEF TypeOK, Calls, WriteFails, Wrote
  <2> QED
    BY <1>1, <2>1, <2>2, <2>3
<1>5. Using(p)'
  BY <1>1, <1>0, <1>b, <1>c DEF Using, LeaseOf, Stopped, Keeping, Maintaining
<1>6. LeaseOf(p)'
  BY <1>1, <1>0, <1>b, <1>c DEF LeaseOf, Maintaining, Coordinating, Keeping, Stopped
<1>7. PlaceOf(p)'
  <2>1. CASE Goes(p, "settle") /\ coord' = None /\ UNCHANGED <<journal, failures>>
    BY <2>1, <1>0, <1>b, <1>c
       DEF PlaceOf, Reached, InFlight, Applying, Planned, PlannedOK, StateOf, Exists,
           Unresolved, Wrote, WriteFails
  <2>2. CASE /\ Left(p) /\ coord' = coord /\ failures' = failures
             /\ Continues(call[p].upd, journal[call[p].upd], "RECOVERY_REQUIRED")
             /\ Wrote(call[p].upd, journal[call[p].upd], "RECOVERY_REQUIRED")
    BY <2>2, <1>0, <1>b, <1>c
       DEF PlaceOf, Reached, InFlight, Applying, Planned, PlannedOK, StateOf, Exists,
           Unresolved, Wrote, WriteFails
  <2>3. CASE Goes(p, "unexpected") /\ coord' = coord /\ WriteFails
    BY <2>3, <1>0, <1>b, <1>c
       DEF PlaceOf, Reached, InFlight, Applying, Planned, PlannedOK, StateOf, Exists,
           Unresolved, Wrote, WriteFails
  <2> QED
    BY <1>1, <2>1, <2>2, <2>3
<1>8. WorkOf(p)'
  <2>1. CASE Goes(p, "settle") /\ coord' = None /\ UNCHANGED <<journal, failures>>
    BY <2>1, <1>0, <1>b, <1>c DEF WorkOf, Wrote, WriteFails
  <2>2. CASE /\ Left(p) /\ coord' = coord /\ failures' = failures
             /\ Continues(call[p].upd, journal[call[p].upd], "RECOVERY_REQUIRED")
             /\ Wrote(call[p].upd, journal[call[p].upd], "RECOVERY_REQUIRED")
    BY <2>2, <1>0, <1>b, <1>c DEF WorkOf, Wrote, WriteFails
  <2>3. CASE Goes(p, "unexpected") /\ coord' = coord /\ WriteFails
    BY <2>3, <1>0, <1>b, <1>c DEF WorkOf, Wrote, WriteFails
  <2> QED
    BY <1>1, <2>1, <2>2, <2>3
<1>9. RecordOf(p)'
  <2>1. CASE Goes(p, "settle") /\ coord' = None /\ UNCHANGED <<journal, failures>>
    BY <2>1, <1>0, <1>b, <1>c
       DEF RecordOf, Maintaining, Keeping, Settled, Evidenced, Unrolled, Compensated, Changed,
           Wrote, WriteFails
  <2>2. CASE /\ Left(p) /\ coord' = coord /\ failures' = failures
             /\ Continues(call[p].upd, journal[call[p].upd], "RECOVERY_REQUIRED")
             /\ Wrote(call[p].upd, journal[call[p].upd], "RECOVERY_REQUIRED")
    BY <2>2, <1>0, <1>b, <1>c
       DEF RecordOf, Maintaining, Keeping, Settled, Evidenced, Unrolled, Compensated, Changed,
           Wrote, WriteFails
  <2>3. CASE Goes(p, "unexpected") /\ coord' = coord /\ WriteFails
    BY <2>3, <1>0, <1>b, <1>c
       DEF RecordOf, Maintaining, Keeping, Settled, Evidenced, Unrolled, Compensated, Changed,
           Wrote, WriteFails
  <2> QED
    BY <1>1, <2>1, <2>2, <2>3
<1>10. PackageOf(p)'
  <2>1. CASE Goes(p, "settle") /\ coord' = None /\ UNCHANGED <<journal, failures>>
    BY <2>1, <1>0, <1>b, <1>c DEF PackageOf, WorkOf, Target, Wrote, WriteFails
  <2>2. CASE /\ Left(p) /\ coord' = coord /\ failures' = failures
             /\ Continues(call[p].upd, journal[call[p].upd], "RECOVERY_REQUIRED")
             /\ Wrote(call[p].upd, journal[call[p].upd], "RECOVERY_REQUIRED")
    BY <2>2, <1>0, <1>b, <1>c DEF PackageOf, WorkOf, Target, Wrote, WriteFails
  <2>3. CASE Goes(p, "unexpected") /\ coord' = coord /\ WriteFails
    BY <2>3, <1>0, <1>b, <1>c DEF PackageOf, WorkOf, Target, Wrote, WriteFails
  <2> QED
    BY <1>1, <2>1, <2>2, <2>3
<1>11. Comes(p)
  BY <1>1, <1>0, <1>b, <1>c
     DEF TypeOK, LeaseOf, Stopped, Keeping, Maintaining, WriteFails, Comes, Writing, Reached
<1> QED
  BY <1>2, <1>3, <1>4, <1>5, <1>6, <1>7, <1>8, <1>9, <1>10, <1>11 DEF Sound, Mine

\* What failed unexpectedly is marked, or the lease is lost.
LEMMA UnexpectedStep ==
  ASSUME IInv, NEW p \in Process, Unexpected(p)
  PROVE  Sound(p)
<1> USE UpdateAssumption, NoneAssumption DEF At, World, Leases, Disk, Changing, Goes, Carries, Left,
      Moves, QuitResult, GiveBack, Free
<1>0. /\ call[p].at = "unexpected" /\ call[p].upd \in Update /\ Exists(call[p].upd)
      /\ journal[call[p].upd] \in Journal
      /\ StateOf(call[p].upd) \in InFlight \cup {"PREPARED"}
      /\ Evidenced(journal[call[p].upd], StateOf(call[p].upd))
  BY Being DEF Unexpected, IInv, WriterInv, PlaceOf, Reached, Applying, JournalReadable
<1>1. \/ /\ Goes(p, "finish") /\ failures' = failures
         /\ Continues(call[p].upd, journal[call[p].upd], "RECOVERY_REQUIRED")
         /\ Wrote(call[p].upd, journal[call[p].upd], "RECOVERY_REQUIRED")
      \/ Goes(p, "dropHold") /\ WriteFails
      \/ Goes(p, "dropHold") /\ StateOf(call[p].upd) = "PREPARED" /\ UNCHANGED <<journal, failures>>
  <2>1. \/ /\ Goes(p, "finish") /\ failures' = failures
           /\ Write(call[p].upd, journal[call[p].upd], "RECOVERY_REQUIRED")
        \/ Goes(p, "dropHold") /\ WriteFails
        \/ Goes(p, "dropHold") /\ StateOf(call[p].upd) = "PREPARED" /\ UNCHANGED <<journal, failures>>
    BY Going DEF Unexpected, Applying, IInv, JournalReadable
  <2>2. ASSUME Write(call[p].upd, journal[call[p].upd], "RECOVERY_REQUIRED")
        PROVE  /\ Continues(call[p].upd, journal[call[p].upd], "RECOVERY_REQUIRED")
               /\ Wrote(call[p].upd, journal[call[p].upd], "RECOVERY_REQUIRED")
    <3>1. Evidenced(journal[call[p].upd], "RECOVERY_REQUIRED")
      BY <1>0 DEF Evidenced, Unrolled, Changed, Compensated
    <3>2. Continues(call[p].upd, journal[call[p].upd], "RECOVERY_REQUIRED")
      BY <1>0, <2>2, <3>1 DEF Continues, Allowed, InFlight
    <3> QED
      BY <1>0, <3>2, Continued DEF IInv
  <2> QED
    BY <2>1, <2>2
<1>c. /\ p \in alive /\ TypeOK /\ Using(p)
      /\ LeaseOf(p) /\ PlaceOf(p) /\ WorkOf(p) /\ RecordOf(p) /\ PackageOf(p)
      /\ db.work = worked
  BY DEF IInv, JournalReadable, LeaseInv, WriterInv, WorkInv, RecordInv, PackageInv, Exists,
     Using, Unexpected
<1>b. UNCHANGED <<hold, coord, alive, rt, asked, worked, due, bound, db, snap, package>>
  BY DEF Unexpected
<1>2. Touches(p)
  BY <1>1, <1>0, <1>b, <1>c
     DEF Touches, TypeOK, WorkInv, IInv, LeaseOf, PlaceOf, Maintaining, Coordinating, Keeping,
         Applying, Writing, Reached, WriteFails
<1>3. Writes(p)
  BY <1>1, <1>0, <1>b, <1>c DEF Writes, Writers, Settled, WriteFails
<1>4. TypeOK'
  <2>1. CASE /\ Goes(p, "finish") /\ failures' = failures
             /\ Continues(call[p].upd, journal[call[p].upd], "RECOVERY_REQUIRED")
             /\ Wrote(call[p].upd, journal[call[p].upd], "RECOVERY_REQUIRED")
    BY <2>1, <1>0, <1>b, <1>c DEF TypeOK, Calls, WriteFails, Wrote
  <2>2. CASE Goes(p, "dropHold") /\ WriteFails
    BY <2>2, <1>0, <1>b, <1>c DEF TypeOK, Calls, WriteFails, Wrote
  <2>3. CASE Goes(p, "dropHold") /\ StateOf(call[p].upd) = "PREPARED" /\ UNCHANGED <<journal, failures>>
    BY <2>3, <1>0, <1>b, <1>c DEF TypeOK, Calls, WriteFails, Wrote
  <2> QED
    BY <1>1, <2>1, <2>2, <2>3
<1>5. Using(p)'
  BY <1>1, <1>0, <1>b, <1>c DEF Using, LeaseOf, Stopped, Keeping, Maintaining
<1>6. LeaseOf(p)'
  BY <1>1, <1>0, <1>b, <1>c DEF LeaseOf, Maintaining, Coordinating, Keeping, Stopped
<1>7. PlaceOf(p)'
  <2>1. CASE /\ Goes(p, "finish") /\ failures' = failures
             /\ Continues(call[p].upd, journal[call[p].upd], "RECOVERY_REQUIRED")
             /\ Wrote(call[p].upd, journal[call[p].upd], "RECOVERY_REQUIRED")
    BY <2>1, <1>0, <1>b, <1>c
       DEF PlaceOf, Reached, InFlight, Applying, Planned, PlannedOK, StateOf, Exists,
           Unresolved, Wrote, WriteFails
  <2>2. CASE Goes(p, "dropHold") /\ WriteFails
    BY <2>2, <1>0, <1>b, <1>c
       DEF PlaceOf, Reached, InFlight, Applying, Planned, PlannedOK, StateOf, Exists,
           Unresolved, Wrote, WriteFails
  <2>3. CASE Goes(p, "dropHold") /\ StateOf(call[p].upd) = "PREPARED" /\ UNCHANGED <<journal, failures>>
    BY <2>3, <1>0, <1>b, <1>c
       DEF PlaceOf, Reached, InFlight, Applying, Planned, PlannedOK, StateOf, Exists,
           Unresolved, Wrote, WriteFails
  <2> QED
    BY <1>1, <2>1, <2>2, <2>3
<1>8. WorkOf(p)'
  <2>1. CASE /\ Goes(p, "finish") /\ failures' = failures
             /\ Continues(call[p].upd, journal[call[p].upd], "RECOVERY_REQUIRED")
             /\ Wrote(call[p].upd, journal[call[p].upd], "RECOVERY_REQUIRED")
    BY <2>1, <1>0, <1>b, <1>c DEF WorkOf, Wrote, WriteFails
  <2>2. CASE Goes(p, "dropHold") /\ WriteFails
    BY <2>2, <1>0, <1>b, <1>c DEF WorkOf, Wrote, WriteFails
  <2>3. CASE Goes(p, "dropHold") /\ StateOf(call[p].upd) = "PREPARED" /\ UNCHANGED <<journal, failures>>
    BY <2>3, <1>0, <1>b, <1>c DEF WorkOf, Wrote, WriteFails
  <2> QED
    BY <1>1, <2>1, <2>2, <2>3
<1>9. RecordOf(p)'
  <2>1. CASE /\ Goes(p, "finish") /\ failures' = failures
             /\ Continues(call[p].upd, journal[call[p].upd], "RECOVERY_REQUIRED")
             /\ Wrote(call[p].upd, journal[call[p].upd], "RECOVERY_REQUIRED")
    BY <2>1, <1>0, <1>b, <1>c
       DEF RecordOf, Maintaining, Keeping, Settled, Evidenced, Unrolled, Compensated, Changed,
           Wrote, WriteFails
  <2>2. CASE Goes(p, "dropHold") /\ WriteFails
    BY <2>2, <1>0, <1>b, <1>c
       DEF RecordOf, Maintaining, Keeping, Settled, Evidenced, Unrolled, Compensated, Changed,
           Wrote, WriteFails
  <2>3. CASE Goes(p, "dropHold") /\ StateOf(call[p].upd) = "PREPARED" /\ UNCHANGED <<journal, failures>>
    BY <2>3, <1>0, <1>b, <1>c
       DEF RecordOf, Maintaining, Keeping, Settled, Evidenced, Unrolled, Compensated, Changed,
           Wrote, WriteFails
  <2> QED
    BY <1>1, <2>1, <2>2, <2>3
<1>10. PackageOf(p)'
  <2>1. CASE /\ Goes(p, "finish") /\ failures' = failures
             /\ Continues(call[p].upd, journal[call[p].upd], "RECOVERY_REQUIRED")
             /\ Wrote(call[p].upd, journal[call[p].upd], "RECOVERY_REQUIRED")
    BY <2>1, <1>0, <1>b, <1>c DEF PackageOf, WorkOf, Target, Wrote, WriteFails
  <2>2. CASE Goes(p, "dropHold") /\ WriteFails
    BY <2>2, <1>0, <1>b, <1>c DEF PackageOf, WorkOf, Target, Wrote, WriteFails
  <2>3. CASE Goes(p, "dropHold") /\ StateOf(call[p].upd) = "PREPARED" /\ UNCHANGED <<journal, failures>>
    BY <2>3, <1>0, <1>b, <1>c DEF PackageOf, WorkOf, Target, Wrote, WriteFails
  <2> QED
    BY <1>1, <2>1, <2>2, <2>3
<1>11. Comes(p)
  BY <1>1, <1>0, <1>b, <1>c
     DEF TypeOK, LeaseOf, Stopped, Keeping, Maintaining, WriteFails, Comes, Writing, Reached
<1> QED
  BY <1>2, <1>3, <1>4, <1>5, <1>6, <1>7, <1>8, <1>9, <1>10, <1>11 DEF Sound, Mine

\* And what the restore came to.
LEMMA RecordRestoreStep ==
  ASSUME IInv, NEW p \in Process, RecordRestore(p)
  PROVE  Sound(p)
<1> USE UpdateAssumption, NoneAssumption DEF At, World, Leases, Disk, Changing, Goes, Carries, Left,
      Moves, QuitResult, GiveBack, Free
<1> DEFINE J == [journal[call[p].upd] EXCEPT !.restored = (call[p].outcome = "ROLLED_BACK")]
<1>0. /\ call[p].at = "recordRestore" /\ call[p].upd \in Update /\ Exists(call[p].upd)
      /\ journal[call[p].upd] \in Journal /\ StateOf(call[p].upd) = "RESTORING"
      /\ Evidenced(journal[call[p].upd], StateOf(call[p].upd))
      /\ call[p].outcome \in {"ROLLED_BACK", "raised"}
  BY Being DEF RecordRestore, IInv, WriterInv, PlaceOf, Reached, Applying, JournalReadable,
     RecordInv, RecordOf
<1>a. /\ J \in Journal /\ J.from = journal[call[p].upd].from /\ J.snapshot = journal[call[p].upd].snapshot
      /\ J.history = journal[call[p].upd].history
      /\ J.restored = (call[p].outcome = "ROLLED_BACK")
      /\ J.install = journal[call[p].upd].install /\ J.rollback = journal[call[p].upd].rollback
  BY <1>0 DEF Journal, InstallStates, RollbackStates
<1> HIDE DEF J
<1>1. \/ /\ call[p].outcome = "ROLLED_BACK" /\ Goes(p, "releaseHold") /\ failures' = failures
         /\ Continues(call[p].upd, J, "FINALIZING") /\ Wrote(call[p].upd, J, "FINALIZING")
      \/ /\ call[p].outcome # "ROLLED_BACK" /\ Goes(p, "finish") /\ failures' = failures
         /\ Continues(call[p].upd, J, "RECOVERY_REQUIRED")
         /\ Wrote(call[p].upd, J, "RECOVERY_REQUIRED")
      \/ Goes(p, "unexpected") /\ WriteFails
  <2>1. CASE call[p].outcome = "ROLLED_BACK"
    <3>1. Transition(p, J, "FINALIZING")
      BY <2>1, <1>0 DEF RecordRestore, J
    <3>2. \/ Goes(p, "releaseHold") /\ Write(call[p].upd, J, "FINALIZING") /\ failures' = failures
          \/ Goes(p, "unexpected") /\ WriteFails
      BY <3>1, Passing DEF Then, IInv, JournalReadable
    <3>3. ASSUME Write(call[p].upd, J, "FINALIZING")
          PROVE  Continues(call[p].upd, J, "FINALIZING") /\ Wrote(call[p].upd, J, "FINALIZING")
      <4>1. Evidenced(J, "FINALIZING")
        BY <1>0, <1>a, <2>1
           DEF Evidenced, Unrolled, Changed, Compensated, RecordRestore, IInv, RecordInv,
               RecordOf
      <4>2. Continues(call[p].upd, J, "FINALIZING")
        BY <1>0, <1>a, <3>3, <4>1 DEF Continues, Allowed
      <4> QED
        BY <1>0, <4>2, Continued DEF IInv
    <3> QED
      BY <2>1, <3>2, <3>3
  <2>2. CASE call[p].outcome # "ROLLED_BACK"
    <3>1. Transition(p, J, "RECOVERY_REQUIRED")
      BY <2>2, <1>0 DEF RecordRestore, J
    <3>2. \/ Goes(p, "finish") /\ Write(call[p].upd, J, "RECOVERY_REQUIRED") /\ failures' = failures
          \/ Goes(p, "unexpected") /\ WriteFails
      BY <3>1, Passing DEF Then, IInv, JournalReadable
    <3>3. ASSUME Write(call[p].upd, J, "RECOVERY_REQUIRED")
          PROVE  /\ Continues(call[p].upd, J, "RECOVERY_REQUIRED")
                 /\ Wrote(call[p].upd, J, "RECOVERY_REQUIRED")
      <4>1. Evidenced(J, "RECOVERY_REQUIRED")
        BY <1>0, <1>a, <2>2
           DEF Evidenced, Unrolled, Changed, Compensated, RecordRestore, IInv, RecordInv,
               RecordOf
      <4>2. Continues(call[p].upd, J, "RECOVERY_REQUIRED")
        BY <1>0, <1>a, <3>3, <4>1 DEF Continues, Allowed
      <4> QED
        BY <1>0, <4>2, Continued DEF IInv
    <3> QED
      BY <2>2, <3>2, <3>3
  <2> QED
    BY <1>0, <2>1, <2>2 DEF InstallStates, RollbackStates
<1>c. /\ p \in alive /\ TypeOK /\ Using(p)
      /\ LeaseOf(p) /\ PlaceOf(p) /\ WorkOf(p) /\ RecordOf(p) /\ PackageOf(p)
      /\ db.work = worked
  BY DEF IInv, JournalReadable, LeaseInv, WriterInv, WorkInv, RecordInv, PackageInv, Exists,
     Using, RecordRestore
<1>b. UNCHANGED <<hold, coord, alive, rt, asked, worked, due, bound, db, snap, package>>
  BY Transitions DEF RecordRestore
<1>2. Touches(p)
  BY <1>1, <1>0, <1>a, <1>b, <1>c
     DEF Touches, TypeOK, WorkInv, IInv, LeaseOf, PlaceOf, Maintaining, Coordinating, Keeping,
         Applying, Writing, Reached, WriteFails
<1>3. Writes(p)
  BY <1>1, <1>0, <1>a, <1>b, <1>c DEF Writes, Writers, Settled, WriteFails
<1>4. TypeOK'
  <2>1. CASE call[p].outcome = "ROLLED_BACK" /\ Goes(p, "releaseHold") /\ failures' = failures
         /\ Continues(call[p].upd, J, "FINALIZING") /\ Wrote(call[p].upd, J, "FINALIZING")
    BY <2>1, <1>0, <1>a, <1>b, <1>c DEF TypeOK, Calls, WriteFails, Wrote
  <2>2. CASE call[p].outcome # "ROLLED_BACK" /\ Goes(p, "finish") /\ failures' = failures
         /\ Continues(call[p].upd, J, "RECOVERY_REQUIRED")
         /\ Wrote(call[p].upd, J, "RECOVERY_REQUIRED")
    BY <2>2, <1>0, <1>a, <1>b, <1>c DEF TypeOK, Calls, WriteFails, Wrote
  <2>3. CASE Goes(p, "unexpected") /\ WriteFails
    BY <2>3, <1>0, <1>a, <1>b, <1>c DEF TypeOK, Calls, WriteFails, Wrote
  <2> QED
    BY <1>1, <2>1, <2>2, <2>3
<1>5. Using(p)'
  BY <1>1, <1>0, <1>a, <1>b, <1>c DEF Using, LeaseOf, Stopped, Keeping, Maintaining
<1>6. LeaseOf(p)'
  BY <1>1, <1>0, <1>a, <1>b, <1>c DEF LeaseOf, Maintaining, Coordinating, Keeping, Stopped
<1>7. PlaceOf(p)'
  <2>1. CASE call[p].outcome = "ROLLED_BACK" /\ Goes(p, "releaseHold") /\ failures' = failures
         /\ Continues(call[p].upd, J, "FINALIZING") /\ Wrote(call[p].upd, J, "FINALIZING")
    BY <2>1, <1>0, <1>a, <1>b, <1>c
       DEF PlaceOf, Reached, InFlight, Applying, Planned, PlannedOK, StateOf, Exists,
           Unresolved, Wrote, WriteFails
  <2>2. CASE call[p].outcome # "ROLLED_BACK" /\ Goes(p, "finish") /\ failures' = failures
         /\ Continues(call[p].upd, J, "RECOVERY_REQUIRED")
         /\ Wrote(call[p].upd, J, "RECOVERY_REQUIRED")
    BY <2>2, <1>0, <1>a, <1>b, <1>c
       DEF PlaceOf, Reached, InFlight, Applying, Planned, PlannedOK, StateOf, Exists,
           Unresolved, Wrote, WriteFails
  <2>3. CASE Goes(p, "unexpected") /\ WriteFails
    BY <2>3, <1>0, <1>a, <1>b, <1>c
       DEF PlaceOf, Reached, InFlight, Applying, Planned, PlannedOK, StateOf, Exists,
           Unresolved, Wrote, WriteFails
  <2> QED
    BY <1>1, <2>1, <2>2, <2>3
<1>8. WorkOf(p)'
  <2>1. CASE call[p].outcome = "ROLLED_BACK" /\ Goes(p, "releaseHold") /\ failures' = failures
         /\ Continues(call[p].upd, J, "FINALIZING") /\ Wrote(call[p].upd, J, "FINALIZING")
    BY <2>1, <1>0, <1>a, <1>b, <1>c DEF WorkOf, Wrote, WriteFails
  <2>2. CASE call[p].outcome # "ROLLED_BACK" /\ Goes(p, "finish") /\ failures' = failures
         /\ Continues(call[p].upd, J, "RECOVERY_REQUIRED")
         /\ Wrote(call[p].upd, J, "RECOVERY_REQUIRED")
    BY <2>2, <1>0, <1>a, <1>b, <1>c DEF WorkOf, Wrote, WriteFails
  <2>3. CASE Goes(p, "unexpected") /\ WriteFails
    BY <2>3, <1>0, <1>a, <1>b, <1>c DEF WorkOf, Wrote, WriteFails
  <2> QED
    BY <1>1, <2>1, <2>2, <2>3
<1>9. RecordOf(p)'
  <2>1. CASE call[p].outcome = "ROLLED_BACK" /\ Goes(p, "releaseHold") /\ failures' = failures
         /\ Continues(call[p].upd, J, "FINALIZING") /\ Wrote(call[p].upd, J, "FINALIZING")
    <3>1. Changed(journal[call[p].upd]) /\ journal[call[p].upd].rollback = "SUCCEEDED"
      BY <1>0 DEF Evidenced
    <3>2. Compensated(journal'[call[p].upd])
      <4>1. journal'[call[p].upd].restored
        BY <1>a, <2>1 DEF Wrote
      <4> QED
        BY <1>a, <2>1, <3>1, <4>1 DEF Compensated, Changed, Wrote
    <3>3. /\ call'[p].upd = call[p].upd /\ call'[p].outcome = "ROLLED_BACK"
          /\ call'[p].at = "releaseHold"
      BY <2>1
    <3>4. Evidenced(journal[call[p].upd], call[p].outcome)'
      BY <3>2, <3>3 DEF Evidenced
    <3> QED
      BY <3>3, <1>0, <1>b, <1>c, <3>4 DEF RecordOf, Maintaining, Keeping, Settled
  <2>2. CASE call[p].outcome # "ROLLED_BACK" /\ Goes(p, "finish") /\ failures' = failures
         /\ Continues(call[p].upd, J, "RECOVERY_REQUIRED")
         /\ Wrote(call[p].upd, J, "RECOVERY_REQUIRED")
    BY <2>2, <1>0, <1>a, <1>b, <1>c
       DEF RecordOf, Maintaining, Keeping, Settled, Evidenced, Unrolled, Compensated, Changed,
           Wrote, WriteFails
  <2>3. CASE Goes(p, "unexpected") /\ WriteFails
    BY <2>3, <1>0, <1>a, <1>b, <1>c
       DEF RecordOf, Maintaining, Keeping, Settled, Evidenced, Unrolled, Compensated, Changed,
           Wrote, WriteFails
  <2> QED
    BY <1>1, <2>1, <2>2, <2>3
<1>10. PackageOf(p)'
  <2>1. CASE call[p].outcome = "ROLLED_BACK" /\ Goes(p, "releaseHold") /\ failures' = failures
         /\ Continues(call[p].upd, J, "FINALIZING") /\ Wrote(call[p].upd, J, "FINALIZING")
    BY <2>1, <1>0, <1>a, <1>b, <1>c DEF PackageOf, WorkOf, Target, Wrote, WriteFails
  <2>2. CASE call[p].outcome # "ROLLED_BACK" /\ Goes(p, "finish") /\ failures' = failures
         /\ Continues(call[p].upd, J, "RECOVERY_REQUIRED")
         /\ Wrote(call[p].upd, J, "RECOVERY_REQUIRED")
    BY <2>2, <1>0, <1>a, <1>b, <1>c DEF PackageOf, WorkOf, Target, Wrote, WriteFails
  <2>3. CASE Goes(p, "unexpected") /\ WriteFails
    BY <2>3, <1>0, <1>a, <1>b, <1>c DEF PackageOf, WorkOf, Target, Wrote, WriteFails
  <2> QED
    BY <1>1, <2>1, <2>2, <2>3
<1>11. Comes(p)
  BY <1>1, <1>0, <1>a, <1>b, <1>c
     DEF TypeOK, LeaseOf, Stopped, Keeping, Maintaining, WriteFails, Comes, Writing, Reached
<1> QED
  BY <1>2, <1>3, <1>4, <1>5, <1>6, <1>7, <1>8, <1>9, <1>10, <1>11 DEF Sound, Mine

\* A snapshot is taken while no update needs the old one.
LEMMA SnapshotStep ==
  ASSUME IInv, NEW p \in Process, Snapshot(p)
  PROVE  Sound(p)
<1> USE UpdateAssumption, NoneAssumption DEF At, World, Leases, Disk, Changing, Goes, Carries, Left,
      Moves, QuitResult, GiveBack, Free
<1>0. call[p].at = "snapshot"
  BY DEF Snapshot
<1>1. \/ Carries(p, "quit", call[p].upd, db, call[p].outcome) /\ snap' = db
      \/ Goes(p, "endPrepare") /\ snap' = snap
  BY Taking DEF IInv, JournalReadable
<1>c. /\ p \in alive /\ TypeOK /\ Using(p)
      /\ LeaseOf(p) /\ PlaceOf(p) /\ WorkOf(p) /\ RecordOf(p) /\ PackageOf(p)
      /\ db.work = worked
  BY DEF IInv, JournalReadable, LeaseInv, WriterInv, WorkInv, RecordInv, PackageInv, Exists,
     Using, Snapshot
<1>b. UNCHANGED <<hold, coord, alive, rt, asked, worked, due, bound, db, package, journal, failures>>
  BY DEF Snapshot
<1>2. Touches(p)
  BY <1>1, <1>0, <1>b, <1>c
     DEF Touches, TypeOK, WorkInv, IInv, LeaseOf, PlaceOf, Maintaining, Coordinating, Keeping,
         Applying, Writing, Reached, WriteFails
<1>3. Writes(p)
  BY <1>1, <1>0, <1>b, <1>c DEF Writes, Writers, Settled, WriteFails
<1>4. TypeOK'
  <2>1. CASE Carries(p, "quit", call[p].upd, db, call[p].outcome) /\ snap' = db
    BY <2>1, <1>0, <1>b, <1>c DEF TypeOK, Calls, WriteFails, Wrote
  <2>2. CASE Goes(p, "endPrepare") /\ snap' = snap
    BY <2>2, <1>0, <1>b, <1>c DEF TypeOK, Calls, WriteFails, Wrote
  <2> QED
    BY <1>1, <2>1, <2>2
<1>5. Using(p)'
  BY <1>1, <1>0, <1>b, <1>c DEF Using, LeaseOf, Stopped, Keeping, Maintaining
<1>6. LeaseOf(p)'
  BY <1>1, <1>0, <1>b, <1>c DEF LeaseOf, Maintaining, Coordinating, Keeping, Stopped
<1>7. PlaceOf(p)'
  <2>1. CASE Carries(p, "quit", call[p].upd, db, call[p].outcome) /\ snap' = db
    BY <2>1, <1>0, <1>b, <1>c
       DEF PlaceOf, Reached, InFlight, Applying, Planned, PlannedOK, StateOf, Exists,
           Unresolved, Wrote, WriteFails
  <2>2. CASE Goes(p, "endPrepare") /\ snap' = snap
    BY <2>2, <1>0, <1>b, <1>c
       DEF PlaceOf, Reached, InFlight, Applying, Planned, PlannedOK, StateOf, Exists,
           Unresolved, Wrote, WriteFails
  <2> QED
    BY <1>1, <2>1, <2>2
<1>8. WorkOf(p)'
  <2>1. CASE Carries(p, "quit", call[p].upd, db, call[p].outcome) /\ snap' = db
    BY <2>1, <1>0, <1>b, <1>c DEF WorkOf, Wrote, WriteFails, TypeOK
  <2>2. CASE Goes(p, "endPrepare") /\ snap' = snap
    BY <2>2, <1>0, <1>b, <1>c DEF WorkOf, Wrote, WriteFails, TypeOK
  <2> QED
    BY <1>1, <2>1, <2>2
<1>9. RecordOf(p)'
  <2>1. CASE Carries(p, "quit", call[p].upd, db, call[p].outcome) /\ snap' = db
    BY <2>1, <1>0, <1>b, <1>c
       DEF RecordOf, Maintaining, Keeping, Settled, Evidenced, Unrolled, Compensated, Changed,
           Wrote, WriteFails
  <2>2. CASE Goes(p, "endPrepare") /\ snap' = snap
    BY <2>2, <1>0, <1>b, <1>c
       DEF RecordOf, Maintaining, Keeping, Settled, Evidenced, Unrolled, Compensated, Changed,
           Wrote, WriteFails
  <2> QED
    BY <1>1, <2>1, <2>2
<1>10. PackageOf(p)'
  <2>1. CASE Carries(p, "quit", call[p].upd, db, call[p].outcome) /\ snap' = db
    BY <2>1, <1>0, <1>b, <1>c DEF PackageOf, WorkOf, Target, Wrote, WriteFails
  <2>2. CASE Goes(p, "endPrepare") /\ snap' = snap
    BY <2>2, <1>0, <1>b, <1>c DEF PackageOf, WorkOf, Target, Wrote, WriteFails
  <2> QED
    BY <1>1, <2>1, <2>2
<1>11. Comes(p)
  BY <1>1, <1>0, <1>b, <1>c
     DEF TypeOK, LeaseOf, Stopped, Keeping, Maintaining, WriteFails, Comes, Writing, Reached
<1> QED
  BY <1>2, <1>3, <1>4, <1>5, <1>6, <1>7, <1>8, <1>9, <1>10, <1>11 DEF Sound, Mine

\* A plan is written for an update that was not there.
LEMMA WritePlanStep ==
  ASSUME IInv, NEW p \in Process, NEW u \in Update, WritePlan(p, u)
  PROVE  Sound(p)
<1> USE UpdateAssumption, NoneAssumption DEF At, World, Leases, Disk, Changing, Goes, Carries, Left,
      Moves, QuitResult, GiveBack, Free
<1>0. call[p].at = "writePlan" /\ ~Exists(u)
  BY DEF WritePlan
<1>1. \/ /\ Carries(p, "endPrepare", u, call[p].copy, call[p].outcome)
         /\ Plans(p, u) /\ failures' = failures
      \/ Goes(p, "endPrepare") /\ WriteFails
  BY <1>0, Planning DEF IInv, JournalReadable, NewPlan, Plans
<1>c. /\ p \in alive /\ TypeOK /\ Using(p)
      /\ LeaseOf(p) /\ PlaceOf(p) /\ WorkOf(p) /\ RecordOf(p) /\ PackageOf(p)
      /\ db.work = worked
  BY DEF IInv, JournalReadable, LeaseInv, WriterInv, WorkInv, RecordInv, PackageInv, Exists,
     Using, WritePlan
<1>b. UNCHANGED <<hold, coord, alive, rt, asked, worked, due, bound, db, snap, package>>
  BY DEF WritePlan
<1>d. ASSUME Plans(p, u)
      PROVE  /\ journal' \in [Update -> Journal \cup {None}]
             /\ \A v \in Update \ {u} : journal'[v] = journal[v]
             /\ Exists(u)' /\ StateOf(u)' = "PREPARED" /\ u \notin bound
  <2>1. call[p].copy \in Database
    BY <1>0 DEF IInv, WorkInv, WorkOf, WritePlan
  <2>2. PICK release \in package : journal' = [journal EXCEPT ![u] = NewPlan(release, call[p].copy)]
    BY <1>d DEF Plans
  <2>3. NewPlan(release, call[p].copy) \in Journal
    BY <1>c, <2>1 DEF NewPlan, Journal, States, TypeOK
  <2> QED
    BY <1>0, <1>c, <2>2, <2>3
       DEF IInv, JournalReadable, WriterInv, TypeOK, Exists, StateOf, Last, NewPlan
<1>e. \A q \in alive : call[q].upd # u
  BY <1>0, Held, NoneAssumption
<1>2. Touches(p)
  BY <1>1, <1>0, <1>b, <1>c, <1>d, <1>e
     DEF Touches, TypeOK, WorkInv, IInv, LeaseOf, PlaceOf, Maintaining, Coordinating, Keeping,
         Applying, Writing, Reached, WriteFails
<1>3. Writes(p)
  BY <1>1, <1>0, <1>b, <1>c, <1>d, <1>e DEF Writes, Writers, Settled, WriteFails
<1>4. TypeOK'
  <2>1. CASE /\ Carries(p, "endPrepare", u, call[p].copy, call[p].outcome)
             /\ Plans(p, u) /\ failures' = failures
    BY <2>1, <1>0, <1>b, <1>c, <1>d, <1>e DEF TypeOK, Calls, WriteFails, Wrote
  <2>2. CASE Goes(p, "endPrepare") /\ WriteFails
    BY <2>2, <1>0, <1>b, <1>c, <1>d, <1>e DEF TypeOK, Calls, WriteFails, Wrote
  <2> QED
    BY <1>1, <2>1, <2>2
<1>5. Using(p)'
  BY <1>1, <1>0, <1>b, <1>c, <1>d, <1>e DEF Using, LeaseOf, Stopped, Keeping, Maintaining
<1>6. LeaseOf(p)'
  BY <1>1, <1>0, <1>b, <1>c, <1>d, <1>e DEF LeaseOf, Maintaining, Coordinating, Keeping, Stopped
<1>7. PlaceOf(p)'
  <2>1. CASE /\ Carries(p, "endPrepare", u, call[p].copy, call[p].outcome)
             /\ Plans(p, u) /\ failures' = failures
    BY <2>1, <1>0, <1>b, <1>c, <1>d, <1>e
       DEF PlaceOf, Reached, InFlight, Applying, Planned, PlannedOK, StateOf, Exists,
           Unresolved, Wrote, WriteFails, TypeOK
  <2>2. CASE Goes(p, "endPrepare") /\ WriteFails
    BY <2>2, <1>0, <1>b, <1>c, <1>d, <1>e
       DEF PlaceOf, Reached, InFlight, Applying, Planned, PlannedOK, StateOf, Exists,
           Unresolved, Wrote, WriteFails, TypeOK
  <2> QED
    BY <1>1, <2>1, <2>2
<1>8. WorkOf(p)'
  <2>1. CASE /\ Carries(p, "endPrepare", u, call[p].copy, call[p].outcome)
             /\ Plans(p, u) /\ failures' = failures
    BY <2>1, <1>0, <1>b, <1>c, <1>d, <1>e DEF WorkOf, Wrote, WriteFails
  <2>2. CASE Goes(p, "endPrepare") /\ WriteFails
    BY <2>2, <1>0, <1>b, <1>c, <1>d, <1>e DEF WorkOf, Wrote, WriteFails
  <2> QED
    BY <1>1, <2>1, <2>2
<1>9. RecordOf(p)'
  <2>1. CASE /\ Carries(p, "endPrepare", u, call[p].copy, call[p].outcome)
             /\ Plans(p, u) /\ failures' = failures
    BY <2>1, <1>0, <1>b, <1>c, <1>d, <1>e
       DEF RecordOf, Maintaining, Keeping, Settled, Evidenced, Unrolled, Compensated, Changed,
           Wrote, WriteFails
  <2>2. CASE Goes(p, "endPrepare") /\ WriteFails
    BY <2>2, <1>0, <1>b, <1>c, <1>d, <1>e
       DEF RecordOf, Maintaining, Keeping, Settled, Evidenced, Unrolled, Compensated, Changed,
           Wrote, WriteFails
  <2> QED
    BY <1>1, <2>1, <2>2
<1>10. PackageOf(p)'
  <2>1. CASE /\ Carries(p, "endPrepare", u, call[p].copy, call[p].outcome)
             /\ Plans(p, u) /\ failures' = failures
    BY <2>1, <1>0, <1>b, <1>c, <1>d, <1>e DEF PackageOf, WorkOf, Target, Wrote, WriteFails
  <2>2. CASE Goes(p, "endPrepare") /\ WriteFails
    BY <2>2, <1>0, <1>b, <1>c, <1>d, <1>e DEF PackageOf, WorkOf, Target, Wrote, WriteFails
  <2> QED
    BY <1>1, <2>1, <2>2
<1>11. Comes(p)
  BY <1>1, <1>0, <1>b, <1>c, <1>d, <1>e
     DEF TypeOK, LeaseOf, Stopped, Keeping, Maintaining, WriteFails, Comes, Writing, Reached
<1> QED
  BY <1>2, <1>3, <1>4, <1>5, <1>6, <1>7, <1>8, <1>9, <1>10, <1>11 DEF Sound, Mine

\* A binding is of the process's own plan.
LEMMA BindStep ==
  ASSUME IInv, NEW p \in Process, Bind(p)
  PROVE  Sound(p)
<1> USE UpdateAssumption, NoneAssumption DEF At, World, Leases, Disk, Changing, Goes, Carries, Left,
      Moves, QuitResult, GiveBack, Free
<1>0. /\ call[p].at = "bind" /\ call[p].upd \in Update /\ Exists(call[p].upd)
      /\ journal[call[p].upd] \in Journal
      /\ TRUE
      /\ Evidenced(journal[call[p].upd], StateOf(call[p].upd))
  BY Being DEF Bind, IInv, WriterInv, PlaceOf, Reached, Applying, JournalReadable, Planned,
     PlannedOK
<1>1. \/ bound' = bound \cup {call[p].upd} /\ Left(p)
      \/ bound' = bound /\ Goes(p, "markPrepare")
  BY Going, Leaving DEF Bind, Preparing, IInv, JournalReadable
<1>c. /\ p \in alive /\ TypeOK /\ Using(p)
      /\ LeaseOf(p) /\ PlaceOf(p) /\ WorkOf(p) /\ RecordOf(p) /\ PackageOf(p)
      /\ db.work = worked
  BY DEF IInv, JournalReadable, LeaseInv, WriterInv, WorkInv, RecordInv, PackageInv, Exists,
     Using, Bind
<1>b. UNCHANGED <<hold, coord, alive, rt, asked, worked, due, db, snap, package, journal, failures>>
  BY DEF Bind
<1>2. Touches(p)
  BY <1>1, <1>0, <1>b, <1>c
     DEF Touches, TypeOK, WorkInv, IInv, LeaseOf, PlaceOf, Maintaining, Coordinating, Keeping,
         Applying, Writing, Reached, WriteFails
<1>3. Writes(p)
  BY <1>1, <1>0, <1>b, <1>c DEF Writes, Writers, Settled, WriteFails
<1>4. TypeOK'
  <2>1. CASE bound' = bound \cup {call[p].upd} /\ Left(p)
    BY <2>1, <1>0, <1>b, <1>c DEF TypeOK, Calls, WriteFails, Wrote
  <2>2. CASE bound' = bound /\ Goes(p, "markPrepare")
    BY <2>2, <1>0, <1>b, <1>c DEF TypeOK, Calls, WriteFails, Wrote
  <2> QED
    BY <1>1, <2>1, <2>2
<1>5. Using(p)'
  BY <1>1, <1>0, <1>b, <1>c DEF Using, LeaseOf, Stopped, Keeping, Maintaining
<1>6. LeaseOf(p)'
  BY <1>1, <1>0, <1>b, <1>c DEF LeaseOf, Maintaining, Coordinating, Keeping, Stopped
<1>7. PlaceOf(p)'
  <2>1. CASE bound' = bound \cup {call[p].upd} /\ Left(p)
    BY <2>1, <1>0, <1>b, <1>c
       DEF PlaceOf, Reached, InFlight, Applying, Planned, PlannedOK, StateOf, Exists,
           Unresolved, Wrote, WriteFails, TypeOK
  <2>2. CASE bound' = bound /\ Goes(p, "markPrepare")
    BY <2>2, <1>0, <1>b, <1>c
       DEF PlaceOf, Reached, InFlight, Applying, Planned, PlannedOK, StateOf, Exists,
           Unresolved, Wrote, WriteFails, TypeOK
  <2> QED
    BY <1>1, <2>1, <2>2
<1>8. WorkOf(p)'
  <2>1. CASE bound' = bound \cup {call[p].upd} /\ Left(p)
    BY <2>1, <1>0, <1>b, <1>c DEF WorkOf, Wrote, WriteFails
  <2>2. CASE bound' = bound /\ Goes(p, "markPrepare")
    BY <2>2, <1>0, <1>b, <1>c DEF WorkOf, Wrote, WriteFails
  <2> QED
    BY <1>1, <2>1, <2>2
<1>9. RecordOf(p)'
  <2>1. CASE bound' = bound \cup {call[p].upd} /\ Left(p)
    BY <2>1, <1>0, <1>b, <1>c
       DEF RecordOf, Maintaining, Keeping, Settled, Evidenced, Unrolled, Compensated, Changed,
           Wrote, WriteFails
  <2>2. CASE bound' = bound /\ Goes(p, "markPrepare")
    BY <2>2, <1>0, <1>b, <1>c
       DEF RecordOf, Maintaining, Keeping, Settled, Evidenced, Unrolled, Compensated, Changed,
           Wrote, WriteFails
  <2> QED
    BY <1>1, <2>1, <2>2
<1>10. PackageOf(p)'
  <2>1. CASE bound' = bound \cup {call[p].upd} /\ Left(p)
    BY <2>1, <1>0, <1>b, <1>c DEF PackageOf, WorkOf, Target, Wrote, WriteFails
  <2>2. CASE bound' = bound /\ Goes(p, "markPrepare")
    BY <2>2, <1>0, <1>b, <1>c DEF PackageOf, WorkOf, Target, Wrote, WriteFails
  <2> QED
    BY <1>1, <2>1, <2>2
<1>11. Comes(p)
  BY <1>1, <1>0, <1>b, <1>c
     DEF TypeOK, LeaseOf, Stopped, Keeping, Maintaining, WriteFails, Comes, Writing, Reached
<1> QED
  BY <1>2, <1>3, <1>4, <1>5, <1>6, <1>7, <1>8, <1>9, <1>10, <1>11 DEF Sound, Mine

\* The driver is asked to install, and its answer kept.
LEMMA InstallStep ==
  ASSUME IInv, NEW p \in Process, Install(p)
  PROVE  Sound(p)
<1> USE UpdateAssumption, NoneAssumption DEF At, World, Leases, Disk, Changing, Goes, Carries, Left,
      Moves, QuitResult, GiveBack, Free
<1>0. /\ call[p].at = "install" /\ call[p].upd \in Update /\ Exists(call[p].upd)
      /\ journal[call[p].upd] \in Journal
      /\ StateOf(call[p].upd) = "INSTALLING"
      /\ Evidenced(journal[call[p].upd], StateOf(call[p].upd))
  BY Being DEF Install, IInv, WriterInv, PlaceOf, Reached, Applying, JournalReadable
<1>1. \E answer \in InstallStates \cup {"raised"} :
         /\ Carries(p, "recordInstall", call[p].upd, call[p].copy, answer)
         /\ asked' = [asked EXCEPT ![call[p].upd] =
                        Append(@, [by |-> p, action |-> "INSTALL", answer |-> answer])]
         /\ package' \subseteq {journal[call[p].upd].from, Target(call[p].upd)}
         /\ answer = "SUCCEEDED" => package' = {Target(call[p].upd)}
         /\ answer = "FAILED_SAFE" => package' = {journal[call[p].upd].from}
  <2>1. PICK answer \in InstallStates \cup {"raised"},
             left \in {{journal[call[p].upd].from}, {Target(call[p].upd)},
                       {journal[call[p].upd].from} \cup {Target(call[p].upd)}} :
           /\ answer = "SUCCEEDED" => left = {Target(call[p].upd)}
           /\ answer = "FAILED_SAFE" => left = {journal[call[p].upd].from}
           /\ Ask(p, "INSTALL", answer, left)
           /\ Becomes(p, [call[p] EXCEPT !.at = "recordInstall", !.outcome = answer])
    BY DEF Install, RollbackStates
  <2>2. Carries(p, "recordInstall", call[p].upd, call[p].copy, answer)
    BY <2>1, Answering DEF Applying, IInv, JournalReadable
  <2> QED
    BY <2>1, <2>2 DEF Ask
<1>c. /\ p \in alive /\ TypeOK /\ Using(p)
      /\ LeaseOf(p) /\ PlaceOf(p) /\ WorkOf(p) /\ RecordOf(p) /\ PackageOf(p)
      /\ db.work = worked
  BY DEF IInv, JournalReadable, LeaseInv, WriterInv, WorkInv, RecordInv, PackageInv, Exists,
     Using, Install
<1>b. UNCHANGED <<hold, coord, alive, rt, worked, due, bound, db, snap, journal, failures>>
  BY DEF Install, Ask
<1>d. PICK answer \in InstallStates \cup {"raised"} :
         /\ Carries(p, "recordInstall", call[p].upd, call[p].copy, answer)
         /\ asked' = [asked EXCEPT ![call[p].upd] =
                        Append(@, [by |-> p, action |-> "INSTALL", answer |-> answer])]
         /\ package' \subseteq {journal[call[p].upd].from, Target(call[p].upd)}
         /\ answer = "SUCCEEDED" => package' = {Target(call[p].upd)}
         /\ answer = "FAILED_SAFE" => package' = {journal[call[p].upd].from}
  BY <1>1
<1>e. /\ asked' \in [Update -> Seq(Asked)] /\ package' \subseteq Release
      /\ asked'[call[p].upd] = Append(asked[call[p].upd],
                                      [by |-> p, action |-> "INSTALL", answer |-> answer])
  <2>1. [by |-> p, action |-> "INSTALL", answer |-> answer] \in Asked
    BY <1>d DEF Asked
  <2>2. asked \in [Update -> Seq(Asked)] /\ asked[call[p].upd] \in Seq(Asked)
    BY <1>0 DEF IInv, JournalReadable, TypeOK
  <2>3. Append(asked[call[p].upd], [by |-> p, action |-> "INSTALL", answer |-> answer]) \in Seq(Asked)
    BY <2>1, <2>2
  <2>4. package' \subseteq Release
    BY <1>0, <1>d DEF Journal, Release, Target
  <2> QED
    BY <1>0, <1>d, <2>2, <2>3, <2>4
<1>f. /\ call'[p].at = "recordInstall" /\ call'[p].upd = call[p].upd /\ call'[p].outcome = answer
      /\ asked'[call[p].upd] # <<>>
      /\ Len(asked'[call[p].upd]) = 1 /\ asked'[call[p].upd][1].by = p
      /\ asked'[call[p].upd][1].answer = answer
  <2>1. asked[call[p].upd] \in Seq(Asked)
    BY <1>0 DEF IInv, JournalReadable, TypeOK
  <2>2. Len(asked[call[p].upd]) = 0
    BY <1>0, <1>c, <2>1 DEF RecordOf
  <2> QED
    BY <1>d, <1>e, <2>1, <2>2
<1>g. \E r \in Asked : /\ r.action = "INSTALL" /\ r.by = p
                       /\ asked' = [asked EXCEPT ![call[p].upd] = Append(@, r)]
  <2>1. [by |-> p, action |-> "INSTALL", answer |-> answer] \in Asked
    BY <1>d DEF Asked
  <2> QED
    BY <1>d, <2>1
<1>2. Touches(p)
  BY <1>0, <1>b, <1>c, <1>f, <1>g, <1>d DEF Touches, IInv, WorkInv, Writing, Reached
<1>3. Writes(p)
  BY <1>1, <1>0, <1>b, <1>c, <1>d, <1>e, <1>f DEF Writes, Writers, Settled, WriteFails
<1>4. TypeOK'
  BY <1>b, <1>c, <1>d, <1>e DEF TypeOK
<1>5. Using(p)'
  BY <1>1, <1>0, <1>b, <1>c, <1>d, <1>e, <1>f DEF Using, LeaseOf, Stopped, Keeping, Maintaining
<1>6. LeaseOf(p)'
  BY <1>1, <1>0, <1>b, <1>c, <1>d, <1>e, <1>f
     DEF LeaseOf, Maintaining, Coordinating, Keeping, Stopped
<1>7. PlaceOf(p)'
  BY <1>1, <1>0, <1>b, <1>c, <1>d, <1>e, <1>f
     DEF PlaceOf, Reached, InFlight, Applying, Planned, PlannedOK, StateOf, Exists, Unresolved,
         Wrote, WriteFails
<1>8. WorkOf(p)'
  BY <1>1, <1>0, <1>b, <1>c, <1>d, <1>e, <1>f DEF WorkOf, Wrote, WriteFails
<1>9. RecordOf(p)'
  BY <1>0, <1>b, <1>c, <1>f, <1>d DEF RecordOf, Maintaining, Keeping
<1>10. PackageOf(p)'
  BY <1>1, <1>0, <1>b, <1>c, <1>d, <1>e, <1>f DEF PackageOf, WorkOf, Target, Wrote, WriteFails
<1>11. Comes(p)
  BY <1>0, <1>b, <1>c, <1>f, <1>d DEF LeaseOf, Stopped, Keeping, Maintaining, Comes
<1> QED
  BY <1>2, <1>3, <1>4, <1>5, <1>6, <1>7, <1>8, <1>9, <1>10, <1>11 DEF Sound, Mine

\* The driver is asked to roll back, and its answer kept.
LEMMA RollbackStep ==
  ASSUME IInv, NEW p \in Process, Rollback(p)
  PROVE  Sound(p)
<1> USE UpdateAssumption, NoneAssumption DEF At, World, Leases, Disk, Changing, Goes, Carries, Left,
      Moves, QuitResult, GiveBack, Free
<1>0. /\ call[p].at = "rollback" /\ call[p].upd \in Update /\ Exists(call[p].upd)
      /\ journal[call[p].upd] \in Journal
      /\ StateOf(call[p].upd) = "ROLLING_BACK"
      /\ Evidenced(journal[call[p].upd], StateOf(call[p].upd))
  BY Being DEF Rollback, IInv, WriterInv, PlaceOf, Reached, Applying, JournalReadable
<1>1. \E answer \in RollbackStates \cup {"raised"} :
         /\ Carries(p, "recordRollback", call[p].upd, call[p].copy, answer)
         /\ asked' = [asked EXCEPT ![call[p].upd] =
                        Append(@, [by |-> p, action |-> "ROLLBACK", answer |-> answer])]
         /\ package' \subseteq {journal[call[p].upd].from, Target(call[p].upd)}
         /\ answer = "SUCCEEDED" => package' = {journal[call[p].upd].from}
  <2>1. PICK answer \in RollbackStates \cup {"raised"},
             left \in {{journal[call[p].upd].from}, {Target(call[p].upd)},
                       {journal[call[p].upd].from} \cup {Target(call[p].upd)}} :
           /\ answer = "SUCCEEDED" => left = {journal[call[p].upd].from}
           /\ answer = "FAILED_SAFE" => TRUE
           /\ Ask(p, "ROLLBACK", answer, left)
           /\ Becomes(p, [call[p] EXCEPT !.at = "recordRollback", !.outcome = answer])
    BY DEF Rollback, RollbackStates
  <2>2. Carries(p, "recordRollback", call[p].upd, call[p].copy, answer)
    BY <2>1, Answering DEF Applying, IInv, JournalReadable
  <2> QED
    BY <2>1, <2>2 DEF Ask
<1>c. /\ p \in alive /\ TypeOK /\ Using(p)
      /\ LeaseOf(p) /\ PlaceOf(p) /\ WorkOf(p) /\ RecordOf(p) /\ PackageOf(p)
      /\ db.work = worked
  BY DEF IInv, JournalReadable, LeaseInv, WriterInv, WorkInv, RecordInv, PackageInv, Exists,
     Using, Rollback
<1>b. UNCHANGED <<hold, coord, alive, rt, worked, due, bound, db, snap, journal, failures>>
  BY DEF Rollback, Ask
<1>d. PICK answer \in RollbackStates \cup {"raised"} :
         /\ Carries(p, "recordRollback", call[p].upd, call[p].copy, answer)
         /\ asked' = [asked EXCEPT ![call[p].upd] =
                        Append(@, [by |-> p, action |-> "ROLLBACK", answer |-> answer])]
         /\ package' \subseteq {journal[call[p].upd].from, Target(call[p].upd)}
         /\ answer = "SUCCEEDED" => package' = {journal[call[p].upd].from}
  BY <1>1
<1>e. /\ asked' \in [Update -> Seq(Asked)] /\ package' \subseteq Release
      /\ asked'[call[p].upd] = Append(asked[call[p].upd],
                                      [by |-> p, action |-> "ROLLBACK", answer |-> answer])
  <2>1. [by |-> p, action |-> "ROLLBACK", answer |-> answer] \in Asked
    BY <1>d DEF Asked
  <2>2. asked \in [Update -> Seq(Asked)] /\ asked[call[p].upd] \in Seq(Asked)
    BY <1>0 DEF IInv, JournalReadable, TypeOK
  <2>3. Append(asked[call[p].upd], [by |-> p, action |-> "ROLLBACK", answer |-> answer]) \in Seq(Asked)
    BY <2>1, <2>2
  <2>4. package' \subseteq Release
    BY <1>0, <1>d DEF Journal, Release, Target
  <2> QED
    BY <1>0, <1>d, <2>2, <2>3, <2>4
<1>f. /\ call'[p].at = "recordRollback" /\ call'[p].upd = call[p].upd /\ call'[p].outcome = answer
      /\ asked'[call[p].upd] # <<>>
      /\ asked'[call[p].upd][1] = asked[call[p].upd][1]
  <2>1. asked[call[p].upd] \in Seq(Asked)
    BY <1>0 DEF IInv, JournalReadable, TypeOK
  <2>2. Len(asked[call[p].upd]) = 1
    BY <1>0, <1>c, <2>1 DEF RecordOf
  <2> QED
    BY <1>d, <1>e, <2>1, <2>2
<1>g. \E r \in Asked : /\ r.action = "ROLLBACK" /\ r.by = p
                       /\ asked' = [asked EXCEPT ![call[p].upd] = Append(@, r)]
  <2>1. [by |-> p, action |-> "ROLLBACK", answer |-> answer] \in Asked
    BY <1>d DEF Asked
  <2> QED
    BY <1>d, <2>1
<1>2. Touches(p)
  BY <1>0, <1>b, <1>c, <1>f, <1>g, <1>d DEF Touches, IInv, WorkInv, Writing, Reached
<1>3. Writes(p)
  BY <1>1, <1>0, <1>b, <1>c, <1>d, <1>e, <1>f DEF Writes, Writers, Settled, WriteFails
<1>4. TypeOK'
  BY <1>b, <1>c, <1>d, <1>e DEF TypeOK
<1>5. Using(p)'
  BY <1>1, <1>0, <1>b, <1>c, <1>d, <1>e, <1>f DEF Using, LeaseOf, Stopped, Keeping, Maintaining
<1>6. LeaseOf(p)'
  BY <1>1, <1>0, <1>b, <1>c, <1>d, <1>e, <1>f
     DEF LeaseOf, Maintaining, Coordinating, Keeping, Stopped
<1>7. PlaceOf(p)'
  BY <1>1, <1>0, <1>b, <1>c, <1>d, <1>e, <1>f
     DEF PlaceOf, Reached, InFlight, Applying, Planned, PlannedOK, StateOf, Exists, Unresolved,
         Wrote, WriteFails
<1>8. WorkOf(p)'
  BY <1>1, <1>0, <1>b, <1>c, <1>d, <1>e, <1>f DEF WorkOf, Wrote, WriteFails
<1>9. RecordOf(p)'
  BY <1>0, <1>b, <1>c, <1>f, <1>d DEF RecordOf, Maintaining, Keeping
<1>10. PackageOf(p)'
  BY <1>1, <1>0, <1>b, <1>c, <1>d, <1>e, <1>f DEF PackageOf, WorkOf, Target, Wrote, WriteFails
<1>11. Comes(p)
  BY <1>0, <1>b, <1>c, <1>f, <1>d DEF LeaseOf, Stopped, Keeping, Maintaining, Comes
<1> QED
  BY <1>2, <1>3, <1>4, <1>5, <1>6, <1>7, <1>8, <1>9, <1>10, <1>11 DEF Sound, Mine

\* The database is migrated, restored or left to the guarded recovery.
LEMMA MigrateStep ==
  ASSUME IInv, NEW p \in Process, Migrate(p)
  PROVE  Sound(p)
<1> USE UpdateAssumption, NoneAssumption DEF At, World, Leases, Disk, Changing, Goes, Carries, Left,
      Moves, QuitResult, GiveBack, Free
<1>0. /\ call[p].at = "migrate" /\ call[p].upd \in Update /\ Exists(call[p].upd)
      /\ journal[call[p].upd] \in Journal
      /\ StateOf(call[p].upd) = "VALIDATING"
      /\ Evidenced(journal[call[p].upd], StateOf(call[p].upd))
  BY Being DEF Migrate, IInv, WriterInv, PlaceOf, Reached, Applying, JournalReadable
<1>1. \/ /\ snap = journal[call[p].upd].snapshot
         /\ db' = [db EXCEPT !.schema = Target(call[p].upd)] /\ Goes(p, "open")
      \/ db' = db /\ Goes(p, "compensate")
      \/ snap = journal[call[p].upd].snapshot /\ db' = snap /\ Goes(p, "compensate")
      \/ db' \in {db, [db EXCEPT !.schema = Target(call[p].upd)]} /\ Goes(p, "guard")
  BY Going DEF Migrate, Applying, IInv, JournalReadable
<1>c. /\ p \in alive /\ TypeOK /\ Using(p)
      /\ LeaseOf(p) /\ PlaceOf(p) /\ WorkOf(p) /\ RecordOf(p) /\ PackageOf(p)
      /\ db.work = worked
  BY DEF IInv, JournalReadable, LeaseInv, WriterInv, WorkInv, RecordInv, PackageInv, Exists,
     Using, Migrate
<1>b. UNCHANGED <<hold, coord, alive, rt, asked, worked, due, journal, bound, snap, package, failures>>
  BY DEF Migrate
<1>d. /\ db \in Database /\ db' \in Database /\ db.work = journal[call[p].upd].snapshot.work
      /\ db'.work = db.work
      /\ db' = [db EXCEPT !.schema = Target(call[p].upd)] => db'.schema = Target(call[p].upd)
  <2>1. db \in Database /\ db = journal[call[p].upd].snapshot /\ Target(call[p].upd) \in Release
    BY <1>0, <1>c DEF WorkOf, TypeOK, Journal, Target, Release
  <2> QED
    BY <1>0, <1>1, <2>1 DEF Database
<1>2. Touches(p)
  BY <1>1, <1>0, <1>b, <1>c, <1>d
     DEF Touches, TypeOK, WorkInv, IInv, LeaseOf, PlaceOf, Maintaining, Coordinating, Keeping,
         Applying, Writing, Reached, WriteFails
<1>3. Writes(p)
  BY <1>1, <1>0, <1>b, <1>c, <1>d DEF Writes, Writers, Settled, WriteFails
<1>4. TypeOK'
  <2>1. CASE /\ snap = journal[call[p].upd].snapshot
             /\ db' = [db EXCEPT !.schema = Target(call[p].upd)] /\ Goes(p, "open")
    BY <2>1, <1>0, <1>b, <1>c, <1>d DEF TypeOK, Calls, WriteFails, Wrote
  <2>2. CASE db' = db /\ Goes(p, "compensate")
    BY <2>2, <1>0, <1>b, <1>c, <1>d DEF TypeOK, Calls, WriteFails, Wrote
  <2>3. CASE snap = journal[call[p].upd].snapshot /\ db' = snap /\ Goes(p, "compensate")
    BY <2>3, <1>0, <1>b, <1>c, <1>d DEF TypeOK, Calls, WriteFails, Wrote
  <2>4. CASE db' \in {db, [db EXCEPT !.schema = Target(call[p].upd)]} /\ Goes(p, "guard")
    BY <2>4, <1>0, <1>b, <1>c, <1>d DEF TypeOK, Calls, WriteFails, Wrote
  <2> QED
    BY <1>1, <2>1, <2>2, <2>3, <2>4
<1>5. Using(p)'
  BY <1>1, <1>0, <1>b, <1>c, <1>d DEF Using, LeaseOf, Stopped, Keeping, Maintaining
<1>6. LeaseOf(p)'
  BY <1>1, <1>0, <1>b, <1>c, <1>d DEF LeaseOf, Maintaining, Coordinating, Keeping, Stopped
<1>7. PlaceOf(p)'
  <2>1. CASE /\ snap = journal[call[p].upd].snapshot
             /\ db' = [db EXCEPT !.schema = Target(call[p].upd)] /\ Goes(p, "open")
    BY <2>1, <1>0, <1>b, <1>c, <1>d
       DEF PlaceOf, Reached, InFlight, Applying, Planned, PlannedOK, StateOf, Exists,
           Unresolved, Wrote, WriteFails
  <2>2. CASE db' = db /\ Goes(p, "compensate")
    BY <2>2, <1>0, <1>b, <1>c, <1>d
       DEF PlaceOf, Reached, InFlight, Applying, Planned, PlannedOK, StateOf, Exists,
           Unresolved, Wrote, WriteFails
  <2>3. CASE snap = journal[call[p].upd].snapshot /\ db' = snap /\ Goes(p, "compensate")
    BY <2>3, <1>0, <1>b, <1>c, <1>d
       DEF PlaceOf, Reached, InFlight, Applying, Planned, PlannedOK, StateOf, Exists,
           Unresolved, Wrote, WriteFails
  <2>4. CASE db' \in {db, [db EXCEPT !.schema = Target(call[p].upd)]} /\ Goes(p, "guard")
    BY <2>4, <1>0, <1>b, <1>c, <1>d
       DEF PlaceOf, Reached, InFlight, Applying, Planned, PlannedOK, StateOf, Exists,
           Unresolved, Wrote, WriteFails
  <2> QED
    BY <1>1, <2>1, <2>2, <2>3, <2>4
<1>8. WorkOf(p)'
  <2>1. CASE /\ snap = journal[call[p].upd].snapshot
             /\ db' = [db EXCEPT !.schema = Target(call[p].upd)] /\ Goes(p, "open")
    BY <2>1, <1>0, <1>b, <1>c, <1>d DEF WorkOf, Wrote, WriteFails
  <2>2. CASE db' = db /\ Goes(p, "compensate")
    BY <2>2, <1>0, <1>b, <1>c, <1>d DEF WorkOf, Wrote, WriteFails
  <2>3. CASE snap = journal[call[p].upd].snapshot /\ db' = snap /\ Goes(p, "compensate")
    BY <2>3, <1>0, <1>b, <1>c, <1>d DEF WorkOf, Wrote, WriteFails
  <2>4. CASE db' \in {db, [db EXCEPT !.schema = Target(call[p].upd)]} /\ Goes(p, "guard")
    BY <2>4, <1>0, <1>b, <1>c, <1>d DEF WorkOf, Wrote, WriteFails
  <2> QED
    BY <1>1, <2>1, <2>2, <2>3, <2>4
<1>9. RecordOf(p)'
  <2>1. CASE /\ snap = journal[call[p].upd].snapshot
             /\ db' = [db EXCEPT !.schema = Target(call[p].upd)] /\ Goes(p, "open")
    BY <2>1, <1>0, <1>b, <1>c, <1>d
       DEF RecordOf, Maintaining, Keeping, Settled, Evidenced, Unrolled, Compensated, Changed,
           Wrote, WriteFails
  <2>2. CASE db' = db /\ Goes(p, "compensate")
    BY <2>2, <1>0, <1>b, <1>c, <1>d
       DEF RecordOf, Maintaining, Keeping, Settled, Evidenced, Unrolled, Compensated, Changed,
           Wrote, WriteFails
  <2>3. CASE snap = journal[call[p].upd].snapshot /\ db' = snap /\ Goes(p, "compensate")
    BY <2>3, <1>0, <1>b, <1>c, <1>d
       DEF RecordOf, Maintaining, Keeping, Settled, Evidenced, Unrolled, Compensated, Changed,
           Wrote, WriteFails
  <2>4. CASE db' \in {db, [db EXCEPT !.schema = Target(call[p].upd)]} /\ Goes(p, "guard")
    BY <2>4, <1>0, <1>b, <1>c, <1>d
       DEF RecordOf, Maintaining, Keeping, Settled, Evidenced, Unrolled, Compensated, Changed,
           Wrote, WriteFails
  <2> QED
    BY <1>1, <2>1, <2>2, <2>3, <2>4
<1>10. PackageOf(p)'
  <2>1. CASE /\ snap = journal[call[p].upd].snapshot
             /\ db' = [db EXCEPT !.schema = Target(call[p].upd)] /\ Goes(p, "open")
    BY <2>1, <1>0, <1>b, <1>c, <1>d DEF PackageOf, WorkOf, Target, Wrote, WriteFails
  <2>2. CASE db' = db /\ Goes(p, "compensate")
    BY <2>2, <1>0, <1>b, <1>c, <1>d DEF PackageOf, WorkOf, Target, Wrote, WriteFails
  <2>3. CASE snap = journal[call[p].upd].snapshot /\ db' = snap /\ Goes(p, "compensate")
    BY <2>3, <1>0, <1>b, <1>c, <1>d DEF PackageOf, WorkOf, Target, Wrote, WriteFails
  <2>4. CASE db' \in {db, [db EXCEPT !.schema = Target(call[p].upd)]} /\ Goes(p, "guard")
    BY <2>4, <1>0, <1>b, <1>c, <1>d DEF PackageOf, WorkOf, Target, Wrote, WriteFails
  <2> QED
    BY <1>1, <2>1, <2>2, <2>3, <2>4
<1>11. Comes(p)
  BY <1>1, <1>0, <1>b, <1>c, <1>d
     DEF TypeOK, LeaseOf, Stopped, Keeping, Maintaining, WriteFails, Comes, Writing, Reached
<1> QED
  BY <1>2, <1>3, <1>4, <1>5, <1>6, <1>7, <1>8, <1>9, <1>10, <1>11 DEF Sound, Mine

\* The database is restored, or may be.
LEMMA RestoreStep ==
  ASSUME IInv, NEW p \in Process, Restore(p)
  PROVE  Sound(p)
<1> USE UpdateAssumption, NoneAssumption DEF At, World, Leases, Disk, Changing, Goes, Carries, Left,
      Moves, QuitResult, GiveBack, Free
<1>0. /\ call[p].at = "restore" /\ call[p].upd \in Update /\ Exists(call[p].upd)
      /\ journal[call[p].upd] \in Journal
      /\ StateOf(call[p].upd) = "RESTORING"
      /\ Evidenced(journal[call[p].upd], StateOf(call[p].upd))
  BY Being DEF Restore, IInv, WriterInv, PlaceOf, Reached, Applying, JournalReadable
<1>1. \/ /\ snap = journal[call[p].upd].snapshot /\ db' = snap
         /\ Carries(p, "recordRestore", call[p].upd, call[p].copy, "ROLLED_BACK")
      \/ db' \in {db, snap} /\ Carries(p, "recordRestore", call[p].upd, call[p].copy, "raised")
  BY Answering DEF Restore, Applying, Settled, IInv, JournalReadable
<1>c. /\ p \in alive /\ TypeOK /\ Using(p)
      /\ LeaseOf(p) /\ PlaceOf(p) /\ WorkOf(p) /\ RecordOf(p) /\ PackageOf(p)
      /\ db.work = worked
  BY DEF IInv, JournalReadable, LeaseInv, WriterInv, WorkInv, RecordInv, PackageInv, Exists,
     Using, Restore
<1>b. UNCHANGED <<hold, coord, alive, rt, asked, worked, due, journal, bound, snap, package, failures>>
  BY DEF Restore
<1>d. /\ snap = journal[call[p].upd].snapshot /\ snap \in Database /\ db \in Database
      /\ db' \in Database /\ db'.work = db.work
  <2>1. snap = journal[call[p].upd].snapshot
    BY <1>0, <1>c DEF WorkOf
  <2>2. snap \in Database /\ db \in Database
    BY <1>0, <2>1, <1>c DEF Journal, TypeOK
  <2> QED
    BY <1>0, <1>1, <1>c, <2>1, <2>2 DEF WorkOf
<1>2. Touches(p)
  BY <1>1, <1>0, <1>b, <1>c, <1>d
     DEF Touches, TypeOK, WorkInv, IInv, LeaseOf, PlaceOf, Maintaining, Coordinating, Keeping,
         Applying, Writing, Reached, WriteFails
<1>3. Writes(p)
  BY <1>1, <1>0, <1>b, <1>c, <1>d DEF Writes, Writers, Settled, WriteFails
<1>4. TypeOK'
  <2>1. CASE /\ snap = journal[call[p].upd].snapshot /\ db' = snap
             /\ Carries(p, "recordRestore", call[p].upd, call[p].copy, "ROLLED_BACK")
    BY <2>1, <1>0, <1>b, <1>c, <1>d DEF TypeOK, Calls, WriteFails, Wrote
  <2>2. CASE db' \in {db, snap} /\ Carries(p, "recordRestore", call[p].upd, call[p].copy, "raised")
    BY <2>2, <1>0, <1>b, <1>c, <1>d DEF TypeOK, Calls, WriteFails, Wrote
  <2> QED
    BY <1>1, <2>1, <2>2
<1>5. Using(p)'
  BY <1>1, <1>0, <1>b, <1>c, <1>d DEF Using, LeaseOf, Stopped, Keeping, Maintaining
<1>6. LeaseOf(p)'
  BY <1>1, <1>0, <1>b, <1>c, <1>d DEF LeaseOf, Maintaining, Coordinating, Keeping, Stopped
<1>7. PlaceOf(p)'
  <2>1. CASE /\ snap = journal[call[p].upd].snapshot /\ db' = snap
             /\ Carries(p, "recordRestore", call[p].upd, call[p].copy, "ROLLED_BACK")
    BY <2>1, <1>0, <1>b, <1>c, <1>d
       DEF PlaceOf, Reached, InFlight, Applying, Planned, PlannedOK, StateOf, Exists,
           Unresolved, Wrote, WriteFails
  <2>2. CASE db' \in {db, snap} /\ Carries(p, "recordRestore", call[p].upd, call[p].copy, "raised")
    BY <2>2, <1>0, <1>b, <1>c, <1>d
       DEF PlaceOf, Reached, InFlight, Applying, Planned, PlannedOK, StateOf, Exists,
           Unresolved, Wrote, WriteFails
  <2> QED
    BY <1>1, <2>1, <2>2
<1>8. WorkOf(p)'
  <2>1. CASE /\ snap = journal[call[p].upd].snapshot /\ db' = snap
             /\ Carries(p, "recordRestore", call[p].upd, call[p].copy, "ROLLED_BACK")
    BY <2>1, <1>0, <1>b, <1>c, <1>d DEF WorkOf, Wrote, WriteFails
  <2>2. CASE db' \in {db, snap} /\ Carries(p, "recordRestore", call[p].upd, call[p].copy, "raised")
    BY <2>2, <1>0, <1>b, <1>c, <1>d DEF WorkOf, Wrote, WriteFails
  <2> QED
    BY <1>1, <2>1, <2>2
<1>9. RecordOf(p)'
  <2>1. CASE /\ snap = journal[call[p].upd].snapshot /\ db' = snap
             /\ Carries(p, "recordRestore", call[p].upd, call[p].copy, "ROLLED_BACK")
    BY <2>1, <1>0, <1>b, <1>c, <1>d
       DEF RecordOf, Maintaining, Keeping, Settled, Evidenced, Unrolled, Compensated, Changed,
           Wrote, WriteFails
  <2>2. CASE db' \in {db, snap} /\ Carries(p, "recordRestore", call[p].upd, call[p].copy, "raised")
    BY <2>2, <1>0, <1>b, <1>c, <1>d
       DEF RecordOf, Maintaining, Keeping, Settled, Evidenced, Unrolled, Compensated, Changed,
           Wrote, WriteFails
  <2> QED
    BY <1>1, <2>1, <2>2
<1>10. PackageOf(p)'
  <2>1. CASE /\ snap = journal[call[p].upd].snapshot /\ db' = snap
             /\ Carries(p, "recordRestore", call[p].upd, call[p].copy, "ROLLED_BACK")
    BY <2>1, <1>0, <1>b, <1>c, <1>d DEF PackageOf, WorkOf, Target, Wrote, WriteFails
  <2>2. CASE db' \in {db, snap} /\ Carries(p, "recordRestore", call[p].upd, call[p].copy, "raised")
    BY <2>2, <1>0, <1>b, <1>c, <1>d DEF PackageOf, WorkOf, Target, Wrote, WriteFails
  <2> QED
    BY <1>1, <2>1, <2>2
<1>11. Comes(p)
  BY <1>1, <1>0, <1>b, <1>c, <1>d
     DEF TypeOK, LeaseOf, Stopped, Keeping, Maintaining, WriteFails, Comes, Writing, Reached
<1> QED
  BY <1>2, <1>3, <1>4, <1>5, <1>6, <1>7, <1>8, <1>9, <1>10, <1>11 DEF Sound, Mine

\* Work is done by a runtime, and is on top of the database as it is.
LEMMA WorkStep ==
  ASSUME IInv, NEW p \in Process, Work(p)
  PROVE  Sound(p)
<1> USE UpdateAssumption, NoneAssumption DEF At, World, Leases, Disk, Changing, Goes, Carries, Left,
      Moves, QuitResult, GiveBack, Free
<1>1. call' = call
  BY DEF Work
<1>c. /\ p \in alive /\ TypeOK /\ Using(p)
      /\ LeaseOf(p) /\ PlaceOf(p) /\ WorkOf(p) /\ RecordOf(p) /\ PackageOf(p)
      /\ db.work = worked
  BY DEF IInv, JournalReadable, LeaseInv, WriterInv, WorkInv, RecordInv, PackageInv, Exists,
     Using, Work
<1>b. UNCHANGED <<hold, coord, alive, rt, asked, due, journal, bound, snap, package, failures>>
  BY DEF Work
<1>d. /\ rt[p] = "RUNNING" /\ db' \in Database /\ db'.schema = db.schema /\ worked' \in 0..MaxWork
      /\ db'.work = worked'
  BY DEF Work, IInv, JournalReadable, TypeOK, Database, WorkInv
<1>2. Touches(p)
  BY <1>1, <1>b, <1>c, <1>d
     DEF Touches, TypeOK, WorkInv, IInv, LeaseOf, PlaceOf, Maintaining, Coordinating, Keeping,
         Applying, Writing, Reached, WriteFails, TypeOK
<1>3. Writes(p)
  BY <1>1, <1>b, <1>c, <1>d DEF Writes, Writers, Settled, WriteFails
<1>4. TypeOK'
  BY <1>1, <1>b, <1>c, <1>d DEF TypeOK, Calls, WriteFails, Wrote
<1>5. Using(p)'
  BY <1>1, <1>b, <1>c, <1>d DEF Using, LeaseOf, Stopped, Keeping, Maintaining
<1>6. LeaseOf(p)'
  BY <1>1, <1>b, <1>c, <1>d DEF LeaseOf, Maintaining, Coordinating, Keeping, Stopped
<1>7. PlaceOf(p)'
  BY <1>1, <1>b, <1>c, <1>d
     DEF PlaceOf, Reached, InFlight, Applying, Planned, PlannedOK, StateOf, Exists, Unresolved,
         Wrote, WriteFails, TypeOK
<1>8. WorkOf(p)'
  BY <1>1, <1>b, <1>c, <1>d DEF WorkOf, Wrote, WriteFails, LeaseOf, Stopped, Keeping, Maintaining
<1>9. RecordOf(p)'
  BY <1>1, <1>b, <1>c, <1>d
     DEF RecordOf, Maintaining, Keeping, Settled, Evidenced, Unrolled, Compensated, Changed,
         Wrote, WriteFails, TypeOK
<1>10. PackageOf(p)'
  BY <1>1, <1>b, <1>c, <1>d
     DEF PackageOf, WorkOf, Target, Wrote, WriteFails, LeaseOf, Stopped, Keeping, Maintaining
<1>11. Comes(p)
  BY <1>1, <1>b, <1>c, <1>d
     DEF TypeOK, LeaseOf, Stopped, Keeping, Maintaining, WriteFails, Comes, Writing, Reached
<1> QED
  BY <1>2, <1>3, <1>4, <1>5, <1>6, <1>7, <1>8, <1>9, <1>10, <1>11 DEF Sound, Mine

\* A snapshot of a runtime is nobody's who has the lease for an update.
LEMMA CreateSnapshotStep ==
  ASSUME IInv, NEW p \in Process, CreateSnapshot(p)
  PROVE  Sound(p)
<1> USE UpdateAssumption, NoneAssumption DEF At, World, Leases, Disk, Changing, Goes, Carries, Left,
      Moves, QuitResult, GiveBack, Free
<1>1. call' = call
  BY DEF CreateSnapshot
<1>2. Touches(p)
  BY <1>1 DEF IInv, JournalReadable, TypeOK, CreateSnapshot, Touches, WorkInv, WriterInv, PlaceOf,
     LeaseInv, LeaseOf, Maintaining, Coordinating, Keeping, Writing, Reached
<1>3. Writes(p)
  BY DEF CreateSnapshot, Writes
<1>4. TypeOK'
  BY <1>1 DEF IInv, JournalReadable, TypeOK, CreateSnapshot
<1>5. Using(p)'
  BY <1>1 DEF IInv, JournalReadable, TypeOK, CreateSnapshot, LeaseInv, LeaseOf, Using, Maintaining,
     Coordinating, Keeping, Stopped
<1>6. p \in alive' => LeaseOf(p)'
  BY <1>1 DEF IInv, JournalReadable, TypeOK, CreateSnapshot, LeaseInv, LeaseOf, Maintaining,
     Coordinating, Keeping, Stopped
<1>7. p \in alive' => PlaceOf(p)'
  BY <1>1 DEF IInv, JournalReadable, TypeOK, CreateSnapshot, LeaseInv, WriterInv, PlaceOf, LeaseOf,
     Maintaining, Coordinating, Keeping, Reached, Planned, PlannedOK, Applying, StateOf, Exists,
     Unresolved
<1>8. p \in alive' => WorkOf(p)'
  BY <1>1 DEF IInv, JournalReadable, TypeOK, CreateSnapshot, WorkInv, WorkOf, LeaseInv, LeaseOf,
     Stopped, Keeping, Maintaining
<1>9. p \in alive' => RecordOf(p)'
  BY <1>1 DEF IInv, JournalReadable, TypeOK, CreateSnapshot, RecordInv, RecordOf, Maintaining, Keeping
<1>10. p \in alive' => PackageOf(p)'
  BY <1>1 DEF IInv, JournalReadable, TypeOK, CreateSnapshot, PackageInv, PackageOf, Target
<1>11. Comes(p)
  BY <1>1 DEF IInv, JournalReadable, TypeOK, CreateSnapshot, LeaseInv, LeaseOf, Stopped, Keeping,
     Maintaining, Comes, Writing, Reached
<1> QED
  BY <1>2, <1>3, <1>4, <1>5, <1>6, <1>7, <1>8, <1>9, <1>10, <1>11 DEF Sound, Mine

\* A standalone migration has the lease, and what it leaves is due.
LEMMA MigrateStandaloneStep ==
  ASSUME IInv, NEW p \in Process, MigrateStandalone(p)
  PROVE  Sound(p)
<1> USE UpdateAssumption, NoneAssumption DEF At, World, Leases, Disk, Changing, Goes, Carries, Left,
      Moves, QuitResult, GiveBack, Free
<1>1. /\ call' = call /\ db' \in Database /\ db'.work = db.work /\ snap' \in Database \cup {None}
      /\ due' = db'.schema /\ due' \in Release
  <2>1. CASE UNCHANGED <<snap, db>>
    BY <2>1 DEF MigrateStandalone, IInv, JournalReadable, TypeOK, Database
  <2>2. CASE snap' = db /\ \E version \in db.schema..MaxSchema :
               db' = [db EXCEPT !.schema = version]
    BY <2>2 DEF MigrateStandalone, IInv, JournalReadable, TypeOK, Database, Release
  <2> QED
    BY <2>1, <2>2 DEF MigrateStandalone
<1>2. Touches(p)
  BY <1>1 DEF IInv, JournalReadable, TypeOK, MigrateStandalone, Touches, WorkInv, WriterInv, PlaceOf,
     LeaseInv, LeaseOf, Maintaining, Coordinating, Keeping, Writing, Reached
<1>3. Writes(p)
  BY DEF MigrateStandalone, Writes
<1>4. TypeOK'
  BY <1>1 DEF IInv, JournalReadable, TypeOK, MigrateStandalone
<1>5. Using(p)'
  BY <1>1 DEF IInv, JournalReadable, TypeOK, MigrateStandalone, LeaseInv, LeaseOf, Using, Maintaining,
     Coordinating, Keeping, Stopped
<1>6. p \in alive' => LeaseOf(p)'
  BY <1>1 DEF IInv, JournalReadable, TypeOK, MigrateStandalone, LeaseInv, LeaseOf, Maintaining,
     Coordinating, Keeping, Stopped
<1>7. p \in alive' => PlaceOf(p)'
  BY <1>1 DEF IInv, JournalReadable, TypeOK, MigrateStandalone, LeaseInv, WriterInv, PlaceOf, LeaseOf,
     Maintaining, Coordinating, Keeping, Reached, Planned, PlannedOK, Applying, StateOf, Exists,
     Unresolved
<1>8. p \in alive' => WorkOf(p)'
  BY <1>1 DEF IInv, JournalReadable, TypeOK, MigrateStandalone, WorkInv, WorkOf
<1>9. p \in alive' => RecordOf(p)'
  BY <1>1 DEF IInv, JournalReadable, TypeOK, MigrateStandalone, RecordInv, RecordOf, Maintaining, Keeping
<1>10. p \in alive' => PackageOf(p)'
  BY <1>1 DEF IInv, JournalReadable, TypeOK, MigrateStandalone, PackageInv, PackageOf, Target
<1>11. Comes(p)
  BY <1>1 DEF IInv, JournalReadable, TypeOK, MigrateStandalone, LeaseInv, LeaseOf, Stopped, Keeping,
     Maintaining, Comes, Writing, Reached
<1> QED
  BY <1>2, <1>3, <1>4, <1>5, <1>6, <1>7, <1>8, <1>9, <1>10, <1>11 DEF Sound, Mine

-----------------------------------------------------------------------------
(* What a step keeps for the other processes *)

\* Whoever writes a journal writes one that is not settled.
LEMMA WritesUnresolved ==
  ASSUME IInv, NEW p \in alive, call[p].at \in Writers \cup Writing
  PROVE  /\ call[p].upd \in Update /\ Exists(call[p].upd)
         /\ Unresolved(call[p].upd) \/ call[p].at \in {"begin", "unexpected"}
         /\ Unresolved(call[p].upd)
<1>1. PlaceOf(p)
  BY DEF IInv, WriterInv
<1>2. call[p].at \in Applying \/ Planned(p)
  BY DEF Writers, Writing, Reached, Applying, Planned
<1>3. call[p].upd \in Update /\ Exists(call[p].upd)
  BY <1>2, Being
<1>4. StateOf(call[p].upd) \notin Settled
  BY <1>1 DEF PlaceOf, Writers, Writing, Reached, Settled, InFlight, Planned, PlannedOK
<1> QED
  BY <1>3, <1>4 DEF Unresolved

\* The journal of an update stays what the process that is at it knows of it.
LEMMA JournalStays ==
  ASSUME IInv, NEW p \in Process, Touches(p), Writes(p), NEW q \in alive \ {p},
         call[q].at \in DOMAIN Reached \/ Planned(q)
  PROVE  journal'[call[q].upd] = journal[call[q].upd]
<1> DEFINE u == call[q].upd
<1>0. /\ p \in alive /\ PlaceOf(p) /\ PlaceOf(q) /\ LeaseOf(p) /\ LeaseOf(q)
      /\ journal \in [Update -> Journal \cup {None}]
  BY DEF Touches, IInv, WriterInv, LeaseInv, JournalReadable, TypeOK
<1>1. u \in Update /\ Exists(u)
  BY Being DEF Reached, Applying
<1>2. ASSUME call[p].at \in Writers, call[p].upd = u
      PROVE  FALSE
  <2>1. CASE Planned(q)
    BY <1>0, <1>2, <2>1 DEF PlaceOf, PlannedOK
  <2>2. CASE call[p].at = "markPrepare"
    BY <1>0, <1>2, <2>2 DEF PlaceOf, Planned, PlannedOK
  <2>3. CASE call[q].at \in {"hold", "verify", "begin"}
    <3>1. StateOf(u) = "PREPARED" /\ coord = q
      BY <1>0, <2>3 DEF PlaceOf, Reached, LeaseOf, Coordinating, Maintaining
    <3> QED
      BY <1>0, <1>2, <2>2, <3>1
         DEF Writers, PlaceOf, Reached, InFlight, LeaseOf, Coordinating, Maintaining
  <2>4. CASE call[q].at \in Writing /\ call[p].at \in Writing
    BY <1>0, <1>2, <2>4 DEF IInv, WriterInv, OneWrites
  <2>5. CASE call[q].at \in Writing /\ call[p].at = "begin"
    <3>1. StateOf(u) = "PREPARED" /\ coord = p
      BY <1>0, <1>2, <2>5 DEF PlaceOf, Reached, LeaseOf, Coordinating, Maintaining
    <3> QED
      BY <1>0, <2>5, <3>1 DEF Writing, PlaceOf, Reached, InFlight
  <2> QED
    BY <1>2, <2>1, <2>2, <2>3, <2>4, <2>5 DEF Writers, Writing, Reached
<1>3. CASE journal' = journal
  BY <1>3
<1>4. CASE \E v \in Update : Plans(p, v)
  BY <1>0, <1>1, <1>4 DEF Plans
<1>5. CASE call[p].at \in Writers /\ \E j, state : Continues(call[p].upd, j, state)
  BY <1>0, <1>1, <1>2, <1>5 DEF Continues, Write
<1> QED
  BY <1>3, <1>4, <1>5 DEF Writes

\* And so do the leases, the package, the database and the record of the driver.
LEMMA WorldStays ==
  ASSUME IInv, NEW p \in Process, Touches(p), NEW q \in alive \ {p}
  PROVE  /\ call'[q] = call[q] /\ rt'[q] = rt[q]
         /\ call[q].at \in Coordinating => coord' = coord
         /\ call[q].at \in Keeping => hold' = hold
         /\ call[q].at \in Maintaining =>
              db' = db /\ snap' = snap /\ due' = due /\ worked' = worked
         /\ call[q].at \in Maintaining \cup Writing => package' = package
         /\ call[q].at \in Writing =>
              (db'.schema = db.schema /\ due' = due) \/ due' = db'.schema
         /\ call[q].at \in Writing => asked'[call[q].upd] = asked[call[q].upd]
<1>0. /\ p \in alive /\ LeaseOf(p) /\ LeaseOf(q) /\ Using(p) /\ p # q /\ q \in Process
      /\ asked \in [Update -> Seq(Asked)] /\ db.work = worked
  BY DEF Touches, IInv, LeaseInv, WorkInv, Using, JournalReadable, TypeOK
<1>1. call'[q] = call[q] /\ rt'[q] = rt[q]
  BY <1>0 DEF Touches, Moves
<1>2. call[q].at \in Coordinating => coord' = coord
  BY <1>0 DEF Touches, LeaseOf
<1>3. call[q].at \in Keeping => hold' = hold
  BY <1>0 DEF Touches, LeaseOf
<1>4. call[q].at \in Maintaining =>
        /\ db' = db /\ package' = package /\ snap' = snap /\ due' = due /\ worked' = worked
        /\ call[p].at \notin {"install", "rollback", "migrate", "restore"}
  BY <1>0 DEF Touches, LeaseOf, Using, Keeping, Maintaining
<1>5. ASSUME call[q].at \in Writing,
             call[p].at \in {"install", "rollback", "migrate", "restore", "releaseHold"}
      PROVE  FALSE
  <2>1. call[p].at \in Writing
    BY <1>5 DEF Writing, Reached
  <2>2. call[p].upd = call[q].upd
    BY <1>0, <1>5, <2>1, WritesUnresolved DEF IInv, OneUnresolved
  <2> QED
    BY <1>0, <1>5, <2>1, <2>2 DEF IInv, WriterInv, OneWrites
<1>6. call[q].at \in Writing =>
        /\ package' = package /\ asked'[call[q].upd] = asked[call[q].upd]
        /\ (db'.schema = db.schema /\ due' = due) \/ due' = db'.schema
  BY <1>5 DEF Touches
<1> QED
  BY <1>1, <1>2, <1>3, <1>4, <1>6

\* What a sound step leaves of the invariant of every other process.
LEMMA OthersStay ==
  ASSUME IInv, NEW p \in Process, Sound(p), NEW q \in alive' \ {p}
  PROVE  LeaseOf(q)' /\ PlaceOf(q)' /\ WorkOf(q)' /\ RecordOf(q)' /\ PackageOf(q)'
<1>0. /\ p \in alive /\ q \in alive /\ q \in Process /\ q # p /\ Touches(p) /\ Writes(p)
      /\ LeaseOf(q) /\ PlaceOf(q) /\ WorkOf(q) /\ RecordOf(q) /\ PackageOf(q)
  BY DEF Sound, Touches, IInv, LeaseInv, WriterInv, WorkInv, RecordInv, PackageInv,
     JournalReadable, TypeOK
<1>1. /\ call'[q] = call[q] /\ rt'[q] = rt[q]
      /\ call[q].at \in Coordinating => coord' = coord
      /\ call[q].at \in Keeping => hold' = hold
      /\ call[q].at \in Maintaining =>
           db' = db /\ snap' = snap /\ due' = due /\ worked' = worked
      /\ call[q].at \in Maintaining \cup Writing => package' = package
      /\ call[q].at \in Writing =>
           (db'.schema = db.schema /\ due' = due) \/ due' = db'.schema
      /\ call[q].at \in Writing => asked'[call[q].upd] = asked[call[q].upd]
  BY <1>0, WorldStays
<1>2. call[q].at \in DOMAIN Reached \/ Planned(q) => journal'[call[q].upd] = journal[call[q].upd]
  BY <1>0, JournalStays
<1>3. LeaseOf(q)'
  BY <1>0, <1>1 DEF LeaseOf
<1>4. WorkOf(q)'
  BY <1>0, <1>1, <1>2 DEF WorkOf, Changing, Reached, Maintaining
<1>5. RecordOf(q)'
  BY <1>0, <1>1, <1>2 DEF RecordOf, Reached, Writing, Maintaining, Keeping
<1>6. PackageOf(q)'
  BY <1>0, <1>1, <1>2 DEF PackageOf, Reached, Writing, Maintaining, Target
<1>7. PlaceOf(q)'
  <2>1. ASSUME call[q].at \in {"snapshot", "quit", "fingerprint", "writePlan"}
        PROVE  journal' = journal
    <3>1. coord = q /\ \A v \in Update : ~Unresolved(v)
      BY <1>0, <2>1 DEF LeaseOf, PlaceOf, Coordinating
    <3>2. call[p].at # "writePlan"
      BY <1>0, <3>1 DEF IInv, LeaseInv, LeaseOf, Coordinating
    <3>3. call[p].at \notin Writers
      BY <1>0, <3>1, WritesUnresolved
    <3> QED
      BY <1>0, <3>2, <3>3 DEF Writes
  <2>2. ASSUME Planned(q)
        PROVE  PlannedOK(q)'
    <3>1. /\ call[q].upd \in Update \ bound /\ Exists(call[q].upd)
          /\ StateOf(call[q].upd) = "PREPARED"
          /\ \A r \in alive : call[r].upd = call[q].upd => r = q
      BY <1>0, <2>2 DEF PlaceOf, PlannedOK
    <3>2. call[q].upd \notin bound'
      BY <1>0, <3>1 DEF Touches
    <3>3. call'[p].upd # call[q].upd
      BY <1>0, <3>1, NoneAssumption DEF Touches
    <3>4. \A r \in alive' : call'[r].upd = call'[q].upd => r = q
      BY <1>0, <1>1, <3>1, <3>3 DEF Touches, Moves, IInv, JournalReadable, TypeOK
    <3> QED
      BY <1>1, <1>2, <2>2, <3>1, <3>2, <3>4 DEF PlannedOK, Exists, StateOf
  <2>3. call[q].at \in Applying => call[q].upd \in bound'
    BY <1>0 DEF PlaceOf, Touches
  <2>4. call[q].at \in DOMAIN Reached => StateOf(call[q].upd)' \in Reached[call[q].at]
    BY <1>0, <1>1, <1>2 DEF PlaceOf, StateOf
  <2>5. ASSUME call[q].at = "unexpected", StateOf(call[q].upd)' = "PREPARED"
        PROVE  coord' = q /\ hold' = q
    <3>1. StateOf(call[q].upd) = "PREPARED"
      BY <1>1, <1>2, <2>5 DEF StateOf, Reached
    <3> QED
      BY <1>0, <2>5, <3>1 DEF PlaceOf, Touches
  <2> QED
    BY <1>0, <1>1, <2>1, <2>2, <2>3, <2>4, <2>5 DEF PlaceOf, Planned, Unresolved, Exists, StateOf
<1> QED
  BY <1>3, <1>4, <1>5, <1>6, <1>7

-----------------------------------------------------------------------------
(* The parts of the invariant about all updates *)

\* A journal that is not settled after a step was not before, or prepare has just
\* written it; one that is settled was settled before, or apply is through.
LEMMA StatesMove ==
  ASSUME IInv, NEW p \in Process, Touches(p), Writes(p), NEW u \in Update
  PROVE  /\ Exists(u) => Exists(u)'
         /\ Exists(u)' /\ journal'[u] # journal[u] =>
              \/ /\ call[p].at = "writePlan" /\ Plans(p, u) /\ StateOf(u)' = "PREPARED"
                 /\ \E release \in package : journal'[u] = NewPlan(release, call[p].copy)
              \/ /\ call[p].at \in Writers /\ u = call[p].upd /\ Unresolved(u)
                 /\ StateOf(u)' \in Allowed[StateOf(u)]
                 /\ StateOf(u)' # "PREPARED"
                 /\ StateOf(u)' \in Settled =>
                      call[p].at = "settle" /\ StateOf(u)' = call[p].outcome
                 /\ \E j, state : Continues(u, j, state) /\ Wrote(u, j, state)
<1>0. p \in alive /\ journal \in [Update -> Journal \cup {None}]
  BY DEF Touches, IInv, JournalReadable, TypeOK
<1>1. CASE journal' = journal
  BY <1>1 DEF Exists
<1>2. CASE call[p].at = "writePlan" /\ \E v \in Update : Plans(p, v)
  <2>1. PICK v \in Update : Plans(p, v)
    BY <1>2
  <2>2. CASE u = v
    <3>1. PICK release \in package :
            journal' = [journal EXCEPT ![u] = NewPlan(release, call[p].copy)]
      BY <2>1, <2>2 DEF Plans
    <3>2. journal'[u] = NewPlan(release, call[p].copy)
      BY <1>0, <3>1
    <3>3. call[p].copy \in Database /\ package \subseteq Release
      BY <1>0, <1>2 DEF IInv, WorkInv, WorkOf, JournalReadable, TypeOK
    <3>4. NewPlan(release, call[p].copy) \in Journal
      BY <3>3 DEF NewPlan, Journal, States
    <3>5. journal'[u] # None
      BY <3>2, <3>4, NoneAssumption
    <3>6. journal'[u].history = <<"PREPARED">>
      BY <3>2 DEF NewPlan
    <3>7. Exists(u)' /\ StateOf(u)' = "PREPARED"
      BY <3>5, <3>6 DEF Exists, StateOf, Last
    <3> QED
      BY <1>2, <2>1, <2>2, <3>2, <3>7 DEF Plans
  <2>3. CASE u # v
    BY <1>0, <2>1, <2>3 DEF Exists, Plans
  <2> QED
    BY <2>2, <2>3
<1>3. CASE /\ call[p].at \in Writers
           /\ \E j, state : /\ Continues(call[p].upd, j, state)
                            /\ state \in Settled => call[p].at = "settle" /\ state = call[p].outcome
  <2>1. PICK j, state : /\ Continues(call[p].upd, j, state)
                        /\ state \in Settled => call[p].at = "settle" /\ state = call[p].outcome
    BY <1>3
  <2>2. call[p].upd \in Update /\ Exists(call[p].upd) /\ Unresolved(call[p].upd)
    BY <1>0, <1>3, WritesUnresolved
  <2>3. Wrote(call[p].upd, j, state)
    BY <2>1, <2>2, Continued DEF IInv
  <2>4. state \in Allowed[StateOf(call[p].upd)] /\ state # "PREPARED"
    <3>1. StateOf(call[p].upd) \in States
      BY <1>0, <2>2 DEF IInv, JournalReadable, TypeOK, Journal, Exists, StateOf, Last
    <3> QED
      BY <2>1, <3>1 DEF Continues, Allowed, States, Settled, InFlight
  <2>5. CASE u = call[p].upd
    <3>1. Continues(u, j, state) /\ Wrote(u, j, state) /\ StateOf(u)' = state
      BY <2>1, <2>3, <2>5 DEF Continues, Write, Wrote, Exists, StateOf
    <3>2. \E k, new : Continues(u, k, new) /\ Wrote(u, k, new)
      BY <3>1
    <3>3. Exists(u)'
      BY <3>1 DEF Wrote, Exists
    <3> QED
      BY <1>3, <2>1, <2>2, <2>4, <2>5, <3>1, <3>2, <3>3
  <2>6. CASE u # call[p].upd
    BY <2>3, <2>6 DEF Wrote, Exists
  <2> QED
    BY <2>5, <2>6
<1> QED
  BY <1>1, <1>2, <1>3 DEF Writes

\* A journal that could be read can still be read.
LEMMA ReadableStays ==
  ASSUME IInv, NEW p \in Process, Touches(p), Writes(p), TypeOK'
  PROVE  JournalReadable'
<1> SUFFICES ASSUME NEW u \in Update, Exists(u)'
             PROVE  /\ journal'[u].history # <<>> /\ journal'[u].history[1] = "PREPARED"
                    /\ \A i \in 1..Len(journal'[u].history) - 1 :
                         journal'[u].history[i + 1] \in Allowed[journal'[u].history[i]]
                    /\ Evidenced(journal[u], StateOf(u))'
  BY DEF JournalReadable, Exists
<1>1. CASE journal'[u] = journal[u]
  BY <1>1 DEF IInv, JournalReadable, Exists, StateOf
<1>2. CASE /\ \E release \in package : journal'[u] = NewPlan(release, call[p].copy)
           /\ StateOf(u)' = "PREPARED"
  BY <1>2 DEF NewPlan, Evidenced, Unrolled
<1>3. CASE Unresolved(u) /\ \E j, state : Continues(u, j, state) /\ Wrote(u, j, state)
  <2>1. PICK j, state : Continues(u, j, state) /\ Wrote(u, j, state)
    BY <1>3
  <2> DEFINE h == journal[u].history
  <2>2. /\ h \in Seq(States) /\ h # <<>> /\ h[1] = "PREPARED" /\ StateOf(u) = h[Len(h)]
        /\ \A i \in 1..Len(h) - 1 : h[i + 1] \in Allowed[h[i]]
    BY <1>3 DEF Unresolved, IInv, JournalReadable, TypeOK, Journal, Exists, StateOf, Last
  <2>3. journal'[u].history = Append(h, state) /\ StateOf(u)' = state /\ state \in States
    BY <2>1 DEF Wrote, StateOf
  <2>4. state \in Allowed[h[Len(h)]]
    BY <2>1, <2>2 DEF Continues
  <2>5. Evidenced(journal'[u], state)
    BY <2>1 DEF Continues, Wrote, Evidenced, Unrolled, Changed, Compensated
  <2> HIDE DEF h
  <2> QED
    BY <2>2, <2>3, <2>4, <2>5
<1> QED
  BY <1>1, <1>2, <1>3, StatesMove

\* prepare writes a plan of a whole package, and only while no update is unresolved.
LEMMA PlanFresh ==
  ASSUME IInv, NEW p \in alive, call[p].at = "writePlan"
  PROVE  (\A v \in Update : ~Unresolved(v)) /\ Whole
BY DEF IInv, WriterInv, PlaceOf, PackageInv

\* No second unresolved update is written.
LEMMA OneStays ==
  ASSUME IInv, NEW p \in Process, Touches(p), Writes(p)
  PROVE  OneUnresolved'
<1> SUFFICES ASSUME NEW u \in Update, NEW v \in Update, Unresolved(u)', Unresolved(v)'
             PROVE  u = v
  BY DEF OneUnresolved
<1>0. p \in alive /\ journal \in [Update -> Journal \cup {None}]
  BY DEF Touches, IInv, JournalReadable, TypeOK
<1>1. ASSUME NEW w \in Update, Unresolved(w)', ~Unresolved(w)
      PROVE  call[p].at = "writePlan" /\ Plans(p, w)
  BY <1>1, StatesMove DEF Unresolved, Exists, StateOf
<1>2. CASE call[p].at = "writePlan"
  <2>1. ~Unresolved(u) /\ ~Unresolved(v)
    BY <1>0, <1>2, PlanFresh
  <2>2. Plans(p, u) /\ Plans(p, v)
    BY <1>1, <2>1
  <2>3. Exists(u)' /\ ~(u # v /\ journal'[u] = journal[u])
    BY <2>1, <2>2 DEF Unresolved, Exists, StateOf
  <2> QED
    BY <1>0, <2>2, <2>3 DEF Plans
<1>3. CASE call[p].at # "writePlan"
  BY <1>1, <1>3 DEF IInv, OneUnresolved
<1> QED
  BY <1>2, <1>3

\* The driver is asked in the order install, rollback, and once each.
LEMMA RecordStays ==
  ASSUME IInv, NEW p \in Process, Touches(p), Writes(p)
  PROVE  /\ NeverBlindly'
         /\ \A u \in Update : ~Exists(u)' \/ StateOf(u)' = "PREPARED" => asked'[u] = <<>>
<1>0. /\ p \in alive /\ PlaceOf(p) /\ RecordOf(p)
      /\ journal \in [Update -> Journal \cup {None}] /\ asked \in [Update -> Seq(Asked)]
  BY DEF Touches, IInv, WriterInv, RecordInv, JournalReadable, TypeOK
<1> SUFFICES ASSUME NEW u \in Update
             PROVE  /\ Len(asked'[u]) <= 2
                    /\ \A i \in DOMAIN asked'[u] :
                         asked'[u][i].action = IF i = 1 THEN "INSTALL" ELSE "ROLLBACK"
                    /\ Len(asked'[u]) = 2 => asked'[u][1].answer \in {"SUCCEEDED", "FAILED_CHANGED"}
                    /\ ~Exists(u)' \/ StateOf(u)' = "PREPARED" => asked'[u] = <<>>
  BY DEF NeverBlindly
<1>1. CASE asked'[u] = asked[u]
  <2>1. ~Exists(u)' \/ StateOf(u)' = "PREPARED" => ~Exists(u) \/ StateOf(u) = "PREPARED"
    <3>1. CASE journal'[u] = journal[u]
      BY <3>1 DEF Exists, StateOf
    <3>2. CASE journal'[u] # journal[u]
      BY <3>2, StatesMove DEF Plans
    <3> QED
      BY <3>1, <3>2
  <2> QED
    BY <1>1, <2>1 DEF IInv, NeverBlindly, RecordInv
<1>2. CASE asked'[u] # asked[u]
  <2>1. PICK r \in Asked : /\ \/ call[p].at = "install" /\ r.action = "INSTALL"
                              \/ call[p].at = "rollback" /\ r.action = "ROLLBACK"
                           /\ asked' = [asked EXCEPT ![call[p].upd] = Append(@, r)]
    BY <1>2 DEF Touches
  <2>2. u = call[p].upd /\ asked'[u] = Append(asked[u], r) /\ asked[u] \in Seq(Asked)
    BY <1>0, <1>2, <2>1
  <2>3. Exists(u)' /\ StateOf(u)' # "PREPARED"
    <3>1. Exists(u) /\ StateOf(u) # "PREPARED"
      BY <1>0, <2>1, <2>2, WritesUnresolved DEF Writing, Reached, PlaceOf
    <3>2. journal' = journal
      BY <2>1 DEF Writes, Writers
    <3> QED
      BY <3>1, <3>2 DEF Exists, StateOf
  <2>4. CASE call[p].at = "install"
    <3>1. asked[u] = <<>> /\ r.action = "INSTALL"
      BY <1>0, <2>1, <2>2, <2>4 DEF RecordOf
    <3> QED
      BY <2>2, <2>3, <3>1
  <2>5. CASE call[p].at = "rollback"
    <3>1. /\ Len(asked[u]) = 1 /\ r.action = "ROLLBACK"
          /\ asked[u][1].answer \in {"SUCCEEDED", "FAILED_CHANGED"}
      BY <1>0, <2>1, <2>2, <2>5 DEF RecordOf
    <3>2. asked[u][1].action = "INSTALL"
      BY <2>2, <3>1 DEF IInv, NeverBlindly
    <3> QED
      BY <2>2, <2>3, <3>1, <3>2
  <2> QED
    BY <2>1, <2>4, <2>5
<1> QED
  BY <1>1, <1>2

\* Where a journal is settled, the package and the database are what it says.
LEMMA SettledSo ==
  ASSUME IInv, NEW p \in Process, Touches(p), Writes(p), NEW u \in Update,
         Unresolved(u), StateOf(u)' \in Settled
  PROVE  LET release == IF StateOf(u)' = "SUCCEEDED" THEN Target(u) ELSE journal[u].from
         IN  package = {release} /\ db.schema = due /\ call[p].at = "settle"
<1>1. p \in alive /\ PackageOf(p)
  BY DEF Touches, IInv, PackageInv
<1>2. Exists(u) /\ journal'[u] # journal[u]
  BY DEF Unresolved, StateOf
<1>3. u = call[p].upd /\ call[p].at = "settle" /\ StateOf(u)' = call[p].outcome
  BY <1>2, StatesMove DEF Settled
<1> QED
  BY <1>1, <1>3 DEF PackageOf

\* Elsewhere than in the package driver, a migration and a restore a whole package stays.
LEMMA WholeStays ==
  ASSUME NEW p \in Process, Touches(p), Whole,
         call[p].at \notin {"install", "rollback", "migrate", "restore"}
  PROVE  Whole'
BY DEF Touches, Whole

\* The package is whole, or an update is in flight.
LEMMA PackageStays ==
  ASSUME IInv, NEW p \in Process, Touches(p), Writes(p)
  PROVE  Whole' \/ \E u \in Update : Unresolved(u)' /\ StateOf(u)' # "PREPARED"
<1>0. p \in alive /\ PlaceOf(p)
  BY DEF Touches, IInv, WriterInv
<1>1. ASSUME NEW u \in Update, Unresolved(u), StateOf(u) # "PREPARED"
      PROVE  Whole' \/ (Unresolved(u)' /\ StateOf(u)' # "PREPARED")
  <2>1. CASE StateOf(u)' \in Settled
    <3>1. Whole /\ call[p].at = "settle"
      BY <1>1, <2>1, SettledSo DEF Whole
    <3> QED
      BY <3>1, WholeStays
  <2>2. CASE StateOf(u)' \notin Settled
    <3>1. CASE journal'[u] = journal[u]
      BY <1>1, <3>1 DEF Unresolved, Exists, StateOf
    <3>2. CASE journal'[u] # journal[u]
      BY <1>1, <2>2, <3>2, StatesMove DEF Unresolved, Plans
    <3> QED
      BY <3>1, <3>2
  <2> QED
    BY <2>1, <2>2
<1>2. CASE call[p].at \in {"install", "rollback", "migrate", "restore"}
  <2>1. Unresolved(call[p].upd) /\ StateOf(call[p].upd) # "PREPARED" /\ call[p].upd \in Update
    BY <1>0, <1>2, WritesUnresolved DEF Writing, Reached, PlaceOf
  <2> QED
    BY <1>1, <2>1
<1>3. CASE call[p].at \notin {"install", "rollback", "migrate", "restore"} /\ Whole
  BY <1>3, WholeStays
<1> QED
  BY <1>1, <1>2, <1>3 DEF IInv, PackageInv

\* While an update is only prepared, the package is the one it starts from.
LEMMA PreparedStays ==
  ASSUME IInv, NEW p \in Process, Touches(p), Writes(p), NEW u \in Update,
         Exists(u)', StateOf(u)' = "PREPARED"
  PROVE  package' = {journal'[u].from}
<1>0. p \in alive /\ PlaceOf(p)
  BY DEF Touches, IInv, WriterInv
<1>1. CASE journal'[u] = journal[u]
  <2>1. Exists(u) /\ StateOf(u) = "PREPARED"
    BY <1>1 DEF Exists, StateOf
  <2>2. call[p].at \notin {"install", "rollback"}
    <3>1. SUFFICES ASSUME call[p].at \in {"install", "rollback"}
                   PROVE  FALSE
      OBVIOUS
    <3>2. /\ Unresolved(call[p].upd) /\ StateOf(call[p].upd) # "PREPARED"
          /\ call[p].upd \in Update
      BY <1>0, <3>1, WritesUnresolved DEF Writing, Reached, PlaceOf
    <3> QED
      BY <2>1, <3>2 DEF IInv, OneUnresolved, Unresolved, Settled
  <2>3. package' = package
    BY <2>2 DEF Touches
  <2> QED
    BY <1>1, <2>1, <2>3 DEF IInv, PackageInv
<1>2. CASE /\ call[p].at = "writePlan"
           /\ \E release \in package : journal'[u] = NewPlan(release, call[p].copy)
  <2>1. PICK release \in package : journal'[u] = NewPlan(release, call[p].copy)
    BY <1>2
  <2>2. package = {release}
    BY <1>0, <1>2, PlanFresh DEF Whole
  <2>3. package' = package /\ journal'[u].from = release
    BY <1>2, <2>1 DEF Touches, NewPlan
  <2> QED
    BY <2>2, <2>3
<1> QED
  BY <1>1, <1>2, StatesMove

\* A journal does not get a second writer.
LEMMA WritersStay ==
  ASSUME IInv, NEW p \in Process, Sound(p)
  PROVE  (\A u \in bound' : Exists(u)') /\ OneWrites'
<1>0. p \in alive /\ Touches(p) /\ Writes(p) /\ alive \subseteq Process /\ bound \subseteq Update
  BY DEF Sound, Touches, IInv, JournalReadable, TypeOK
<1>1. ASSUME NEW u \in bound'
      PROVE  Exists(u)'
  <2>1. u \in Update /\ Exists(u)
    <3>1. CASE u \in bound
      BY <1>0, <3>1 DEF IInv, WriterInv
    <3>2. CASE call[p].at = "bind" /\ u = call[p].upd
      BY <1>0, <3>2, Being DEF Planned
    <3> QED
      BY <1>0, <1>1, <3>1, <3>2 DEF Touches
  <2> QED
    BY <1>0, <2>1, StatesMove
<1>2. ASSUME NEW q \in alive', NEW r \in alive', q # r,
             {call'[q].at, call'[r].at} \subseteq Writing, call'[q].upd = call'[r].upd
      PROVE  FALSE
  <2>1. q \in alive /\ r \in alive
    BY <1>0 DEF Touches
  <2>2. ASSUME NEW s \in alive', call'[s].at \in Writing
        PROVE  /\ call'[s].upd = call[s].upd
               /\ call[s].at \in Writing \/ (s = p /\ call[s].at = "begin")
    BY <1>0, <2>2 DEF Touches, Moves
  <2>3. CASE call[q].at \in Writing /\ call[r].at \in Writing
    BY <1>2, <2>1, <2>2, <2>3 DEF IInv, WriterInv, OneWrites
  <2>4. ASSUME NEW s \in alive, s # p, call[s].at \in Writing, call[p].at = "begin",
               call[s].upd = call[p].upd
        PROVE  FALSE
    <3>1. PlaceOf(p) /\ PlaceOf(s) /\ LeaseOf(p)
      BY <1>0 DEF IInv, WriterInv, LeaseInv
    <3>2. StateOf(call[s].upd) = "PREPARED" /\ coord = p
      BY <2>4, <3>1 DEF PlaceOf, Reached, LeaseOf, Coordinating, Maintaining
    <3> QED
      BY <2>4, <3>1, <3>2 DEF Writing, PlaceOf, Reached, InFlight
  <2> QED
    BY <1>2, <2>1, <2>2, <2>3, <2>4
<1> QED
  BY <1>1, <1>2 DEF OneWrites

\* A runtime that is not stopped has the lease.
LEMMA LeasesStay ==
  ASSUME IInv, NEW p \in Process, Sound(p)
  PROVE  \A q \in Process : Using(q)'
<1>1. ASSUME NEW q \in Process, q # p
      PROVE  Using(q)'
  BY <1>1 DEF Sound, Touches, IInv, LeaseInv, Using
<1> QED
  BY <1>1 DEF Sound

\* Whatever is sound keeps the invariant.
LEMMA SoundKeeps ==
  ASSUME IInv, NEW p \in Process, Sound(p)
  PROVE  IInv'
<1>1. Touches(p) /\ Writes(p) /\ TypeOK'
  BY DEF Sound
<1>2. ASSUME NEW q \in alive'
      PROVE  LeaseOf(q)' /\ PlaceOf(q)' /\ WorkOf(q)' /\ RecordOf(q)' /\ PackageOf(q)'
  BY OthersStay DEF Sound, Mine
<1>3. LeaseInv'
  BY <1>2, LeasesStay DEF LeaseInv, Using
<1>4. WriterInv'
  BY <1>2, WritersStay DEF WriterInv
<1>5. WorkInv'
  BY <1>1, <1>2 DEF WorkInv, Touches
<1>6. NeverBlindly' /\ RecordInv'
  BY <1>1, <1>2, RecordStays DEF RecordInv
<1>7. PackageInv'
  BY <1>1, <1>2, PackageStays, PreparedStays DEF PackageInv
<1> QED
  BY <1>1, <1>3, <1>4, <1>5, <1>6, <1>7, ReadableStays, OneStays DEF IInv

-----------------------------------------------------------------------------
(* The invariant, and the theorems *)

\* Every step of prepare() and apply() is sound.
LEMMA StepIsSound ==
  ASSUME IInv, NEW p \in Process, Step(p)
  PROVE  Sound(p)
<1>1. CASE Scan(p)
  BY <1>1, ScanStep
<1>2. CASE Snapshot(p)
  BY <1>2, SnapshotStep
<1>3. CASE QuitForUpdate(p)
  BY <1>3, QuitForUpdateStep
<1>4. CASE Fingerprint(p)
  BY <1>4, FingerprintStep
<1>5. CASE \E u \in Update : WritePlan(p, u)
  BY <1>5, WritePlanStep
<1>6. CASE EndPrepare(p)
  BY <1>6, EndPrepareStep
<1>7. CASE Bind(p)
  BY <1>7, BindStep
<1>8. CASE MarkPrepare(p)
  BY <1>8, MarkPrepareStep
<1>9. CASE Coordinate(p)
  BY <1>9, CoordinateStep
<1>10. CASE Recheck(p)
  BY <1>10, RecheckStep
<1>11. CASE Hold(p)
  BY <1>11, HoldStep
<1>12. CASE Verify(p)
  BY <1>12, VerifyStep
<1>13. CASE Begin(p)
  BY <1>13, BeginStep
<1>14. CASE Install(p)
  BY <1>14, InstallStep
<1>15. CASE RecordInstall(p)
  BY <1>15, RecordInstallStep
<1>16. CASE Migrate(p)
  BY <1>16, MigrateStep
<1>17. CASE Validate(p)
  BY <1>17, ValidateStep
<1>18. CASE Compensate(p)
  BY <1>18, CompensateStep
<1>19. CASE Rollback(p)
  BY <1>19, RollbackStep
<1>20. CASE RecordRollback(p)
  BY <1>20, RecordRollbackStep
<1>21. CASE Restore(p)
  BY <1>21, RestoreStep
<1>22. CASE RecordRestore(p)
  BY <1>22, RecordRestoreStep
<1>23. CASE ReleaseHold(p)
  BY <1>23, ReleaseHoldStep
<1>24. CASE Mark(p)
  BY <1>24, MarkStep
<1>25. CASE ReleaseCoord(p)
  BY <1>25, ReleaseCoordStep
<1>26. CASE Settle(p)
  BY <1>26, SettleStep
<1>27. CASE Finish(p)
  BY <1>27, FinishStep
<1>28. CASE Unexpected(p)
  BY <1>28, UnexpectedStep
<1>29. CASE DropHold(p)
  BY <1>29, DropHoldStep
<1>30. CASE DropCoord(p)
  BY <1>30, DropCoordStep
<1>31. CASE Guard(p)
  BY <1>31, GuardStep
<1>32. CASE GuardMark(p)
  BY <1>32, GuardMarkStep
<1> QED
  BY <1>1, <1>2, <1>3, <1>4, <1>5, <1>6, <1>7, <1>8, <1>9, <1>10, <1>11, <1>12, <1>13,
     <1>14, <1>15, <1>16, <1>17, <1>18, <1>19, <1>20, <1>21, <1>22, <1>23, <1>24, <1>25,
     <1>26, <1>27, <1>28, <1>29, <1>30, <1>31, <1>32 DEF Step

\* So is every step of the system.
LEMMA EveryStepSound ==
  ASSUME IInv, Next
  PROVE  \E p \in Process : Sound(p)
<1>1. PICK p \in Process : \/ Step(p) \/ Launch(p) \/ Quit(p) \/ Work(p) \/ End(p) \/ CallPrepare(p)
                           \/ CreateSnapshot(p) \/ MigrateStandalone(p)
                           \/ \E u \in Update : CallApply(p, u)
  BY DEF Next
<1>2. CASE Step(p)
  BY <1>2, StepIsSound
<1>3. CASE Launch(p)
  BY <1>3, LaunchStep
<1>4. CASE Quit(p)
  BY <1>4, QuitStep
<1>5. CASE Work(p)
  BY <1>5, WorkStep
<1>6. CASE End(p)
  BY <1>6, EndStep
<1>7. CASE CallPrepare(p)
  BY <1>7, CallPrepareStep
<1>8. CASE \E u \in Update : CallApply(p, u)
  BY <1>8, CallApplyStep
<1>9. CASE CreateSnapshot(p)
  BY <1>9, CreateSnapshotStep
<1>10. CASE MigrateStandalone(p)
  BY <1>10, MigrateStandaloneStep
<1> QED
  BY <1>1, <1>2, <1>3, <1>4, <1>5, <1>6, <1>7, <1>8, <1>9, <1>10

\* Every step keeps the invariant.
LEMMA NextKeeps == IInv /\ [Next]_vars => IInv'
<1> SUFFICES ASSUME IInv, [Next]_vars
             PROVE  IInv'
  OBVIOUS
<1>1. CASE Next
  BY <1>1, EveryStepSound, SoundKeeps
<1>2. CASE UNCHANGED vars
  BY <1>2 DEF vars, IInv, JournalReadable, TypeOK, LeaseInv, LeaseOf, WriterInv, PlaceOf,
     OneWrites,
     Planned, PlannedOK, OneUnresolved, WorkInv, WorkOf, NeverBlindly,
     RecordInv, RecordOf, PackageInv, PackageOf, Whole, Unresolved, Exists, StateOf, Target
<1> QED
  BY <1>1, <1>2

\* The invariant holds at first.
LEMMA InitHolds == Init => IInv
<1> SUFFICES ASSUME Init
             PROVE  IInv
  OBVIOUS
<1>1. TypeOK
  BY UpdateAssumption DEF Init, TypeOK, Idle, Calls, Database, Release
<1>2. \A p \in Process : call[p] = Idle
  BY DEF Init
<1>3. \A u \in Update : ~Exists(u) /\ asked[u] = <<>>
  BY DEF Init, Exists
<1>4. JournalReadable /\ OneUnresolved /\ NeverBlindly
  BY <1>1, <1>3 DEF JournalReadable, OneUnresolved, Unresolved, NeverBlindly
<1>5. LeaseInv
  BY <1>2 DEF Init, LeaseInv, LeaseOf, Idle, Maintaining, Coordinating, Keeping, Stopped
<1>6. \A p \in alive : PlaceOf(p)
  BY <1>2 DEF Init, PlaceOf, Idle, Planned, Applying, Reached
<1>7. WriterInv
  BY <1>2, <1>6 DEF Init, WriterInv, OneWrites, Idle, Writing, Reached
<1>8. WorkInv
  BY <1>2 DEF Init, WorkInv, WorkOf, Changing, Idle
<1>9. RecordInv
  BY <1>2, <1>3 DEF Init, RecordInv, RecordOf, Idle, Maintaining, Keeping
<1>10. PackageInv
  BY <1>2, <1>3 DEF Init, PackageInv, PackageOf, Whole, Idle
<1> QED
  BY <1>4, <1>5, <1>7, <1>8, <1>9, <1>10 DEF IInv

\* Every part of the inductive invariant holds in every reachable state.
THEOREM UpdateInvariant == Spec => []IInv
  BY InitHolds, NextKeeps, PTL DEF Spec

\* No commit of the artist's work is lost to an update, whoever works on while it is
\* prepared, and whoever replaces the one snapshot meanwhile: the database holds all that
\* was worked, and so does the snapshot a change of the package may be undone with, from
\* the check to the restore.
THEOREM WorkIsSafe == Spec => []WorkSafe
<1>1. IInv => WorkSafe
  BY DEF IInv, WorkInv, WorkOf, WorkSafe
<1> QED
  BY <1>1, UpdateInvariant, PTL

\* Two processes never write of one journal.
LEMMA OneWriterHolds == IInv => OneWriter
<1> SUFFICES ASSUME IInv, NEW p \in alive, NEW q \in alive,
                    {call[p].at, call[q].at} \subseteq Writers, call[p].upd = call[q].upd
             PROVE  p = q
  BY DEF OneWriter
<1>1. ASSUME NEW r \in alive
      PROVE  PlaceOf(r) /\ LeaseOf(r)
  BY DEF IInv, WriterInv, LeaseInv
<1>2. ASSUME NEW r \in alive, NEW s \in alive, call[r].at = "begin", call[r].upd = call[s].upd,
             call[s].at \in Writing
      PROVE  r = s
  <2>1. StateOf(call[r].upd) = "PREPARED" /\ coord = r
    BY <1>1, <1>2 DEF PlaceOf, Reached, LeaseOf, Coordinating, Maintaining
  <2> QED
    BY <1>1, <1>2, <2>1 DEF PlaceOf, Writing, Reached, InFlight
<1>3. CASE call[p].at = "markPrepare" \/ call[q].at = "markPrepare"
  BY <1>1, <1>3 DEF PlaceOf, Planned, PlannedOK
<1>4. CASE call[p].at \in Writing /\ call[q].at \in Writing
  BY <1>4 DEF IInv, WriterInv, OneWrites
<1>5. CASE call[p].at = "begin" /\ call[q].at = "begin"
  BY <1>1, <1>5 DEF LeaseOf, Coordinating, Maintaining
<1> QED
  BY <1>2, <1>3, <1>4, <1>5 DEF Writers, Writing, Reached

\* A profile never has two unresolved updates, and a journal has one writer at a time,
\* whatever processes end in whatever part of prepare and apply.
THEOREM UpdatesGoOneByOne == Spec => []OneUpdate
<1>1. IInv => OneUpdate
  BY OneWriterHolds DEF IInv, OneUpdate
<1> QED
  BY <1>1, UpdateInvariant, PTL

\* The package driver is asked to install once, and to roll back at most once, and only
\* what it said it changed.
THEOREM DriverIsAskedOnce == Spec => []NeverBlindly
<1>1. IInv => NeverBlindly
  BY DEF IInv
<1> QED
  BY <1>1, UpdateInvariant, PTL

\* Every journal that is written can be read again: its history follows the transition
\* table and has the evidence its state calls for.
THEOREM JournalsAreReadable == Spec => []JournalReadable
<1>1. IInv => JournalReadable
  BY DEF IInv
<1> QED
  BY <1>1, UpdateInvariant, PTL

\* What a journal says when it is settled is so at that moment, although both leases
\* have been given back by then.
THEOREM SettledIsTrue == Spec => SettledTruth
<1>1. ASSUME IInv, [Next]_vars
      PROVE  [\A u \in Update : Unresolved(u) /\ StateOf(u)' \in Settled =>
                LET release == IF StateOf(u)' = "SUCCEEDED" THEN Target(u) ELSE journal[u].from
                IN  package = {release} /\ db.schema = due]_vars
  <2>1. CASE UNCHANGED vars
    BY <2>1
  <2>2. CASE Next
    <3>1. PICK p \in Process : Touches(p) /\ Writes(p)
      BY <1>1, <2>2, EveryStepSound DEF Sound
    <3> QED
      BY <1>1, <3>1, SettledSo
  <2> QED
    BY <1>1, <2>1, <2>2
<1> QED
  BY <1>1, UpdateInvariant, PTL DEF Spec, SettledTruth

-----------------------------------------------------------------------------
(* What a runtime works on, where at most one journal write fails *)

\* While an update is prepared and no other is in flight, the package is whole.
LEMMA PreparedWhole ==
  ASSUME IInv, NEW u \in Update, Unresolved(u), StateOf(u) = "PREPARED"
  PROVE  Whole
BY DEF IInv, PackageInv, OneUnresolved

\* Who comes to a way out of apply has the lease, or leaves a whole package.
LEMMA WholeHere ==
  ASSUME IInv, WholeInv, MaxFailures <= 1, NEW p \in Process, Sound(p), p \in alive'
  PROVE  WholeOf(p)'
<1>0. /\ p \in alive /\ Touches(p) /\ Comes(p) /\ TypeOK
      /\ LeaseOf(p) /\ PlaceOf(p) /\ PackageOf(p) /\ WholeOf(p)
  BY DEF Sound, Touches, IInv, LeaseInv, WriterInv, PackageInv, WholeInv, JournalReadable
<1>1. Whole /\ call[p].at \notin {"install", "rollback", "migrate", "restore"} => Whole'
  BY <1>0, WholeStays
<1>2. hold = p /\ call[p].at \in Stopped \ {"releaseHold", "dropHold"} => hold' = p
  BY <1>0 DEF Comes, LeaseOf, Stopped
<1>7. ASSUME call[p].at = "releaseHold", call'[p].at # "releaseHold"
      PROVE  Whole'
  BY <1>0, <1>7 DEF Touches, Comes, PackageOf, Whole
<1>3. ASSUME call'[p].at \in {"unexpected", "finish"}
      PROVE  hold' = p \/ Whole'
  <2>1. CASE call[p].at \in {"unexpected", "finish"}
    BY <1>0, <1>1, <1>2, <2>1 DEF WholeOf, Stopped
  <2>2. CASE call[p].at \in {"begin", "recordInstall", "open", "compensate", "recordRollback",
                             "recordRestore", "mark", "install", "rollback", "migrate", "restore",
                             "guard"}
    BY <1>0, <1>2, <2>2 DEF LeaseOf, Stopped, Keeping, Maintaining
  <2>3. CASE call[p].at \in {"releaseHold", "releaseCoord", "settle"}
    BY <1>0, <1>1, <1>3, <1>7, <2>3 DEF PackageOf, Whole
  <2> QED
    BY <1>0, <1>3, <2>1, <2>2, <2>3 DEF Comes, Writing, Reached
<1>4. ASSUME call'[p].at = "unexpected"
      PROVE  failures' > 0
  BY <1>0, <1>4 DEF Comes, WholeOf
<1>5. ASSUME call'[p].at = "dropHold"
      PROVE  hold' = p /\ Whole'
  <2>1. ASSUME call[p].at \in {"verify", "unexpected"}, StateOf(call[p].upd) = "PREPARED"
        PROVE  hold' = p /\ Whole'
    <3>1. call[p].upd \in Update /\ Unresolved(call[p].upd)
      BY <1>0, <2>1, Being DEF Applying, Unresolved, Settled
    <3>2. Whole
      BY <2>1, <3>1, PreparedWhole
    <3>3. hold = p
      BY <1>0, <2>1 DEF PlaceOf, LeaseOf, Keeping, Maintaining
    <3> QED
      BY <1>1, <1>2, <2>1, <3>2, <3>3 DEF Stopped, Keeping, Maintaining
  <2>2. CASE call[p].at = "verify"
    BY <1>0, <2>1, <2>2 DEF PlaceOf, Reached
  <2>3. CASE call[p].at = "unexpected"
    <3>1. ~(failures < MaxFailures)
      BY <1>0, <2>3, UpdateAssumption DEF WholeOf, TypeOK
    <3> QED
      BY <1>0, <1>5, <2>1, <2>3, <3>1 DEF Comes
  <2>4. CASE call[p].at = "dropHold"
    <3>1. call'[p].at = call[p].at /\ rt[p] = "STOPPED" /\ hold = p /\ Whole
      BY <1>0, <1>5, <2>4 DEF LeaseOf, Stopped, WholeOf
    <3>2. hold' = p
      BY <1>0, <1>5, <2>4, <3>1 DEF Comes
    <3> QED
      BY <1>1, <2>4, <3>1, <3>2
  <2> QED
    BY <1>0, <1>5, <2>2, <2>3, <2>4 DEF Comes
<1>6. ASSUME call'[p].at = "mark"
      PROVE  Whole'
  BY <1>0, <1>1, <1>6, <1>7 DEF Comes, WholeOf
<1> QED
  BY <1>3, <1>4, <1>5, <1>6 DEF WholeOf

\* No other process takes the package apart meanwhile.
LEMMA WholeThere ==
  ASSUME IInv, WholeInv, NEW p \in Process, Sound(p), NEW q \in alive' \ {p}
  PROVE  WholeOf(q)'
<1>0. /\ p \in alive /\ q \in alive /\ q # p /\ q \in Process /\ Touches(p) /\ Comes(p)
      /\ LeaseOf(p) /\ WholeOf(q)
  BY DEF Sound, Touches, IInv, LeaseInv, WholeInv, JournalReadable, TypeOK
<1>1. /\ call'[q] = call[q]
      /\ call[q].at \in Writing =>
           /\ package' = package
           /\ (db'.schema = db.schema /\ due' = due) \/ due' = db'.schema
  BY <1>0, WorldStays
<1>2. hold = q => hold' = q
  BY <1>0 DEF Touches
<1>3. call[q].at \in {"unexpected", "finish", "mark"} => (Whole => Whole')
  BY <1>1 DEF Whole, Writing, Reached
<1>4. hold = q => (Whole => Whole')
  BY <1>0 DEF Touches, LeaseOf, Keeping, Maintaining, Whole
<1> QED
  BY <1>0, <1>1, <1>2, <1>3, <1>4 DEF WholeOf, Comes

\* Whoever takes the package apart has the lease, and nobody else gets it.
LEMMA CoveredStays ==
  ASSUME IInv, WholeInv, NEW p \in Process, Sound(p)
  PROVE  Covered'
<1>0. /\ p \in alive /\ Touches(p) /\ Writes(p) /\ Comes(p) /\ Mine(p)'
      /\ PackageOf(p) /\ WholeOf(p) /\ asked \in [Update -> Seq(Asked)]
  BY DEF Sound, Touches, IInv, PackageInv, WholeInv, JournalReadable, TypeOK
<1>1. CASE package' # package \/ (db'.schema # db.schema /\ call[p].at # "idle")
  <2> DEFINE u == call[p].upd
  <2>1. /\ p \in alive' /\ call'[p].upd = u
        /\ call[p].at \in {"install", "rollback", "migrate", "restore"}
        /\ call'[p].at \in {"recordInstall", "recordRollback", "open", "compensate", "guard",
                            "recordRestore"}
    BY <1>0, <1>1 DEF Comes
  <2>2. u \in Update /\ Unresolved(u)
    BY <1>0, <2>1, WritesUnresolved DEF Writing, Reached
  <2>3. journal' = journal
    BY <1>0, <2>1 DEF Writes, Writers
  <2>4. Unresolved(u)'
    BY <2>1, <2>2, <2>3 DEF Unresolved, Exists, StateOf
  <2>5. asked'[u] # <<>> /\ asked'[u][1].by = p
    BY <1>0, <2>1 DEF Mine, RecordOf, Keeping, Maintaining
  <2>6. hold' = p /\ rt'[p] = "STOPPED"
    BY <1>0, <2>1 DEF Mine, LeaseOf, Keeping, Maintaining, Stopped
  <2>7. \E v \in Update : /\ journal'[v] # None /\ Last(journal'[v].history) \notin Settled
                          /\ asked'[v] # <<>> /\ asked'[v][1].by = p
    BY <2>1, <2>2, <2>4, <2>5 DEF Unresolved, Exists, StateOf
  <2> QED
    BY <2>6, <2>7 DEF Covered, Unresolved, Exists, StateOf
<1>2. CASE Whole'
  BY <1>2 DEF Covered
<1>3. CASE ~Whole' /\ package' = package /\ (db'.schema = db.schema \/ call[p].at = "idle")
  <2>7. ~Whole
    BY <1>0, <1>3 DEF Touches, Whole
  <2>1. PICK u \in Update : /\ Unresolved(u) /\ asked[u] # <<>>
                            /\ asked[u][1].by \in alive =>
                                 hold = asked[u][1].by /\ rt[asked[u][1].by] = "STOPPED"
    BY <2>7 DEF WholeInv, Covered
  <2>2. StateOf(u)' \notin Settled
    BY <1>0, <2>1, <2>7, SettledSo DEF Whole
  <2>3. Unresolved(u)'
    BY <1>0, <2>1, <2>2, StatesMove DEF Unresolved
  <2>0. asked[u] \in Seq(Asked) /\ Len(asked[u]) >= 1
    BY <1>0, <2>1
  <2>4. asked'[u] # <<>> /\ asked'[u][1] = asked[u][1]
    <3>1. CASE asked'[u] = asked[u]
      BY <2>1, <3>1
    <3>2. CASE \E r \in Asked : asked'[u] = Append(asked[u], r)
      BY <2>0, <3>2
    <3> QED
      BY <1>0, <3>1, <3>2 DEF Touches
  <2> DEFINE q == asked[u][1].by
  <2>5. asked[u][1] \in Asked /\ q \in Process
    <3>1. asked[u][1] \in Asked
      BY <2>0
    <3> QED
      BY <3>1 DEF Asked
  <2>6. q \in alive' => hold' = q /\ rt'[q] = "STOPPED"
    <3>1. SUFFICES ASSUME q \in alive'
                   PROVE  hold' = q /\ rt'[q] = "STOPPED"
      OBVIOUS
    <3>2. q \in alive /\ hold = q /\ rt[q] = "STOPPED"
      BY <1>0, <2>1, <3>1 DEF Touches
    <3>3. CASE q # p
      BY <1>0, <2>5, <3>2, <3>3 DEF Touches
    <3>4. CASE q = p
      <4>1. call[p].at # "dropHold"
        BY <1>0, <2>7 DEF WholeOf
      <4>2. call[p].at = "releaseHold" => call'[p].at = "releaseHold"
        BY <1>0, <1>3 DEF Touches, Comes, PackageOf, Whole
      <4> QED
        BY <1>0, <3>2, <3>4, <4>1, <4>2 DEF Comes, IInv, JournalReadable, TypeOK
    <3> QED
      BY <3>3, <3>4
  <2> QED
    BY <2>3, <2>4, <2>6 DEF Covered
<1> QED
  BY <1>1, <1>2, <1>3

\* Every step keeps it, where at most one journal write fails.
LEMMA WholeKeeps == MaxFailures <= 1 /\ IInv /\ WholeInv /\ [Next]_vars => WholeInv'
<1> SUFFICES ASSUME MaxFailures <= 1, IInv, WholeInv, [Next]_vars
             PROVE  WholeInv'
  OBVIOUS
<1>1. CASE Next
  <2>1. PICK p \in Process : Sound(p)
    BY <1>1, EveryStepSound
  <2> QED
    BY <2>1, WholeHere, WholeThere, CoveredStays DEF WholeInv
<1>2. CASE UNCHANGED vars
  BY <1>2 DEF vars, WholeInv, Covered, WholeOf, Whole, Unresolved, Exists, StateOf
<1> QED
  BY <1>1, <1>2

\* A runtime works only on a whole package and the database that belongs to it, unless
\* the process that changed them has ended, where at most one write of a journal fails:
\* with two, the process that could not record its change gives its lease away.
THEOREM RunningIsOnWhole ==
  ASSUME MaxFailures <= 1
  PROVE  Spec => []RunningSeesWhole
<1>1. Init => WholeInv
  BY DEF Init, WholeInv, Covered, Whole, WholeOf, Idle
<1>2. IInv /\ WholeInv => RunningSeesWhole
  BY DEF IInv, LeaseInv, WholeInv, Covered, Whole, RunningSeesWhole
<1>3. IInv /\ WholeInv /\ [Next]_vars => WholeInv'
  BY WholeKeeps
<1> QED
  BY <1>1, <1>2, <1>3, UpdateInvariant, PTL DEF Spec
=============================================================================
