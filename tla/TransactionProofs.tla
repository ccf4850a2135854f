-------------------------- MODULE TransactionProofs --------------------------
(***************************************************************************)
(* Proofs about TransactionCoordinator and TransactionHistory, for any sets *)
(* of operations, transactions and sessions, any length of plan and any     *)
(* choice of the steps that can be compensated.                             *)
(***************************************************************************)
EXTENDS TransactionHistory, FiniteSetTheorems, TLAPS

-----------------------------------------------------------------------------
(* What one step leaves alone *)

\* Every step of a session.
Acts(s) == Step(s) \/ Crash(s) \/ \E t \in Txn, o \in Operation : CallRun(s, t, o)

\* A session writes no local variable of another.
LEMMA RunFrame ==
  ASSUME TypeOK, NEW s \in Session, Acts(s), NEW r \in Session \ {s}
  PROVE  run'[r] = run[r]
BY DEF Acts, Step, TypeOK, Crash, CallRun, RegisterPlan, RefusePlan, SnapshotFails,
       SafeFailure, CaptureSnapshot, StartStep, ExecuteStep, RecordStep,
       VerifyPostcondition, SuccessReceipt, SkipStep, StartCompensation, CompensateStep,
       RecordCompensation, CompensationEnds, RequireRecovery, Finish, Goto, Leave, Compensate, Becomes

\* Only RegisterPlan writes the table of transactions.
LEMMA PlansFrame ==
  ASSUME NEW s \in Session, Acts(s), ~RegisterPlan(s)
  PROVE  plans' = plans
BY DEF Acts, Step, Crash, CallRun, RefusePlan, SnapshotFails,
       SafeFailure, CaptureSnapshot, StartStep, ExecuteStep, RecordStep,
       VerifyPostcondition, SuccessReceipt, SkipStep, StartCompensation, CompensateStep,
       RecordCompensation, CompensationEnds, RequireRecovery, Finish

\* Only the driver's calls change the host, and only ExecuteStep counts.
LEMMA HostFrame ==
  ASSUME NEW s \in Session, Acts(s)
  PROVE  /\ ~ExecuteStep(s) => execs' = execs
         /\ ~ExecuteStep(s) /\ ~CompensateStep(s) => effect' = effect
BY DEF Acts, Step, Crash, CallRun, RegisterPlan, RefusePlan, SnapshotFails,
       SafeFailure, CaptureSnapshot, StartStep, RecordStep,
       VerifyPostcondition, SuccessReceipt, SkipStep, StartCompensation, CompensateStep,
       RecordCompensation, CompensationEnds, RequireRecovery, Finish

\* Only the end of a run() reports to the journal.
LEMMA StatusFrame ==
  ASSUME NEW s \in Session, Acts(s)
  PROVE  \/ status' = status
         \/ \E at, outcome : Finish(s, at, outcome)
BY DEF Acts, Step, Crash, CallRun, RegisterPlan, RefusePlan, SnapshotFails,
       SafeFailure, CaptureSnapshot, StartStep, ExecuteStep, RecordStep,
       VerifyPostcondition, SuccessReceipt, SkipStep, StartCompensation, CompensateStep,
       RecordCompensation, CompensationEnds, RequireRecovery

-----------------------------------------------------------------------------
(* Type correctness *)

\* An appended event keeps the tables typed.
LEMMA LogType ==
  ASSUME TypeOK, NEW s \in Session, run[s].txn \in Txn, NEW e \in Events, Log(s, e)
  PROVE  events' \in [Txn -> Seq(Events)]
BY DEF TypeOK, Log

\* A session that owns a transaction names it and its operation.
LEMMA OwnerNamed ==
  ASSUME TypeOK, OwnerInv, NEW s \in Session, ~At(s, "idle")
  PROVE  run[s].txn \in Txn /\ run[s].op \in Operation
BY DEF OwnerInv, OwnerOK

\* A session moves from one record of Runs to another.
LEMMA RunType ==
  ASSUME TypeOK, OwnerInv, NEW s \in Session, Acts(s)
  PROVE  \E r \in Runs : Becomes(s, r)
<1> USE PlanAssumption DEF Goto, Leave, Compensate
<1>0. run[s] \in Runs /\ (~At(s, "idle") => run[s].txn \in Txn /\ run[s].op \in Operation)
  BY OwnerNamed DEF TypeOK
<1>a. NoRun \in Runs
  BY DEF NoRun, Runs, Steps, Statuses, Changes
<1>b. \A pc \in Owning : [run[s] EXCEPT !.pc = pc] \in Runs
  BY <1>0 DEF Runs
<1>c. \A todo \in SUBSET Steps, rec \in BOOLEAN :
        [run[s] EXCEPT !.pc = "compensate", !.todo = todo, !.recovery = rec] \in Runs
  BY <1>0 DEF Runs, Owning, Backward
<1>1. CASE Crash(s) \/ RefusePlan(s) \/ \E at, outcome : Finish(s, at, outcome)
  BY <1>1, <1>a DEF Crash, RefusePlan, Finish
<1>2. CASE \E t \in Txn, o \in Operation : CallRun(s, t, o)
  <2>1. PICK t \in Txn, o \in Operation : CallRun(s, t, o)
    BY <1>2
  <2>2. [NoRun EXCEPT !.pc = "register", !.txn = t, !.op = o] \in Runs
    BY <1>a DEF Runs
  <2> QED
    BY <2>1, <2>2 DEF CallRun
<1>3. CASE RegisterPlan(s) \/ SnapshotFails(s) \/ SafeFailure(s) \/ CaptureSnapshot(s)
           \/ StartStep(s) \/ CompensationEnds(s) \/ RequireRecovery(s)
  BY <1>3, <1>b DEF RegisterPlan, SnapshotFails, SafeFailure, CaptureSnapshot,
     StartStep, CompensationEnds, RequireRecovery, Owning, Forward, Backward
<1>4. CASE ExecuteStep(s)
  <2>1. PICK applied \in BOOLEAN : \E a \in Answers(applied) :
          Becomes(s, [run[s] EXCEPT !.pc = "record", !.status = a.status, !.change = a.change])
    BY <1>4 DEF ExecuteStep
  <2>2. \A a \in Answers(applied) : a.status \in Statuses /\ a.change \in Changes
    BY DEF Answers, Statuses, Changes
  <2>3. \A a \in Answers(applied) :
          [run[s] EXCEPT !.pc = "record", !.status = a.status, !.change = a.change] \in Runs
    BY <1>0, <2>2 DEF Runs, Owning, Forward
  <2> QED
    BY <2>1, <2>3
<1>5. CASE RecordStep(s)
  <2> DEFINE changed == IF run[s].change = "APPLIED" THEN run[s].todo \cup {run[s].cur}
                        ELSE run[s].todo
  <2>1. changed \in SUBSET Steps
    BY <1>0 DEF Runs
  <2>2. [run[s] EXCEPT !.pc = "verify", !.todo = changed] \in Runs
    BY <1>0, <2>1 DEF Runs, Owning, Forward
  <2>3. \/ Becomes(s, [run[s] EXCEPT !.pc = "verify", !.todo = changed])
        \/ \E rec \in BOOLEAN :
             Becomes(s, [run[s] EXCEPT !.pc = "compensate", !.todo = changed, !.recovery = rec])
    BY <1>5 DEF RecordStep
  <2> QED
    BY <2>1, <2>2, <2>3, <1>c
<1>6. CASE VerifyPostcondition(s)
  <2>1. run[s].todo \in SUBSET Steps
    BY <1>0 DEF Runs
  <2>2. \/ \E rec \in BOOLEAN :
             Becomes(s, [run[s] EXCEPT !.pc = "compensate", !.todo = run[s].todo, !.recovery = rec])
        \/ /\ run[s].cur < NumSteps
           /\ Becomes(s, [run[s] EXCEPT !.pc = "start", !.cur = run[s].cur + 1])
        \/ Goto(s, "receipt")
    BY <1>6 DEF VerifyPostcondition
  <2>3. run[s].cur < NumSteps => [run[s] EXCEPT !.pc = "start", !.cur = run[s].cur + 1] \in Runs
    <3>1. run[s].cur < NumSteps => run[s].cur + 1 \in Steps
      BY <1>0 DEF Runs, Steps
    <3> QED
      BY <1>0, <3>1 DEF Runs, Owning, Forward
  <2> QED
    BY <2>1, <2>2, <2>3, <1>b, <1>c DEF Owning, Forward
<1>7. CASE SuccessReceipt(s)
  <2>1. run[s].todo \in SUBSET Steps
    BY <1>0 DEF Runs
  <2> QED
    BY <1>7, <2>1, <1>b, <1>c DEF SuccessReceipt, Owning, Forward
<1>8. ASSUME NEW i \in Steps, SkipStep(s, i) \/ StartCompensation(s, i)
      PROVE  \E r \in Runs : Becomes(s, r)
  <2>1. [run[s] EXCEPT !.todo = run[s].todo \ {i}, !.recovery = TRUE] \in Runs
    BY <1>0 DEF Runs
  <2>2. [run[s] EXCEPT !.pc = "undo", !.cur = i] \in Runs
    BY <1>0 DEF Runs, Owning, Backward
  <2> QED
    BY <1>8, <2>1, <2>2 DEF SkipStep, StartCompensation
<1>9. CASE CompensateStep(s)
  <2>1. \A st \in Statuses : [run[s] EXCEPT !.pc = "recordUndo", !.status = st] \in Runs
    BY <1>0 DEF Runs, Owning, Backward
  <2> QED
    BY <1>9, <2>1 DEF CompensateStep, Statuses
<1>10. CASE RecordCompensation(s)
  <2>1. [run[s] EXCEPT !.pc = "compensate", !.todo = run[s].todo \ {run[s].cur},
                       !.recovery = run[s].recovery \/ run[s].status # "RESTORED"] \in Runs
    BY <1>0 DEF Runs, Owning, Backward
  <2> QED
    BY <1>10, <2>1 DEF RecordCompensation
<1> QED
  BY <1>1, <1>2, <1>3, <1>4, <1>5, <1>6, <1>7, <1>8, <1>9, <1>10 DEF Acts, Step

\* TypeOK is inductive with OwnerInv, which keeps the names a session uses in
\* range.
LEMMA TypeStep ==
  ASSUME TypeOK, OwnerInv, NEW s \in Session, Acts(s)
  PROVE  TypeOK'
<1> USE PlanAssumption
<1>1. run[s] \in Runs /\ (~At(s, "idle") => run[s].txn \in Txn /\ run[s].op \in Operation)
  BY OwnerNamed DEF TypeOK
<1>2. run' \in [Session -> Runs]
  BY RunType DEF TypeOK, Becomes
<1>3. events' \in [Txn -> Seq(Events)]
  <2>1. /\ run[s].cur \in 0..NumSteps /\ run[s].status \in Statuses /\ run[s].change \in Changes
        /\ \A i \in Steps : i \in 0..NumSteps
    BY <1>1 DEF Runs, Steps
  <2>2. \A type \in Types, i \in 0..NumSteps, st \in Statuses, ch \in Changes :
          Event(type, i, st, ch) \in Events
    BY DEF Event, Events
  <2>3. \A type \in Types : Bare(type) \in Events /\ \A i \in Steps : OfStep(type, i) \in Events
    BY <2>1, <2>2 DEF Bare, OfStep, Statuses, Changes
  <2>4. events' = events \/ \E e \in Events : Log(s, e) /\ ~At(s, "idle")
    <3>1. CASE RegisterPlan(s) \/ SafeFailure(s) \/ CaptureSnapshot(s) \/ RequireRecovery(s)
      BY <3>1, <2>3 DEF RegisterPlan, SafeFailure, CaptureSnapshot, RequireRecovery, At, Types
    <3>2. CASE StartStep(s) \/ \E i \in Steps : StartCompensation(s, i)
      BY <3>2, <1>1, <2>3 DEF StartStep, StartCompensation, At, Types, Runs
    <3>3. CASE RecordStep(s) \/ VerifyPostcondition(s) \/ RecordCompensation(s)
      BY <3>3, <2>1, <2>2 DEF RecordStep, VerifyPostcondition, RecordCompensation, At,
         Types, Statuses, Changes
    <3> QED
      BY <3>1, <3>2, <3>3 DEF Acts, Step, Crash, CallRun, RefusePlan, SnapshotFails,
         ExecuteStep, SuccessReceipt, SkipStep, CompensateStep, CompensationEnds, Finish
  <2> QED
    BY <1>1, <2>4, LogType DEF TypeOK
<1>4. status' \in [Operation -> J!States]
  <2>1. CASE \E at, outcome : Finish(s, at, outcome)
    BY <2>1 DEF TypeOK, Finish, J!Record, J!Move, J!Outcomes, J!States
  <2> QED
    BY <2>1, StatusFrame DEF TypeOK
<1>5. plans' \in [Txn -> Operation \cup {None}]
  BY <1>1, PlansFrame DEF TypeOK, RegisterPlan, At
<1>6. effect' \in [Txn -> [Steps -> {"none", "applied", "undone"}]]
  <2> DEFINE t == run[s].txn
             i == run[s].cur
             Host == [Txn -> [Steps -> {"none", "applied", "undone"}]]
  <2>1. CASE ExecuteStep(s)
    <3>1. [effect EXCEPT ![t][i] = "applied"] \in Host
      BY <1>1 DEF TypeOK, Runs
    <3> QED
      BY <2>1, <3>1 DEF TypeOK, ExecuteStep
  <2>2. CASE CompensateStep(s)
    <3>1. [effect EXCEPT ![t][i] = "undone"] \in Host
      BY <1>1 DEF TypeOK, Runs
    <3> QED
      BY <2>2, <3>1 DEF TypeOK, CompensateStep
  <2> QED
    BY <2>1, <2>2, HostFrame DEF TypeOK
<1>7. execs' \in [Operation -> [Steps -> Nat]]
  <2>1. CASE ExecuteStep(s)
    <3>1. run[s].op \in Operation /\ run[s].cur \in Steps
      BY <1>1, <2>1 DEF ExecuteStep, At, Runs
    <3>2. execs[run[s].op][run[s].cur] + 1 \in Nat
      BY <3>1 DEF TypeOK
    <3> QED
      BY <2>1, <3>1, <3>2 DEF TypeOK, ExecuteStep
  <2> QED
    BY <2>1, HostFrame DEF TypeOK
<1> QED
  BY <1>2, <1>3, <1>4, <1>5, <1>6, <1>7 DEF TypeOK
-----------------------------------------------------------------------------
(* Who owns a transaction *)

\* Goto moves the program counter, and nothing else.
LEMMA GotoMoves ==
  ASSUME TypeOK, NEW s \in Session, NEW to, Goto(s, to)
  PROVE  run'[s] = [run[s] EXCEPT !.pc = to] /\ run'[s].pc = to
         /\ run'[s].txn = run[s].txn /\ run'[s].op = run[s].op /\ run'[s].cur = run[s].cur
         /\ run'[s].todo = run[s].todo /\ run'[s].recovery = run[s].recovery
         /\ run'[s].status = run[s].status /\ run'[s].change = run[s].change
BY DEF TypeOK, Runs, Goto, Becomes

\* _compensate starts with the changed steps and root_unknown it is given.
LEMMA CompensateMoves ==
  ASSUME TypeOK, NEW s \in Session, NEW todo, NEW rec, Compensate(s, todo, rec)
  PROVE  /\ run'[s].pc = "compensate" /\ run'[s].todo = todo /\ run'[s].recovery = rec
         /\ run'[s].txn = run[s].txn /\ run'[s].op = run[s].op
BY DEF TypeOK, Runs, Compensate, Becomes

\* execute_step: a change that was made is answered APPLIED or UNKNOWN.
LEMMA ExecuteMoves ==
  ASSUME TypeOK, NEW s \in Session, ExecuteStep(s)
  PROVE  /\ run'[s].pc = "record" /\ run'[s].cur = run[s].cur /\ run'[s].todo = run[s].todo
         /\ run'[s].txn = run[s].txn /\ run'[s].op = run[s].op
         /\ \/ effect' = effect
            \/ /\ effect' = [effect EXCEPT ![run[s].txn][run[s].cur] = "applied"]
               /\ run'[s].change \in {"APPLIED", "UNKNOWN"}
BY DEF TypeOK, Runs, ExecuteStep, Becomes, Answers

\* After the record of a step its change is in hand, or it is unknown and
\* run() asks for recovery.
LEMMA RecordMoves ==
  ASSUME TypeOK, NEW s \in Session, RecordStep(s)
  PROVE  LET changed == IF run[s].change = "APPLIED" THEN run[s].todo \cup {run[s].cur}
                        ELSE run[s].todo IN
         /\ run'[s].todo = changed
         /\ run'[s].txn = run[s].txn /\ run'[s].op = run[s].op
         /\ \/ run'[s].pc = "verify" /\ run[s].change # "UNKNOWN" /\ run'[s].cur = run[s].cur
            \/ run'[s].pc = "compensate" /\ (run[s].change = "UNKNOWN" => run'[s].recovery)
<1> DEFINE changed == IF run[s].change = "APPLIED" THEN run[s].todo \cup {run[s].cur}
                      ELSE run[s].todo
<1>1. CASE \E rec \in BOOLEAN : Compensate(s, changed, rec) /\ (run[s].change = "UNKNOWN" => rec)
  <2>1. PICK rec \in BOOLEAN : Compensate(s, changed, rec) /\ (run[s].change = "UNKNOWN" => rec)
    BY <1>1
  <2>2. /\ run'[s].pc = "compensate" /\ run'[s].todo = changed /\ run'[s].recovery = rec
        /\ run'[s].txn = run[s].txn /\ run'[s].op = run[s].op
    BY <2>1, CompensateMoves
  <2> QED
    BY <2>1, <2>2
<1>2. CASE Becomes(s, [run[s] EXCEPT !.pc = "verify", !.todo = changed]) /\ run[s].change # "UNKNOWN"
  BY <1>2 DEF TypeOK, Runs, Becomes
<1> QED
  BY <1>1, <1>2 DEF RecordStep

\* After the postcondition the changed steps are still in hand.
LEMMA VerifyMoves ==
  ASSUME TypeOK, NEW s \in Session, VerifyPostcondition(s)
  PROVE  /\ run'[s].txn = run[s].txn /\ run'[s].op = run[s].op /\ run'[s].todo = run[s].todo
         /\ \/ run'[s].pc = "compensate"
            \/ run'[s].pc = "start" /\ run'[s].cur = run[s].cur + 1
            \/ run'[s].pc = "receipt"
<1>1. CASE \E rec \in BOOLEAN : Compensate(s, run[s].todo, rec)
  BY <1>1, CompensateMoves
<1>2. CASE Goto(s, "receipt")
  BY <1>2, GotoMoves
<1>3. CASE Becomes(s, [run[s] EXCEPT !.pc = "start", !.cur = run[s].cur + 1])
  BY <1>3 DEF TypeOK, Runs, Becomes
<1> QED
  BY <1>1, <1>2, <1>3 DEF VerifyPostcondition

\* The moves of _compensate.
LEMMA UndoMoves ==
  ASSUME TypeOK, NEW s \in Session
  PROVE  /\ \A i \in Steps : SkipStep(s, i) =>
              /\ run'[s].pc = "compensate" /\ run'[s].recovery
              /\ run'[s].txn = run[s].txn /\ run'[s].op = run[s].op
         /\ \A i \in Steps : StartCompensation(s, i) =>
              /\ run'[s].pc = "undo" /\ run'[s].cur = i /\ run'[s].todo = run[s].todo
              /\ run'[s].recovery = run[s].recovery
              /\ run'[s].txn = run[s].txn /\ run'[s].op = run[s].op
         /\ RecordCompensation(s) =>
              /\ run'[s].pc = "compensate" /\ run'[s].todo = run[s].todo \ {run[s].cur}
              /\ run'[s].recovery = (run[s].recovery \/ run[s].status # "RESTORED")
              /\ run'[s].txn = run[s].txn /\ run'[s].op = run[s].op
<1>1. ASSUME NEW i \in Steps, SkipStep(s, i)
      PROVE  /\ run'[s].pc = "compensate" /\ run'[s].recovery
             /\ run'[s].txn = run[s].txn /\ run'[s].op = run[s].op
  BY <1>1 DEF TypeOK, Runs, SkipStep, Becomes, At
<1>2. ASSUME NEW i \in Steps, StartCompensation(s, i)
      PROVE  /\ run'[s].pc = "undo" /\ run'[s].cur = i /\ run'[s].todo = run[s].todo
             /\ run'[s].recovery = run[s].recovery
             /\ run'[s].txn = run[s].txn /\ run'[s].op = run[s].op
  BY <1>2 DEF TypeOK, Runs, StartCompensation, Becomes
<1>3. ASSUME RecordCompensation(s)
      PROVE  /\ run'[s].pc = "compensate" /\ run'[s].todo = run[s].todo \ {run[s].cur}
             /\ run'[s].recovery = (run[s].recovery \/ run[s].status # "RESTORED")
             /\ run'[s].txn = run[s].txn /\ run'[s].op = run[s].op
  BY <1>3 DEF TypeOK, Runs, RecordCompensation, Becomes
<1> QED
  BY <1>1, <1>2, <1>3

\* compensate_step: RESTORED means that the step is undone.
LEMMA DriverUndoMoves ==
  ASSUME TypeOK, NEW s \in Session, CompensateStep(s)
  PROVE  /\ run'[s].pc = "recordUndo" /\ run'[s].cur = run[s].cur /\ run'[s].todo = run[s].todo
         /\ run'[s].recovery = run[s].recovery
         /\ run'[s].txn = run[s].txn /\ run'[s].op = run[s].op
         /\ \/ effect' = effect /\ run'[s].status # "RESTORED"
            \/ effect' = [effect EXCEPT ![run[s].txn][run[s].cur] = "undone"]
BY DEF TypeOK, Runs, CompensateStep, Becomes

\* A session keeps its transaction and its operation until it returns; it comes
\* to own one by registering it.
LEMMA OwnerMove ==
  ASSUME TypeOK, NEW s \in Session, Acts(s)
  PROVE  \/ run'[s] = NoRun
         \/ At(s, "idle") /\ run'[s].pc = "register"
            /\ run'[s].txn \in Txn /\ run'[s].op \in Operation
         \/ /\ run'[s].txn = run[s].txn /\ run'[s].op = run[s].op
            /\ run[s].pc \in Owning \/ RegisterPlan(s)
            /\ run'[s].pc \in Owning
<1> USE DEF Owning, Forward, Backward, At
<1>1. CASE Crash(s) \/ RefusePlan(s) \/ \E at, outcome : Finish(s, at, outcome)
  BY <1>1 DEF TypeOK, Crash, RefusePlan, Finish, Leave, Becomes
<1>2. CASE \E t \in Txn, o \in Operation : CallRun(s, t, o)
  BY <1>2 DEF TypeOK, CallRun, Becomes, NoRun
<1>3. CASE RegisterPlan(s) \/ SnapshotFails(s) \/ SafeFailure(s) \/ CaptureSnapshot(s)
           \/ StartStep(s) \/ CompensationEnds(s) \/ RequireRecovery(s)
  BY <1>3, GotoMoves DEF RegisterPlan, SnapshotFails, SafeFailure, CaptureSnapshot,
     StartStep, CompensationEnds, RequireRecovery
<1>4. CASE ExecuteStep(s)
  BY <1>4, ExecuteMoves DEF ExecuteStep
<1>5. CASE RecordStep(s)
  BY <1>5, RecordMoves DEF RecordStep
<1>6. CASE VerifyPostcondition(s)
  BY <1>6, VerifyMoves DEF VerifyPostcondition
<1>7. CASE SuccessReceipt(s)
  BY <1>7, GotoMoves, CompensateMoves DEF SuccessReceipt
<1>8. CASE \E i \in Steps : SkipStep(s, i) \/ StartCompensation(s, i)
  BY <1>8, UndoMoves DEF SkipStep, StartCompensation
<1>9. CASE CompensateStep(s) \/ RecordCompensation(s)
  BY <1>9, UndoMoves, DriverUndoMoves DEF CompensateStep, RecordCompensation
<1> QED
  BY <1>1, <1>2, <1>3, <1>4, <1>5, <1>6, <1>7, <1>8, <1>9 DEF Acts, Step

\* The idle record is neither calling nor owning.
LEMMA NoRunIdle == NoRun.pc = "idle" /\ NoRun.pc \notin Owning
BY DEF NoRun, Owning, Forward, Backward

\* OwnerInv is preserved: only _register_plan, under its UNIQUE keys, gives a
\* session a transaction.
LEMMA OwnerStep ==
  ASSUME TypeOK, OwnerInv, NEW s \in Session, Acts(s)
  PROVE  OwnerInv'
<1>1. CASE RegisterPlan(s)
  <2> DEFINE t == run[s].txn
             o == run[s].op
  <2>1. /\ t \in Txn /\ o \in Operation /\ plans[t] = None /\ \A u \in Txn : plans[u] # o
        /\ plans' = [plans EXCEPT ![t] = o]
    BY <1>1, OwnerNamed DEF RegisterPlan, At
  <2>2. o # None /\ None \notin Operation
    BY <2>1, PlanAssumption
  <2>3. \A r \in Session : run[r].pc \in Owning => run[r].txn # t
    BY <2>1, <2>2, OwnerNamed DEF OwnerInv, OwnerOK, Owning, Forward, Backward, At
  <2>4. /\ run'[s].txn = t /\ run'[s].op = o
        /\ \A r \in Session \ {s} : run'[r] = run[r]
    BY <1>1, OwnerMove, RunFrame, NoRunIdle DEF RegisterPlan, At, Goto, Becomes, TypeOK, Runs
  <2>5. ASSUME NEW r \in Session PROVE OwnerOK(r)'
    <3>1. CASE r = s
      BY <3>1, <2>1, <2>4 DEF OwnerOK, TypeOK
    <3>2. CASE r # s
      <4>1. run'[r] = run[r] /\ OwnerOK(r)
        BY <3>2, <2>4 DEF OwnerInv
      <4>2. run[r].pc \in Owning => plans'[run[r].txn] = plans[run[r].txn]
        BY <2>1, <2>3 DEF TypeOK
      <4> QED
        BY <4>1, <4>2 DEF OwnerOK, At
    <3> QED
      BY <3>1, <3>2
  <2>6. \A r, q \in Session :
          r # q /\ run'[r].pc \in Owning /\ run'[q].pc \in Owning => run'[r].txn # run'[q].txn
    BY <2>3, <2>4 DEF OwnerInv
  <2>7. \A u, v \in Txn : plans'[u] # None /\ plans'[u] = plans'[v] => u = v
    BY <2>1, <2>2 DEF OwnerInv, TypeOK
  <2> QED
    BY <2>5, <2>6, <2>7 DEF OwnerInv
<1>2. CASE ~RegisterPlan(s)
  <2>1. plans' = plans /\ \A r \in Session \ {s} : run'[r] = run[r]
    BY <1>2, PlansFrame, RunFrame
  <2>2. OwnerOK(s)' /\ (run'[s].pc \in Owning => run[s].pc \in Owning /\ run'[s].txn = run[s].txn)
    BY <1>2, <2>1, OwnerMove, NoRunIdle, OwnerNamed
    DEF OwnerInv, OwnerOK, At, Owning, Forward, Backward
  <2>3. \A r \in Session : OwnerOK(r)'
    BY <2>1, <2>2 DEF OwnerInv, OwnerOK, At
  <2>4. \A r, q \in Session :
          r # q /\ run'[r].pc \in Owning /\ run'[q].pc \in Owning => run'[r].txn # run'[q].txn
    BY <2>1, <2>2 DEF OwnerInv
  <2> QED
    BY <2>1, <2>3, <2>4 DEF OwnerInv
<1> QED
  BY <1>1, <1>2

\* The journal's other callers never record FAILED.
LEMMA JournalStatus ==
  ASSUME TypeOK, NEW o \in Operation, JournalCall(o), NEW q \in Operation
  PROVE  status'[q] = "FAILED" => status[q] = "FAILED"
BY DEF TypeOK, JournalCall, J!Prepare, J!Claim, J!Record, J!Reconcile, J!Move, J!States

\* A session records FAILED for its own operation only, when it has failed.
LEMMA RunStatus ==
  ASSUME TypeOK, NEW s \in Session, Acts(s), NEW q \in Operation
  PROVE  \/ status'[q] = "FAILED" => status[q] = "FAILED"
         \/ At(s, "fail") /\ run[s].op = q /\ run'[s] = NoRun /\ effect' = effect
<1>1. CASE Finish(s, "succeed", "SUCCEEDED") \/ Finish(s, "unknown", "UNKNOWN")
  BY <1>1 DEF TypeOK, Finish, J!Record, J!Move
<1>2. CASE Finish(s, "fail", "FAILED")
  BY <1>2 DEF TypeOK, Finish, J!Record, J!Move, Leave, Becomes
<1>3. CASE status' = status
  BY <1>3
<1> QED
  BY <1>1, <1>2, <1>3 DEF Acts, Step, Crash, CallRun, RegisterPlan, RefusePlan, SnapshotFails,
       SafeFailure, CaptureSnapshot, StartStep, ExecuteStep, RecordStep,
       VerifyPostcondition, SuccessReceipt, SkipStep, StartCompensation, CompensateStep,
       RecordCompensation, CompensationEnds, RequireRecovery
-----------------------------------------------------------------------------
(* Preservation, one conjunct of IInv at a time *)

\* What a driver's call writes is of a registered transaction.
LEMMA UnregisteredStep ==
  ASSUME IInv, NEW s \in Session, Acts(s)
  PROVE  UnregisteredInv'
<1>1. TypeOK /\ OwnerInv /\ UnregisteredInv
  BY DEF IInv
<1>2. CASE RegisterPlan(s)
  <2>1. /\ effect' = effect /\ execs' = execs /\ status' = status
        /\ \A t \in Txn : plans'[t] = plans[t] \/ plans'[t] \in Operation
        /\ \A t \in Txn : plans'[t] = plans[t] \/ plans[t] = None
    BY <1>1, <1>2, OwnerNamed DEF RegisterPlan, TypeOK, At
  <2> QED
    BY <1>1, <2>1, PlanAssumption DEF UnregisteredInv
<1>3. CASE ~RegisterPlan(s)
  <2>1. plans' = plans
    BY <1>3, PlansFrame
  <2>2. run[s].pc \in Owning =>
          run[s].txn \in Txn /\ run[s].op \in Operation /\ plans[run[s].txn] = run[s].op
    BY <1>1, OwnerNamed DEF OwnerInv, OwnerOK, Owning, Forward, Backward, At
  <2>3. \A t \in Txn : plans[t] = None => effect'[t] = effect[t]
    <3>1. CASE ExecuteStep(s) \/ CompensateStep(s)
      <4>1. effect' = effect \/ \E v : effect' = [effect EXCEPT ![run[s].txn][run[s].cur] = v]
        BY <1>1, <3>1, ExecuteMoves, DriverUndoMoves
      <4>2. run[s].txn \in Txn /\ plans[run[s].txn] # None
        BY <2>2, <3>1, PlanAssumption
        DEF ExecuteStep, CompensateStep, Owning, Forward, Backward, At
      <4> QED
        BY <1>1, <4>1, <4>2 DEF TypeOK
    <3> QED
      BY <3>1, HostFrame
  <2>4. \A o \in Operation : (\A t \in Txn : plans[t] # o) => execs'[o] = execs[o]
    BY <1>1, <2>2, HostFrame DEF TypeOK, ExecuteStep, Owning, Forward, At
  <2>5. \A o \in Operation :
          (\A t \in Txn : plans[t] # o) /\ status'[o] = "FAILED" => status[o] = "FAILED"
    BY <1>1, <2>2, RunStatus DEF Owning, At
  <2> QED
    BY <1>1, <2>1, <2>3, <2>4, <2>5 DEF UnregisteredInv
<1> QED
  BY <1>2, <1>3

\* Two sessions that own a transaction own different ones, of different operations.
LEMMA Apart ==
  ASSUME TypeOK, OwnerInv, NEW s \in Session, NEW r \in Session, r # s,
         run[s].pc \in Owning, run[r].pc \in Owning
  PROVE  run[s].txn # run[r].txn /\ run[s].op # run[r].op
         /\ {run[s].txn, run[r].txn} \subseteq Txn /\ {run[s].op, run[r].op} \subseteq Operation
<1>1. /\ run[s].txn \in Txn /\ run[r].txn \in Txn /\ run[s].op \in Operation /\ run[r].op \in Operation
      /\ plans[run[s].txn] = run[s].op /\ plans[run[r].txn] = run[r].op
  BY OwnerNamed DEF OwnerInv, OwnerOK, Owning, Forward, Backward, At
<1>2. run[s].txn # run[r].txn
  BY DEF OwnerInv
<1> QED
  BY <1>1, <1>2, PlanAssumption DEF OwnerInv

\* A driver's call is seen in one transaction and one operation only.
LEMMA HostElsewhere ==
  ASSUME TypeOK, OwnerInv, NEW s \in Session, Acts(s), NEW r \in Session \ {s},
         run[r].pc \in Owning
  PROVE  effect'[run[r].txn] = effect[run[r].txn] /\ execs'[run[r].op] = execs[run[r].op]
<1>1. CASE ExecuteStep(s) \/ CompensateStep(s)
  <2>1. run[s].pc \in Owning
    BY <1>1 DEF ExecuteStep, CompensateStep, At, Owning, Forward, Backward
  <2>2. execs' = execs \/ execs' = [execs EXCEPT ![run[s].op][run[s].cur] = @ + 1]
    BY <1>1 DEF ExecuteStep, CompensateStep
  <2>3. effect' = effect \/ \E v : effect' = [effect EXCEPT ![run[s].txn][run[s].cur] = v]
    BY <1>1, ExecuteMoves, DriverUndoMoves
  <2> QED
    BY <2>1, <2>2, <2>3, Apart DEF TypeOK
<1>2. CASE ~ExecuteStep(s) /\ ~CompensateStep(s)
  BY <1>2, HostFrame
<1> QED
  BY <1>1, <1>2

\* The steps ahead of a session are never begun before it reaches them.
LEMMA AheadStep ==
  ASSUME IInv, NEW s \in Session, Acts(s)
  PROVE  AheadInv'
<1>1. TypeOK /\ OwnerInv /\ UnregisteredInv /\ AheadOK(s) /\ run[s].cur \in Nat
  BY DEF IInv, AheadInv, TypeOK, Runs, Steps
<1>2. ASSUME NEW r \in Session \ {s}
      PROVE  AheadOK(r)'
  <2>1. run'[r] = run[r] /\ AheadOK(r)
    BY <1>1, RunFrame DEF IInv, AheadInv
  <2>2. CASE run[r].pc \in Owning
    BY <1>1, <2>1, <2>2, HostElsewhere DEF AheadOK, Ahead, Untouched, At
  <2>3. CASE run[r].pc \notin Owning
    BY <2>1, <2>3 DEF AheadOK, Ahead, Untouched, At, Owning, Forward
  <2> QED
    BY <2>2, <2>3
<1>3. AheadOK(s)'
  <2>1. CASE Crash(s) \/ RefusePlan(s) \/ (\E at, outcome : Finish(s, at, outcome))
             \/ \E t \in Txn, o \in Operation : CallRun(s, t, o)
    <3>1. CASE Leave(s)
      BY <1>1, <3>1 DEF TypeOK, Leave, Becomes, NoRun, AheadOK, Ahead
    <3>2. CASE \E t \in Txn, o \in Operation : CallRun(s, t, o)
      BY <1>1, <3>2 DEF TypeOK, CallRun, Becomes, NoRun, AheadOK, Ahead
    <3> QED
      BY <2>1, <3>1, <3>2 DEF Crash, RefusePlan, Finish
  <2>2. CASE RegisterPlan(s)
    <3>1. /\ run'[s].txn = run[s].txn /\ run'[s].op = run[s].op /\ run'[s].cur = run[s].cur
          /\ effect' = effect /\ execs' = execs /\ plans[run[s].txn] = None
          /\ \A u \in Txn : plans[u] # run[s].op
      BY <1>1, <2>2, GotoMoves DEF RegisterPlan
    <3>2. /\ run[s].txn \in Txn /\ run[s].op \in Operation /\ run[s].cur = 1
      BY <1>1, <2>2, OwnerNamed DEF RegisterPlan, At, AheadOK
    <3> QED
      BY <1>1, <3>1, <3>2 DEF UnregisteredInv, AheadOK, Ahead, Untouched, At
  <2>3. CASE SnapshotFails(s) \/ SafeFailure(s) \/ CaptureSnapshot(s) \/ StartStep(s)
             \/ CompensationEnds(s) \/ RequireRecovery(s)
    <3>1. /\ run'[s].txn = run[s].txn /\ run'[s].op = run[s].op /\ run'[s].cur = run[s].cur
          /\ effect' = effect /\ execs' = execs
          /\ \/ run[s].pc = "snapshot" /\ run'[s].pc \in {"safeFailure", "start"}
             \/ run[s].pc = "start" /\ run'[s].pc = "execute"
             \/ run'[s].pc \in {"fail", "recovery", "unknown"}
      BY <1>1, <2>3, GotoMoves DEF SnapshotFails, SafeFailure, CaptureSnapshot, StartStep,
         CompensationEnds, RequireRecovery, At
    <3> QED
      BY <1>1, <3>1 DEF AheadOK, Ahead, Untouched, Steps
  <2>4. CASE ExecuteStep(s)
    <3>1. run[s].txn \in Txn /\ run[s].op \in Operation
      BY <1>1, <2>4, OwnerNamed DEF ExecuteStep, At
    <3>2. /\ run'[s].txn = run[s].txn /\ run'[s].op = run[s].op /\ run'[s].cur = run[s].cur
          /\ run[s].pc = "execute" /\ run'[s].pc = "record"
          /\ effect' = effect \/ effect' = [effect EXCEPT ![run[s].txn][run[s].cur] = "applied"]
          /\ execs' = [execs EXCEPT ![run[s].op][run[s].cur] = @ + 1]
      BY <1>1, <2>4, ExecuteMoves DEF ExecuteStep, At
    <3>3. \A i \in Steps : i # run[s].cur => effect'[run[s].txn][i] = effect[run[s].txn][i]
      BY <1>1, <3>1, <3>2 DEF TypeOK
    <3>4. \A i \in Steps : i # run[s].cur => execs'[run[s].op][i] = execs[run[s].op][i]
      BY <1>1, <3>1, <3>2 DEF TypeOK
    <3>5. \A i \in Steps : i > run[s].cur => i >= run[s].cur /\ i # run[s].cur
      BY <1>1 DEF Steps
    <3> QED
      BY <1>1, <3>2, <3>3, <3>4, <3>5 DEF AheadOK, Ahead, Untouched
  <2>5. CASE RecordStep(s) \/ VerifyPostcondition(s)
    <3>1. /\ run'[s].txn = run[s].txn /\ run'[s].op = run[s].op
          /\ effect' = effect /\ execs' = execs
          /\ \/ /\ run[s].pc = "record" /\ run'[s].pc = "verify" /\ run'[s].cur = run[s].cur
             \/ /\ run[s].pc = "verify" /\ run'[s].pc = "start" /\ run'[s].cur = run[s].cur + 1
             \/ run'[s].pc \in {"compensate", "receipt"}
      BY <1>1, <2>5, RecordMoves, VerifyMoves DEF RecordStep, VerifyPostcondition, At
    <3> QED
      BY <1>1, <3>1 DEF AheadOK, Ahead, Untouched, Steps
  <2>6. CASE \/ SuccessReceipt(s) \/ CompensateStep(s) \/ RecordCompensation(s)
             \/ \E i \in Steps : SkipStep(s, i) \/ StartCompensation(s, i)
    <3>1. SuccessReceipt(s) => run'[s].pc \in {"succeed", "compensate"}
      BY <1>1, GotoMoves, CompensateMoves DEF SuccessReceipt
    <3>2. ~SuccessReceipt(s) => run'[s].pc \in {"compensate", "undo", "recordUndo"}
      BY <1>1, <2>6, UndoMoves, DriverUndoMoves
    <3> QED
      BY <3>1, <3>2 DEF AheadOK, Ahead
  <2> QED
    BY <2>1, <2>2, <2>3, <2>4, <2>5, <2>6 DEF Acts, Step
<1> QED
  BY <1>2, <1>3 DEF AheadInv

\* A driver executes the step it is asked for the first time.
LEMMA OnceStep ==
  ASSUME IInv, NEW s \in Session, Acts(s)
  PROVE  StepOnce'
<1>1. CASE ExecuteStep(s)
  <2>1. /\ run[s].op \in Operation /\ run[s].cur \in Steps /\ run[s].pc = "execute"
        /\ execs' = [execs EXCEPT ![run[s].op][run[s].cur] = @ + 1]
    BY <1>1, OwnerNamed DEF ExecuteStep, At, IInv, TypeOK, Runs
  <2>2. execs[run[s].op][run[s].cur] = 0
    BY <2>1 DEF IInv, AheadInv, AheadOK, Ahead, Untouched, Steps
  <2>3. ASSUME NEW o \in Operation, NEW i \in Steps PROVE execs'[o][i] <= 1
    <3>1. CASE o = run[s].op /\ i = run[s].cur
      BY <2>1, <2>2, <3>1 DEF IInv, TypeOK
    <3>2. CASE ~(o = run[s].op /\ i = run[s].cur)
      BY <2>1, <3>2 DEF IInv, TypeOK, StepOnce
    <3> QED
      BY <3>1, <3>2
  <2> QED
    BY <2>3 DEF StepOnce
<1> QED
  BY <1>1, HostFrame DEF IInv, StepOnce

\* A session that may end FAILED keeps every change in hand.
LEMMA InHandStep ==
  ASSUME IInv, NEW s \in Session, Acts(s)
  PROVE  InHandInv'
<1>1. TypeOK /\ OwnerInv /\ InHandOK(s) /\ AheadOK(s) /\ run[s].cur \in Steps
  BY DEF IInv, InHandInv, AheadInv, TypeOK, Runs
<1>2. ASSUME NEW r \in Session \ {s}
      PROVE  InHandOK(r)'
  <2>1. run'[r] = run[r] /\ InHandOK(r)
    BY <1>1, RunFrame DEF IInv, InHandInv
  <2>2. CASE run[r].pc \in Owning
    <3>1. effect'[run[r].txn] = effect[run[r].txn]
      BY <1>1, <2>1, <2>2, HostElsewhere
    <3> QED
      BY <2>1, <3>1 DEF InHandOK
  <2>3. CASE run[r].pc \notin Owning
    BY <2>1, <2>3 DEF InHandOK, Owning, Forward, Backward
  <2> QED
    BY <2>2, <2>3
<1>3. InHandOK(s)'
  <2>1. CASE \/ Leave(s) \/ \E t \in Txn, o \in Operation : CallRun(s, t, o)
    <3>1. CASE Leave(s)
      BY <1>1, <3>1 DEF TypeOK, Leave, Becomes, NoRun, InHandOK, Owning, Forward, Backward
    <3>2. CASE \E t \in Txn, o \in Operation : CallRun(s, t, o)
      BY <1>1, <3>2 DEF TypeOK, CallRun, Becomes, NoRun, InHandOK, Owning, Forward, Backward
    <3> QED
      BY <2>1, <3>1, <3>2
  <2>2. CASE RegisterPlan(s)
    <3>1. run'[s].pc \in {"snapshot", "safeFailure"} /\ run'[s].txn = run[s].txn
          /\ run[s].txn \in Txn /\ plans[run[s].txn] = None /\ effect' = effect
      BY <1>1, <2>2, GotoMoves, OwnerNamed DEF RegisterPlan, At
    <3> QED
      BY <3>1 DEF IInv, UnregisteredInv, InHandOK, Owning, Forward, Backward
  <2>3. CASE SnapshotFails(s) \/ SafeFailure(s) \/ CaptureSnapshot(s) \/ StartStep(s)
             \/ CompensationEnds(s) \/ RequireRecovery(s)
    <3>1. /\ run'[s].txn = run[s].txn /\ run'[s].todo = run[s].todo /\ effect' = effect
          /\ run'[s].recovery = run[s].recovery
      BY <1>1, <2>3, GotoMoves DEF SnapshotFails, SafeFailure, CaptureSnapshot, StartStep,
         CompensationEnds, RequireRecovery
    <3>2. CASE SnapshotFails(s) \/ CaptureSnapshot(s) \/ StartStep(s)
      <4>1. \/ run[s].pc = "snapshot" /\ run'[s].pc \in {"safeFailure", "start"}
            \/ run[s].pc = "start" /\ run'[s].pc = "execute"
        BY <1>1, <3>2, GotoMoves DEF SnapshotFails, CaptureSnapshot, StartStep, At
      <4> QED
        BY <1>1, <3>1, <4>1 DEF InHandOK, AheadOK, Ahead, Untouched, Owning, Forward, Backward
    <3>3. CASE SafeFailure(s)
      <4>1. run[s].pc = "safeFailure" /\ run'[s].pc = "fail"
        BY <1>1, <3>3, GotoMoves DEF SafeFailure, At
      <4> QED
        BY <1>1, <3>1, <4>1 DEF AheadOK, Ahead, Untouched, InHandOK, Owning, Forward, Backward
    <3>4. CASE CompensationEnds(s) \/ RequireRecovery(s)
      <4>1. \/ run[s].pc = "compensate" /\ ~run[s].recovery /\ run[s].todo = {} /\ run'[s].pc = "fail"
            \/ run[s].pc = "compensate" /\ run[s].recovery /\ run'[s].pc = "recovery"
            \/ run[s].pc = "recovery" /\ run'[s].pc = "unknown"
        BY <1>1, <3>4, GotoMoves DEF CompensationEnds, RequireRecovery, At
      <4> QED
        BY <1>1, <3>1, <4>1 DEF InHandOK, Owning, Forward, Backward
    <3> QED
      BY <2>3, <3>2, <3>3, <3>4
  <2>4. CASE ExecuteStep(s)
    <3>1. run[s].txn \in Txn /\ run[s].pc = "execute"
      BY <1>1, <2>4, OwnerNamed DEF ExecuteStep, At
    <3>2. /\ run'[s].txn = run[s].txn /\ run'[s].cur = run[s].cur /\ run'[s].todo = run[s].todo
          /\ run'[s].pc = "record"
          /\ \/ effect' = effect
             \/ /\ effect' = [effect EXCEPT ![run[s].txn][run[s].cur] = "applied"]
                /\ run'[s].change \in {"APPLIED", "UNKNOWN"}
      BY <1>1, <2>4, ExecuteMoves
    <3>3. \A i \in Steps : i # run[s].cur => effect'[run[s].txn][i] = effect[run[s].txn][i]
      BY <1>1, <3>1, <3>2 DEF TypeOK
    <3>4. effect[run[s].txn][run[s].cur] # "applied"
      BY <1>1, <3>1 DEF AheadOK, Ahead, Untouched, Steps
    <3>5. effect'[run[s].txn][run[s].cur] = "applied" => run'[s].change \in {"APPLIED", "UNKNOWN"}
      BY <3>2, <3>4
    <3> QED
      BY <1>1, <3>1, <3>2, <3>3, <3>5 DEF InHandOK, Owning, Forward, Backward
  <2>5. CASE RecordStep(s)
    <3>1. /\ run[s].pc = "record" /\ run'[s].pc \in {"verify", "compensate"} /\ effect' = effect
          /\ run'[s].txn = run[s].txn
          /\ run'[s].todo = IF run[s].change = "APPLIED" THEN run[s].todo \cup {run[s].cur}
                            ELSE run[s].todo
          /\ run[s].change = "UNKNOWN" => run'[s].pc = "compensate" /\ run'[s].recovery
      BY <1>1, <2>5, RecordMoves DEF RecordStep, At
    <3> QED
      BY <1>1, <3>1 DEF InHandOK, Owning, Forward, Backward
  <2>6. CASE VerifyPostcondition(s) \/ SuccessReceipt(s)
    <3>1. /\ run[s].pc \in {"verify", "receipt"} /\ effect' = effect
          /\ run'[s].pc \in {"compensate", "start", "receipt", "succeed"}
          /\ run'[s].txn = run[s].txn /\ run'[s].todo = run[s].todo
      <4>1. CASE VerifyPostcondition(s)
        BY <1>1, <4>1, VerifyMoves DEF VerifyPostcondition, At
      <4>2. CASE SuccessReceipt(s)
        BY <1>1, <4>2, GotoMoves, CompensateMoves DEF SuccessReceipt, At
      <4> QED
        BY <2>6, <4>1, <4>2
    <3> QED
      BY <1>1, <3>1 DEF InHandOK, Owning, Forward, Backward
  <2>7. CASE \E i \in Steps : SkipStep(s, i) \/ StartCompensation(s, i)
    <3>1. /\ run'[s].txn = run[s].txn /\ effect' = effect /\ run[s].pc = "compensate"
          /\ \/ run'[s].pc = "compensate" /\ run'[s].recovery
             \/ /\ run'[s].pc = "undo" /\ run'[s].todo = run[s].todo
                /\ run'[s].recovery = run[s].recovery
      BY <1>1, <2>7, UndoMoves DEF SkipStep, StartCompensation, At
    <3> QED
      BY <1>1, <3>1 DEF InHandOK, Owning, Forward, Backward
  <2>8. CASE CompensateStep(s)
    <3>1. run[s].txn \in Txn /\ run[s].pc = "undo"
      BY <1>1, <2>8, OwnerNamed DEF CompensateStep, At
    <3>2. /\ run'[s].txn = run[s].txn /\ run'[s].cur = run[s].cur /\ run'[s].todo = run[s].todo
          /\ run'[s].pc = "recordUndo" /\ run'[s].recovery = run[s].recovery
          /\ \/ effect' = effect /\ run'[s].status # "RESTORED"
             \/ effect' = [effect EXCEPT ![run[s].txn][run[s].cur] = "undone"]
      BY <1>1, <2>8, DriverUndoMoves
    <3>3. \A i \in Steps : effect'[run[s].txn][i] = "applied" => effect[run[s].txn][i] = "applied"
      <4>1. CASE effect' = effect
        BY <4>1
      <4>2. CASE effect' = [effect EXCEPT ![run[s].txn][run[s].cur] = "undone"]
        BY <1>1, <3>1, <4>2 DEF TypeOK
      <4> QED
        BY <3>2, <4>1, <4>2
    <3>4. run'[s].status = "RESTORED" => effect'[run[s].txn][run[s].cur] # "applied"
      BY <1>1, <3>1, <3>2 DEF TypeOK
    <3> QED
      BY <1>1, <3>1, <3>2, <3>3, <3>4 DEF InHandOK, Owning, Forward, Backward
  <2>9. CASE RecordCompensation(s)
    <3>1. /\ run'[s].txn = run[s].txn /\ effect' = effect
          /\ run[s].pc = "recordUndo" /\ run'[s].pc = "compensate"
          /\ run'[s].todo = run[s].todo \ {run[s].cur}
          /\ ~run'[s].recovery => ~run[s].recovery /\ run[s].status = "RESTORED"
      BY <1>1, <2>9, UndoMoves DEF RecordCompensation, At
    <3> QED
      BY <1>1, <3>1 DEF InHandOK, Owning, Forward, Backward
  <2> QED
    BY <2>1, <2>2, <2>3, <2>4, <2>5, <2>6, <2>7, <2>8, <2>9
    DEF Acts, Step, Crash, RefusePlan, Finish
<1> QED
  BY <1>2, <1>3 DEF InHandInv

\* FAILED is recorded when nothing is in force, by a session that then leaves.
LEMMA FailedStep ==
  ASSUME IInv, NEW s \in Session, Acts(s)
  PROVE  FailedInv'
<1>1. TypeOK /\ OwnerInv /\ UnregisteredInv /\ FailedInv
  BY DEF IInv
<1> SUFFICES ASSUME NEW t \in Txn, plans'[t] # None, status'[plans'[t]] = "FAILED"
             PROVE  /\ \A i \in Steps : effect'[t][i] # "applied"
                    /\ \A r \in Session : run'[r].pc \in Owning => run'[r].txn # t
  BY DEF FailedInv
<1>2. CASE RegisterPlan(s)
  <2>1. /\ run[s].txn \in Txn /\ run[s].op \in Operation /\ effect' = effect /\ status' = status
        /\ plans' = [plans EXCEPT ![run[s].txn] = run[s].op] /\ \A u \in Txn : plans[u] # run[s].op
    BY <1>1, <1>2, OwnerNamed DEF RegisterPlan, At
  <2>2. t # run[s].txn /\ plans[t] = plans'[t]
    BY <1>1, <2>1 DEF TypeOK, UnregisteredInv
  <2>3. \A r \in Session : run'[r].txn = t => run'[r] = run[r]
    BY <1>1, <1>2, <2>2, RunFrame, GotoMoves DEF RegisterPlan
  <2> QED
    BY <1>1, <2>1, <2>2, <2>3 DEF FailedInv
<1>3. CASE ~RegisterPlan(s)
  <2>1. plans' = plans /\ plans[t] \in Operation
    BY <1>1, <1>3, PlansFrame DEF TypeOK
  <2>2. /\ \A r \in Session \ {s} : run'[r] = run[r]
        /\ run'[s].pc \in Owning => run[s].pc \in Owning /\ run'[s].txn = run[s].txn
    BY <1>1, <1>3, RunFrame, OwnerMove, NoRunIdle DEF Owning, Forward, Backward
  <2>3. CASE status[plans[t]] = "FAILED"
    <3>1. run[s].pc \in Owning => run[s].txn # t
      BY <1>1, <2>1, <2>3 DEF FailedInv
    <3>2. effect'[t] = effect[t]
      <4>1. CASE ExecuteStep(s) \/ CompensateStep(s)
        <5>1. effect' = effect \/ \E v : effect' = [effect EXCEPT ![run[s].txn][run[s].cur] = v]
          BY <1>1, <4>1, ExecuteMoves, DriverUndoMoves
        <5>2. run[s].txn # t
          BY <3>1, <4>1 DEF ExecuteStep, CompensateStep, Owning, Forward, Backward, At
        <5> QED
          BY <1>1, <5>1, <5>2 DEF TypeOK
      <4> QED
        BY <4>1, HostFrame
    <3> QED
      BY <1>1, <2>1, <2>2, <2>3, <3>1, <3>2 DEF FailedInv
  <2>4. CASE status[plans[t]] # "FAILED"
    <3>1. At(s, "fail") /\ run[s].op = plans[t] /\ run'[s] = NoRun /\ effect' = effect
      BY <1>1, <2>1, <2>4, RunStatus
    <3>2. run[s].pc \in Owning /\ run[s].txn = t
      BY <1>1, <2>1, <3>1, OwnerNamed DEF OwnerInv, OwnerOK, Owning, At
    <3>3. \A i \in Steps : effect[t][i] # "applied"
      BY <3>1, <3>2 DEF IInv, InHandInv, InHandOK, At
    <3>4. \A r \in Session \ {s} : run[r].pc \in Owning => run[r].txn # t
      BY <1>1, <3>2, Apart
    <3> QED
      BY <2>2, <3>1, <3>3, <3>4, NoRunIdle
  <2> QED
    BY <2>3, <2>4
<1> QED
  BY <1>2, <1>3

\* The journal's other callers keep all of it.
LEMMA JournalKeeps ==
  ASSUME IInv, NEW o \in Operation, JournalCall(o)
  PROVE  IInv'
<1>1. UNCHANGED <<plans, events, run, effect, execs>>
  BY DEF JournalCall
<1>2. status' \in [Operation -> J!States]
  BY DEF IInv, TypeOK, JournalCall, J!Prepare, J!Claim, J!Record, J!Reconcile, J!Move, J!States
<1>3. \A q \in Operation : status'[q] = "FAILED" => status[q] = "FAILED"
  BY JournalStatus DEF IInv
<1>4. TypeOK' /\ OwnerInv' /\ AheadInv' /\ StepOnce' /\ InHandInv'
  BY <1>1, <1>2 DEF IInv, TypeOK, OwnerInv, OwnerOK, AheadInv, AheadOK, Ahead, Untouched,
     StepOnce, InHandInv, InHandOK, At
<1>5. UnregisteredInv' /\ FailedInv'
  BY <1>1, <1>3 DEF IInv, TypeOK, UnregisteredInv, FailedInv
<1> QED
  BY <1>4, <1>5 DEF IInv

-----------------------------------------------------------------------------
(* The theorems *)

\* A stuttering step keeps the invariant.
LEMMA Stutter ==
  ASSUME IInv, UNCHANGED vars
  PROVE  IInv'
BY DEF vars, IInv, TypeOK, OwnerInv, OwnerOK, UnregisteredInv, AheadInv, AheadOK, Ahead,
   Untouched, StepOnce, InHandInv, InHandOK, FailedInv, At

\* IInv is inductive.
LEMMA Inductive == IInv /\ [Next]_vars => IInv'
<1> SUFFICES ASSUME IInv, [Next]_vars PROVE IInv'
  OBVIOUS
<1>1. ASSUME NEW s \in Session, Acts(s) PROVE IInv'
  BY <1>1, TypeStep, OwnerStep, UnregisteredStep, AheadStep, OnceStep, InHandStep, FailedStep
  DEF IInv
<1> QED
  BY <1>1, JournalKeeps, Stutter DEF Next, Acts

\* Nothing is registered, executed or recorded at the start.
LEMMA InitIInv == Init => IInv
<1> SUFFICES ASSUME Init PROVE IInv
  OBVIOUS
<1>1. TypeOK
  BY PlanAssumption DEF Init, J!Init, J!States, TypeOK, NoRun, Runs, Steps, Statuses, Changes
<1>2. OwnerInv /\ AheadInv /\ InHandInv
  BY NoRunIdle DEF Init, NoRun, OwnerInv, OwnerOK, AheadInv, AheadOK, Ahead, InHandInv,
     InHandOK, At
<1>3. UnregisteredInv /\ StepOnce /\ FailedInv
  BY DEF Init, J!Init, UnregisteredInv, StepOnce, FailedInv
<1> QED
  BY <1>1, <1>2, <1>3 DEF IInv

\* The tables, the journal and the local variables of every run() stay in range.
THEOREM TypeCorrect == Spec => []TypeOK
<1>1. IInv => TypeOK
  BY DEF IInv
<1> QED
  BY <1>1, InitIInv, Inductive, PTL DEF Spec

\* However many sessions call run(), cut off wherever, no step of an operation is
\* executed twice.
THEOREM ExecutedAtMostOnce == Spec => []StepOnce
<1>1. IInv => StepOnce
  BY DEF IInv
<1> QED
  BY <1>1, InitIInv, Inductive, PTL DEF Spec

\* An operation recorded FAILED has nothing in force on the host, for any plan,
\* any answers of the driver and any interruption.
THEOREM FailureLeavesNothing == Spec => []NothingLeftBehind
<1>1. IInv => NothingLeftBehind
  BY DEF IInv, FailedInv, NothingLeftBehind
<1> QED
  BY <1>1, InitIInv, Inductive, PTL DEF Spec
-----------------------------------------------------------------------------
(* The log of a transaction: what an append does to it *)

\* The ranks, one by one.
LEMMA Ranks ==
  ASSUME NEW i
  PROVE  /\ Rank("PLAN_REGISTERED", i) = 0
         /\ Rank("SNAPSHOT_CAPTURED", i) = 1
         /\ Rank("SAFE_FAILURE", i) = 1
         /\ Rank("STEP_EXECUTION_STARTED", i) = 3 * i
         /\ Rank("STEP_EXECUTION_RECORDED", i) = 3 * i + 1
         /\ Rank("POSTCONDITION_RECORDED", i) = 3 * i + 2
         /\ Rank("COMPENSATION_STARTED", i) = Undoing(i)
         /\ Rank("COMPENSATION_RECORDED", i) = Undoing(i) + 1
         /\ Rank("RECOVERY_REQUIRED", i) = Final
BY DEF Rank

\* The rank of an event is a number.
LEMMA RankType ==
  ASSUME NEW e \in Events
  PROVE  Rank(e.type, e.step) \in Int
<1>1. NumSteps \in Nat /\ e.step \in Nat /\ e.type \in Types
  BY PlanAssumption DEF Events
<1>2. Undoing(e.step) \in Int /\ Final \in Int
  BY <1>1 DEF Undoing, Final
<1> QED
  BY <1>1, <1>2, Ranks DEF Types

\* The entries of a log with one event more.
LEMMA AppendEntries ==
  ASSUME TypeOK, NEW t \in Txn, NEW e \in Events,
         events' = [events EXCEPT ![t] = Append(@, e)]
  PROVE  /\ Entries(t)' = Entries(t) \cup {e}
         /\ \A u \in Txn \ {t} : events'[u] = events[u] /\ Entries(u)' = Entries(u)
         /\ DOMAIN events[t] = 1..Len(events[t]) /\ Len(events[t]) \in Nat
         /\ DOMAIN events'[t] = 1..(Len(events[t]) + 1)
         /\ \A j \in DOMAIN events[t] : events'[t][j] = events[t][j]
         /\ events'[t][Len(events[t]) + 1] = e
<1>1. events \in [Txn -> Seq(Events)] /\ events[t] \in Seq(Events)
  BY DEF TypeOK
<1>2. events'[t] = Append(events[t], e) /\ \A u \in Txn \ {t} : events'[u] = events[u]
  BY <1>1
<1>3. DOMAIN events[t] = 1..Len(events[t]) /\ Len(events[t]) \in Nat
  BY <1>1
<1>4. /\ DOMAIN events'[t] = 1..(Len(events[t]) + 1)
      /\ \A j \in DOMAIN events[t] : events'[t][j] = events[t][j]
      /\ events'[t][Len(events[t]) + 1] = e
  BY <1>1, <1>2, <1>3
<1>5. Range(events'[t]) = Range(events[t]) \cup {e}
  BY <1>3, <1>4 DEF Range
<1> QED
  BY <1>2, <1>3, <1>4, <1>5 DEF Entries

\* The entries are events.
LEMMA EntryType ==
  ASSUME TypeOK, NEW t \in Txn
  PROVE  /\ Entries(t) \subseteq Events
         /\ \A j \in DOMAIN events[t] : events[t][j] \in Events /\ events[t][j] \in Entries(t)
         /\ \A e \in Entries(t) : \E j \in DOMAIN events[t] : events[t][j] = e
<1>1. events[t] \in Seq(Events)
  BY DEF TypeOK
<1>2. \A j \in DOMAIN events[t] : events[t][j] \in Events
  BY <1>1
<1> QED
  BY <1>2 DEF Entries, Range

\* What a log has, it keeps.
LEMMA Grows ==
  ASSUME NEW E, NEW D, E \subseteq D
  PROVE  /\ \A type, i : Has(E, type, i) => Has(D, type, i)
         /\ \A i : Applied(E, i) => Applied(D, i)
         /\ \A i : Executed(E, i) => Executed(D, i)
         /\ \A i : Done(E, i) => Done(D, i)
         /\ \A e : Backed(E, e) => Backed(D, e)
<1>1. \A type, i : Has(E, type, i) => Has(D, type, i)
  BY DEF Has
<1>2. \A i : Applied(E, i) => Applied(D, i)
  BY DEF Applied
<1>3. \A i : Executed(E, i) => Executed(D, i)
  BY DEF Executed
<1>4. \A i : Done(E, i) => Done(D, i)
  BY <1>3 DEF Done
<1>5. \A e : Backed(E, e) => Backed(D, e)
  BY <1>1, <1>2 DEF Backed
<1> QED
  BY <1>1, <1>2, <1>3, <1>4, <1>5

\* An event that is logged in its place, in its form and with its reason keeps the log
\* in order.
LEMMA AppendKeeps ==
  ASSUME TypeOK, OrderInv, EntryInv, NEW t \in Txn, NEW e \in Events,
         events' = [events EXCEPT ![t] = Append(@, e)],
         Below(Entries(t), Rank(e.type, e.step)),
         Proper(e), Backed(Entries(t), e),
         events[t] = <<>> => e.type = "PLAN_REGISTERED",
         plans'[t] # None, \A u \in Txn \ {t} : plans'[u] = plans[u]
  PROVE  OrderInv' /\ EntryInv'
<1>1. /\ Entries(t)' = Entries(t) \cup {e}
      /\ \A u \in Txn \ {t} : events'[u] = events[u] /\ Entries(u)' = Entries(u)
      /\ DOMAIN events[t] = 1..Len(events[t]) /\ Len(events[t]) \in Nat
      /\ DOMAIN events'[t] = 1..(Len(events[t]) + 1)
      /\ \A j \in DOMAIN events[t] : events'[t][j] = events[t][j]
      /\ events'[t][Len(events[t]) + 1] = e
  BY AppendEntries
<1>2. ASSUME NEW u \in Txn, NEW j \in DOMAIN events'[u], NEW k \in DOMAIN events'[u], j < k
      PROVE  Rank(events'[u][j].type, events'[u][j].step) < Rank(events'[u][k].type, events'[u][k].step)
  <2>1. CASE u # t
    BY <2>1, <1>1, <1>2 DEF OrderInv
  <2>2. CASE u = t
    <3>1. j \in DOMAIN events[t] /\ events'[t][j] = events[t][j]
      BY <2>2, <1>1, <1>2
    <3>2. CASE k \in DOMAIN events[t]
      BY <3>1, <3>2, <2>2, <1>1, <1>2 DEF OrderInv
    <3>3. CASE k = Len(events[t]) + 1
      <4>1. events[t][j] \in Entries(t)
        BY <3>1, EntryType
      <4> QED
        BY <4>1, <3>1, <3>3, <2>2, <1>1 DEF Below
    <3> QED
      BY <3>2, <3>3, <2>2, <1>1
  <2> QED
    BY <2>1, <2>2
<1>3. ASSUME NEW u \in Txn
      PROVE  /\ plans'[u] = None <=> events'[u] = <<>>
             /\ events'[u] # <<>> => events'[u][1].type = "PLAN_REGISTERED"
             /\ \A f \in Entries(u)' : Proper(f) /\ Backed(Entries(u)', f)
  <2>1. CASE u # t
    BY <2>1, <1>1 DEF EntryInv
  <2>2. CASE u = t
    <3>1. events'[t] # <<>>
      BY <1>1
    <3>2. events'[t][1].type = "PLAN_REGISTERED"
      <4>1. CASE events[t] = <<>>
        BY <4>1, <1>1
      <4>2. CASE events[t] # <<>>
        <5>1. 1 \in DOMAIN events[t]
          BY <4>2, <1>1 DEF TypeOK
        <5> QED
          BY <4>2, <5>1, <1>1 DEF EntryInv
      <4> QED
        BY <4>1, <4>2
    <3>3. \A f \in Entries(t)' : Proper(f) /\ Backed(Entries(t)', f)
      <4>1. \A f \in Entries(t) \cup {e} : Proper(f) /\ Backed(Entries(t), f)
        BY DEF EntryInv
      <4>2. \A f : Backed(Entries(t), f) => Backed(Entries(t)', f)
        BY <1>1, Grows
      <4> QED
        BY <4>1, <4>2, <1>1
    <3> QED
      BY <2>2, <3>1, <3>2, <3>3
  <2> QED
    BY <2>1, <2>2
<1>4. OrderInv'
  BY <1>2 DEF OrderInv
<1>5. EntryInv'
  BY <1>3 DEF EntryInv
<1> QED
  BY <1>4, <1>5
-----------------------------------------------------------------------------
(* What a step of run() logs, and where it leaves the run() *)

\* A run() that is on its way knows its transaction, and has the log it should have.
LEMMA Here ==
  ASSUME IInv, HistoryInv, NEW s \in Session, ~At(s, "idle")
  PROVE  /\ TypeOK /\ run[s] \in Runs /\ run[s].cur \in Steps
         /\ run[s].txn \in Txn /\ run[s].op \in Operation
         /\ RoomOK(run[s], Entries(run[s].txn)) /\ LoggedOK(run[s], Entries(run[s].txn))
         /\ run[s].pc \in Owning =>
              plans[run[s].txn] # None /\ events[run[s].txn] # <<>>
<1>1. TypeOK /\ OwnerInv /\ RunOK(s)
  BY DEF IInv, HistoryInv, RunInv
<1>2. run[s].txn \in Txn /\ run[s].op \in Operation
  BY <1>1, OwnerNamed
<1>3. run[s].pc \in Owning => plans[run[s].txn] = run[s].op
  BY <1>1 DEF OwnerInv, OwnerOK
<1> QED
  BY <1>1, <1>2, <1>3, PlanAssumption DEF RunOK, TypeOK, Runs, HistoryInv, EntryInv

\* The places of the steps to undo lie after those of the plan, the later ones first.
LEMMA Undo ==
  ASSUME NEW i \in Steps
  PROVE  /\ Undoing(i) \in Int /\ 3 * NumSteps + 3 <= Undoing(i) /\ Undoing(i) + 1 < Final
         /\ \A j \in Steps : j < i => Undoing(i) + 1 < Undoing(j)
         /\ Final \in Int /\ NumSteps \in Int /\ i \in Int /\ 1 <= i /\ i <= NumSteps
BY PlanAssumption DEF Undoing, Final, Steps

\* The session s logs e in its transaction t, in its place, in its form, for its reason.
Logs(s, t, e) ==
  /\ events' = [events EXCEPT ![t] = Append(@, e)]
  /\ e \in Events /\ Proper(e) /\ Backed(Entries(t), e)
  /\ Below(Entries(t), Rank(e.type, e.step))
  /\ events[t] = <<>> => e.type = "PLAN_REGISTERED"

\* The run() of s goes on in t, and has the log it should have.
Lands(s, t) ==
  /\ run'[s].txn = t
  /\ RoomOK(run'[s], Entries(t)') /\ LoggedOK(run'[s], Entries(t)')

\* After e, the log is below whatever comes after e.
LEMMA LogsBelow ==
  ASSUME TypeOK, NEW s, NEW t \in Txn, NEW e, Logs(s, t, e)
  PROVE  /\ Entries(t)' = Entries(t) \cup {e} /\ e \in Entries(t)'
         /\ \A n \in Int : Rank(e.type, e.step) < n => Below(Entries(t)', n)
         /\ \A type, i : Has(Entries(t), type, i) => Has(Entries(t)', type, i)
         /\ \A i : Applied(Entries(t), i) => Applied(Entries(t)', i)
         /\ \A i : Executed(Entries(t), i) => Executed(Entries(t)', i)
         /\ \A i : Done(Entries(t), i) => Done(Entries(t)', i)
<1>1. e \in Events /\ Entries(t)' = Entries(t) \cup {e}
  BY AppendEntries DEF Logs
<1>2. ASSUME NEW n \in Int, Rank(e.type, e.step) < n PROVE Below(Entries(t)', n)
  <2>1. \A f \in Entries(t) : Rank(f.type, f.step) < Rank(e.type, e.step)
    BY DEF Logs, Below
  <2>2. Rank(e.type, e.step) \in Int /\ \A f \in Entries(t) : Rank(f.type, f.step) \in Int
    BY <1>1, EntryType, RankType
  <2> QED
    BY <2>1, <2>2, <1>1, <1>2 DEF Below
<1>3. Entries(t) \subseteq Entries(t)'
  BY <1>1
<1> QED
  BY <1>1, <1>2, <1>3, Grows

\* A log that is below one rank is below the ranks after it.
LEMMA BelowMore ==
  ASSUME TypeOK, NEW t \in Txn, NEW n \in Int, NEW m \in Int, n <= m, Below(Entries(t), n)
  PROVE  Below(Entries(t), m)
<1>1. \A f \in Entries(t) : Rank(f.type, f.step) \in Int
  BY EntryType, RankType
<1> QED
  BY <1>1 DEF Below

\* The events that run() logs.
LEMMA EventIs ==
  /\ \A type \in Wholes :
       Bare(type) \in Events /\ Bare(type).type = type /\ Bare(type).step = 0
  /\ \A type \in Types, i \in Steps, st \in Statuses, ch \in Changes :
       LET e == Event(type, i, st, ch) IN
       e \in Events /\ e.type = type /\ e.step = i /\ e.status = st /\ e.change = ch
  /\ \A type \in Types, i \in Steps :
       LET e == OfStep(type, i) IN
       e \in Events /\ e.type = type /\ e.step = i /\ e.status = "none" /\ e.change = "none"
<1>1. NumSteps \in Nat /\ 0 \in 0..NumSteps /\ \A i \in Steps : i \in 0..NumSteps
  BY PlanAssumption DEF Steps
<1>2. "none" \in Statuses /\ "none" \in Changes /\ Wholes \subseteq Types
  BY DEF Statuses, Changes, Wholes, Types
<1> QED
  BY <1>1, <1>2 DEF Bare, OfStep, Event, Events

\* _register_plan: the first entry, of an empty log.
LEMMA RegisterLogs ==
  ASSUME IInv, HistoryInv, NEW s \in Session, NEW t \in Txn, t = run[s].txn, RegisterPlan(s)
  PROVE  Logs(s, t, Bare("PLAN_REGISTERED")) /\ Lands(s, t)
<1> DEFINE e == Bare("PLAN_REGISTERED")
<1>1. TypeOK /\ plans[t] = None /\ run[s].pc = "register" /\ LoggedOK(run[s], Entries(t))
  BY Here DEF RegisterPlan, At
<1>2. events[t] = <<>> /\ Entries(t) = {}
  BY <1>1 DEF HistoryInv, EntryInv, Entries, Range
<1>3. e \in Events /\ e.type = "PLAN_REGISTERED" /\ e.step = 0
  BY EventIs DEF Wholes
<1>4. Proper(e) /\ Backed(Entries(t), e)
  BY <1>3 DEF Proper, Backed, Wholes
<1>5. Logs(s, t, e)
  BY <1>2, <1>3, <1>4 DEF RegisterPlan, Log, Logs, Below
<1>6. run'[s].pc \in {"snapshot", "safeFailure"} /\ run'[s].txn = t /\ run'[s].todo = {}
  BY <1>1, GotoMoves DEF RegisterPlan, LoggedOK
<1>7. Rank(e.type, e.step) = 0
  BY <1>3, Ranks
<1>8. Below(Entries(t)', 1)
  <2> HIDE DEF e
  <2> QED
    <3>1. \A n \in Int : Rank(e.type, e.step) < n => Below(Entries(t)', n)
      BY <1>1, <1>5, LogsBelow
    <3> QED
      BY <3>1, <1>7
<1> QED
  BY <1>5, <1>6, <1>8 DEF Lands, RoomOK, LoggedOK, Forward

\* _safe_failure: before any snapshot, hence before any step.
LEMMA SafeFailureLogs ==
  ASSUME IInv, HistoryInv, NEW s \in Session, NEW t \in Txn, t = run[s].txn, SafeFailure(s)
  PROVE  Logs(s, t, Bare("SAFE_FAILURE")) /\ Lands(s, t)
<1> DEFINE e == Bare("SAFE_FAILURE")
<1>1. /\ TypeOK /\ run[s].pc = "safeFailure" /\ events[t] # <<>>
      /\ RoomOK(run[s], Entries(t)) /\ LoggedOK(run[s], Entries(t))
  BY Here DEF SafeFailure, At, Owning
<1>2. e \in Events /\ e.type = "SAFE_FAILURE" /\ e.step = 0 /\ Rank(e.type, e.step) = 1
  BY EventIs, Ranks DEF Wholes
<1>3. Proper(e) /\ Backed(Entries(t), e)
  BY <1>2 DEF Proper, Backed, Wholes
<1>4. Logs(s, t, e)
  BY <1>1, <1>2, <1>3 DEF SafeFailure, Log, Logs, RoomOK
<1>5. run'[s].pc = "fail" /\ run'[s].txn = t /\ run'[s].todo = run[s].todo
  BY <1>1, GotoMoves DEF SafeFailure
<1>6. \A i \in run'[s].todo : Applied(Entries(t)', i)
  BY <1>1, <1>4, <1>5, LogsBelow DEF LoggedOK, Owning
<1> QED
  BY <1>4, <1>5, <1>6 DEF Lands, RoomOK, LoggedOK, Forward

\* SNAPSHOT_CAPTURED is there when the first step starts.
LEMMA CaptureLogs ==
  ASSUME IInv, HistoryInv, NEW s \in Session, NEW t \in Txn, t = run[s].txn, CaptureSnapshot(s)
  PROVE  Logs(s, t, Bare("SNAPSHOT_CAPTURED")) /\ Lands(s, t)
<1> DEFINE e == Bare("SNAPSHOT_CAPTURED")
<1>1. /\ TypeOK /\ run[s].pc = "snapshot" /\ events[t] # <<>> /\ run[s].cur = 1
      /\ RoomOK(run[s], Entries(t)) /\ LoggedOK(run[s], Entries(t))
  BY Here DEF CaptureSnapshot, At, Owning, Forward, IInv, AheadInv, AheadOK
<1>2. e \in Events /\ e.type = "SNAPSHOT_CAPTURED" /\ e.step = 0 /\ Rank(e.type, e.step) = 1
  BY EventIs, Ranks DEF Wholes
<1>3. Proper(e) /\ Backed(Entries(t), e)
  BY <1>2 DEF Proper, Backed, Wholes
<1>4. Logs(s, t, e)
  BY <1>1, <1>2, <1>3 DEF CaptureSnapshot, Log, Logs, RoomOK
<1>5. run'[s].pc = "start" /\ run'[s].txn = t /\ run'[s].todo = run[s].todo /\ run'[s].cur = 1
  BY <1>1, GotoMoves DEF CaptureSnapshot
<1>6. \A i \in run'[s].todo : Applied(Entries(t)', i)
  BY <1>1, <1>4, <1>5, LogsBelow DEF LoggedOK, Owning, Forward
<1>7. Has(Entries(t)', "SNAPSHOT_CAPTURED", 0) /\ Below(Entries(t)', 3)
  <2> HIDE DEF e
  <2>0. /\ e \in Entries(t)'
        /\ \A n \in Int : Rank(e.type, e.step) < n => Below(Entries(t)', n)
    BY <1>1, <1>4, LogsBelow
  <2>1. e \in Entries(t)' /\ Below(Entries(t)', 3)
    BY <2>0, <1>2
  <2> QED
    BY <2>1, <1>2 DEF Has
<1> QED
  BY <1>4, <1>5, <1>6, <1>7 DEF Lands, RoomOK, LoggedOK, Forward

\* STEP_EXECUTION_STARTED is logged after all of the steps before, and before the call.
LEMMA StartLogs ==
  ASSUME IInv, HistoryInv, NEW s \in Session, NEW t \in Txn, t = run[s].txn, StartStep(s)
  PROVE  Logs(s, t, OfStep("STEP_EXECUTION_STARTED", run[s].cur)) /\ Lands(s, t)
<1> DEFINE i == run[s].cur
           e == OfStep("STEP_EXECUTION_STARTED", i)
<1>1. /\ TypeOK /\ run[s].pc = "start" /\ events[t] # <<>> /\ i \in Steps
      /\ RoomOK(run[s], Entries(t)) /\ LoggedOK(run[s], Entries(t))
  BY Here DEF StartStep, At, Owning, Forward
<1>2. /\ e \in Events /\ e.type = "STEP_EXECUTION_STARTED" /\ e.step = i
      /\ Rank(e.type, e.step) = 3 * i
  BY <1>1, EventIs, Ranks DEF Types
<1>3. Proper(e) /\ Backed(Entries(t), e)
  BY <1>1, <1>2 DEF Proper, Backed, Wholes, LoggedOK, Forward
<1>4. Logs(s, t, e)
  BY <1>1, <1>2, <1>3 DEF StartStep, Log, Logs, RoomOK
<1>5. run'[s].pc = "execute" /\ run'[s].txn = t /\ run'[s].todo = run[s].todo /\ run'[s].cur = i
  BY <1>1, GotoMoves DEF StartStep
<1>6. /\ \A j \in run'[s].todo : Applied(Entries(t)', j)
      /\ Has(Entries(t)', "SNAPSHOT_CAPTURED", 0)
      /\ \A j \in 1..(i - 1) : Done(Entries(t)', j)
  BY <1>1, <1>4, <1>5, LogsBelow DEF LoggedOK, Owning, Forward
<1>7. Has(Entries(t)', "STEP_EXECUTION_STARTED", i) /\ Below(Entries(t)', 3 * i + 1)
  <2> HIDE DEF e
  <2>1. 3 * i + 1 \in Int /\ 3 * i < 3 * i + 1
    BY <1>1, Undo
  <2>0. /\ e \in Entries(t)'
        /\ \A n \in Int : Rank(e.type, e.step) < n => Below(Entries(t)', n)
    BY <1>1, <1>4, LogsBelow
  <2>2. e \in Entries(t)' /\ Below(Entries(t)', 3 * i + 1)
    BY <2>0, <2>1, <1>2
  <2> QED
    BY <2>2, <1>2 DEF Has
<1> QED
  BY <1>4, <1>5, <1>6, <1>7 DEF Lands, RoomOK, LoggedOK, Forward

\* Every answer a driver may give can be recorded.
LEMMA ExecuteLands ==
  ASSUME IInv, HistoryInv, NEW s \in Session, NEW t \in Txn, t = run[s].txn, ExecuteStep(s)
  PROVE  events' = events /\ Lands(s, t)
<1>1. /\ TypeOK /\ run[s].pc = "execute" /\ events' = events /\ Entries(t)' = Entries(t)
      /\ RoomOK(run[s], Entries(t)) /\ LoggedOK(run[s], Entries(t))
  BY Here DEF ExecuteStep, At, Entries
<1>2. /\ run'[s].pc = "record" /\ run'[s].cur = run[s].cur /\ run'[s].todo = run[s].todo
      /\ run'[s].txn = t
  BY <1>1, ExecuteMoves
<1>3. run'[s].status \in {"SUCCEEDED", "FAILED", "UNKNOWN"} /\ run'[s].change # "none"
  BY <1>1 DEF TypeOK, Runs, ExecuteStep, Becomes, Answers
<1> QED
  BY <1>1, <1>2, <1>3 DEF Lands, RoomOK, LoggedOK, Forward, Owning

\* STEP_EXECUTION_RECORDED answers the start of its step, and nothing later is there yet.
LEMMA RecordLogs ==
  ASSUME IInv, HistoryInv, NEW s \in Session, NEW t \in Txn, t = run[s].txn, RecordStep(s)
  PROVE  /\ Logs(s, t, Event("STEP_EXECUTION_RECORDED", run[s].cur, run[s].status, run[s].change))
         /\ Lands(s, t)
<1> DEFINE i == run[s].cur
           e == Event("STEP_EXECUTION_RECORDED", i, run[s].status, run[s].change)
<1>1. /\ TypeOK /\ run[s].pc = "record" /\ events[t] # <<>> /\ i \in Steps
      /\ RoomOK(run[s], Entries(t)) /\ LoggedOK(run[s], Entries(t)) /\ run[s] \in Runs
  BY Here DEF RecordStep, At, Owning, Forward
<1>2. /\ run[s].status \in {"SUCCEEDED", "FAILED", "UNKNOWN"} \cap Statuses
      /\ run[s].change \in Changes \ {"none"}
  BY <1>1 DEF LoggedOK, Runs
<1>3. /\ e \in Events /\ e.type = "STEP_EXECUTION_RECORDED" /\ e.step = i
      /\ e.status = run[s].status /\ e.change = run[s].change
  BY <1>1, <1>2, EventIs DEF Types
<1>4. Rank(e.type, e.step) = 3 * i + 1
  BY <1>3, Ranks
<1>5. Proper(e) /\ Backed(Entries(t), e)
  BY <1>1, <1>2, <1>3 DEF Proper, Backed, Wholes, LoggedOK
<1>6. Logs(s, t, e)
  BY <1>1, <1>3, <1>4, <1>5 DEF RecordStep, Log, Logs, RoomOK
<1> HIDE DEF e
<1>7. /\ e \in Entries(t)'
      /\ \A n \in Int : Rank(e.type, e.step) < n => Below(Entries(t)', n)
      /\ \A j \in run[s].todo : Applied(Entries(t)', j)
      /\ Has(Entries(t)', "SNAPSHOT_CAPTURED", 0)
      /\ \A j \in 1..(i - 1) : Done(Entries(t)', j)
  BY <1>1, <1>6, LogsBelow DEF LoggedOK, Owning, Forward
<1>8. /\ run'[s].txn = t
      /\ run'[s].todo = IF run[s].change = "APPLIED" THEN run[s].todo \cup {i} ELSE run[s].todo
      /\ \/ run'[s].pc = "verify" /\ run'[s].cur = i
         \/ run'[s].pc = "compensate"
  BY <1>1, RecordMoves
<1>9. run'[s].pc = "verify" => run[s].status = "SUCCEEDED"
  BY <1>1, CompensateMoves DEF RecordStep
<1>10. \A j \in run'[s].todo : Applied(Entries(t)', j) /\ j \in Steps
  BY <1>1, <1>3, <1>7, <1>8 DEF Applied, Runs
<1>11. CASE run'[s].pc = "verify"
  <2>1. Executed(Entries(t)', i)
    BY <1>3, <1>7, <1>9, <1>11 DEF Executed
  <2>2. Below(Entries(t)', 3 * i + 2)
    BY <1>1, <1>4, <1>7, Undo
  <2> QED
    BY <1>6, <1>7, <1>8, <1>10, <1>11, <2>1, <2>2 DEF Lands, RoomOK, LoggedOK, Forward, e
<1>12. CASE run'[s].pc = "compensate"
  <2>1. 3 * i + 1 < Final /\ Final \in Int
    BY <1>1, Undo DEF Final
  <2>2. \A j \in Steps : 3 * i + 1 < Undoing(j) /\ Undoing(j) \in Int
    BY <1>1, Undo
  <2>3. Below(Entries(t)', Final) /\ \A j \in run'[s].todo : Below(Entries(t)', Undoing(j))
    BY <1>4, <1>7, <1>10, <2>1, <2>2
  <2> QED
    BY <1>6, <1>8, <1>10, <1>12, <2>3 DEF Lands, RoomOK, LoggedOK, Forward, e
<1> QED
  BY <1>8, <1>11, <1>12

\* POSTCONDITION_RECORDED follows a step that succeeded; then all steps up to it are done.
LEMMA VerifyLogs ==
  ASSUME IInv, HistoryInv, NEW s \in Session, NEW t \in Txn, t = run[s].txn, VerifyPostcondition(s)
  PROVE  \E post \in {"SATISFIED", "FAILED", "UNKNOWN"} :
           Logs(s, t, Event("POSTCONDITION_RECORDED", run[s].cur, post, "none")) /\ Lands(s, t)
<1> DEFINE i == run[s].cur
<1>1. /\ TypeOK /\ run[s].pc = "verify" /\ events[t] # <<>> /\ i \in Steps
      /\ RoomOK(run[s], Entries(t)) /\ LoggedOK(run[s], Entries(t)) /\ run[s] \in Runs
  BY Here DEF VerifyPostcondition, At, Owning, Forward
<1>2. PICK post \in {"SATISFIED", "FAILED", "UNKNOWN"} :
        /\ Log(s, Event("POSTCONDITION_RECORDED", i, post, "none"))
        /\ \/ Compensate(s, run[s].todo, post = "UNKNOWN")
           \/ /\ post = "SATISFIED" /\ i < NumSteps
              /\ Becomes(s, [run[s] EXCEPT !.pc = "start", !.cur = @ + 1])
           \/ post = "SATISFIED" /\ i = NumSteps /\ Goto(s, "receipt")
  BY DEF VerifyPostcondition
<1> DEFINE e == Event("POSTCONDITION_RECORDED", i, post, "none")
<1>3. /\ e \in Events /\ e.type = "POSTCONDITION_RECORDED" /\ e.step = i
      /\ e.status = post /\ e.change = "none"
  BY <1>1, EventIs DEF Types, Statuses, Changes
<1>4. Rank(e.type, e.step) = 3 * i + 2
  BY <1>3, Ranks
<1>5. Proper(e) /\ Backed(Entries(t), e)
  BY <1>1, <1>3 DEF Proper, Backed, Wholes, LoggedOK, Executed, Has
<1>6. Logs(s, t, e)
  BY <1>1, <1>2, <1>3, <1>4, <1>5 DEF Log, Logs, RoomOK
<1> HIDE DEF e
<1>7. /\ e \in Entries(t)'
      /\ \A n \in Int : Rank(e.type, e.step) < n => Below(Entries(t)', n)
      /\ \A j \in run[s].todo : Applied(Entries(t)', j)
      /\ Has(Entries(t)', "SNAPSHOT_CAPTURED", 0)
      /\ \A j \in 1..(i - 1) : Done(Entries(t)', j)
      /\ Executed(Entries(t)', i)
  <2>1. /\ \A j \in run[s].todo : Applied(Entries(t), j)
        /\ Has(Entries(t), "SNAPSHOT_CAPTURED", 0)
        /\ \A j \in 1..(i - 1) : Done(Entries(t), j)
        /\ Executed(Entries(t), i)
    BY <1>1 DEF LoggedOK, Owning, Forward
  <2> QED
    BY <1>1, <1>6, <2>1, LogsBelow
<1>8. post = "SATISFIED" => \A j \in 1..i : Done(Entries(t)', j)
  <2>1. post = "SATISFIED" => Done(Entries(t)', i)
    BY <1>3, <1>7 DEF Done
  <2>2. \A j \in 1..i : j = i \/ j \in 1..(i - 1)
    BY <1>1, Undo
  <2> QED
    BY <1>7, <2>1, <2>2
<1>9. CASE Compensate(s, run[s].todo, post = "UNKNOWN")
  <2>1. run'[s].pc = "compensate" /\ run'[s].todo = run[s].todo /\ run'[s].txn = t
    BY <1>1, <1>9, CompensateMoves
  <2>2. 3 * i + 2 < Final /\ Final \in Int
    BY <1>1, Undo DEF Final
  <2>3. \A j \in Steps : 3 * i + 2 < Undoing(j) /\ Undoing(j) \in Int
    BY <1>1, Undo
  <2>4. Below(Entries(t)', Final) /\ \A j \in run'[s].todo : Below(Entries(t)', Undoing(j))
    BY <1>1, <1>4, <1>7, <2>1, <2>2, <2>3 DEF Runs
  <2> QED
    BY <1>6, <1>7, <2>1, <2>4 DEF Lands, RoomOK, LoggedOK, Forward, e
<1>10. CASE /\ post = "SATISFIED" /\ i < NumSteps
            /\ Becomes(s, [run[s] EXCEPT !.pc = "start", !.cur = @ + 1])
  <2>1. /\ run'[s].pc = "start" /\ run'[s].todo = run[s].todo /\ run'[s].txn = t
        /\ run'[s].cur = i + 1
    BY <1>1, <1>10 DEF Becomes, TypeOK, Runs
  <2>2. 3 * i + 2 < 3 * (i + 1) /\ 3 * (i + 1) \in Int /\ (i + 1) - 1 = i
    BY <1>1, Undo
  <2>3. Below(Entries(t)', 3 * (i + 1))
    BY <1>4, <1>7, <2>2
  <2> QED
    BY <1>6, <1>7, <1>8, <1>10, <2>1, <2>2, <2>3 DEF Lands, RoomOK, LoggedOK, Forward, e
<1>11. CASE post = "SATISFIED" /\ i = NumSteps /\ Goto(s, "receipt")
  <2>1. run'[s].pc = "receipt" /\ run'[s].todo = run[s].todo /\ run'[s].txn = t
    BY <1>1, <1>11, GotoMoves
  <2>2. 3 * i + 2 < 3 * NumSteps + 3 /\ 3 * NumSteps + 3 \in Int
    BY <1>1, <1>11, Undo
  <2>3. Below(Entries(t)', 3 * NumSteps + 3)
    BY <1>4, <1>7, <2>2
  <2>4. \A j \in Steps : Done(Entries(t)', j)
    BY <1>8, <1>11 DEF Steps
  <2> QED
    BY <1>6, <1>7, <2>1, <2>3, <2>4 DEF Lands, RoomOK, LoggedOK, Forward, e
<1> QED
  BY <1>2, <1>9, <1>10, <1>11

\* What a run() does without a word in the log leaves it where its log belongs.
LEMMA QuietLands ==
  ASSUME IInv, HistoryInv, NEW s \in Session, NEW t \in Txn, t = run[s].txn,
         \/ SnapshotFails(s) \/ SuccessReceipt(s) \/ CompensateStep(s) \/ CompensationEnds(s)
         \/ \E i \in Steps : SkipStep(s, i)
  PROVE  events' = events /\ Lands(s, t)
<1>1. ~At(s, "idle") /\ run[s].pc \in Owning
  BY DEF SnapshotFails, SuccessReceipt, CompensateStep, CompensationEnds, SkipStep, At, Owning,
         Forward, Backward
<1>2. /\ TypeOK /\ run[s] \in Runs /\ run[s].cur \in Steps
      /\ RoomOK(run[s], Entries(t)) /\ LoggedOK(run[s], Entries(t))
      /\ \A j \in run[s].todo : Applied(Entries(t), j)
  BY <1>1, Here DEF LoggedOK
<1>3. events' = events /\ Entries(t)' = Entries(t)
  BY DEF SnapshotFails, SuccessReceipt, CompensateStep, CompensationEnds, SkipStep, Entries
<1>4. CASE SnapshotFails(s)
  <2>1. run[s].pc = "snapshot" /\ run'[s].pc = "safeFailure"
        /\ run'[s].txn = t /\ run'[s].todo = run[s].todo
    BY <1>2, <1>4, GotoMoves DEF SnapshotFails, At
  <2> QED
    BY <1>2, <1>3, <2>1 DEF Lands, RoomOK, LoggedOK, Forward
<1>5. CASE SuccessReceipt(s)
  <2>1. run[s].pc = "receipt" /\ run'[s].txn = t /\ run'[s].todo = run[s].todo
        /\ run'[s].pc \in {"succeed", "compensate"}
    <3>1. CASE Goto(s, "succeed")
      BY <1>2, <1>5, <3>1, GotoMoves DEF SuccessReceipt, At
    <3>2. CASE Compensate(s, run[s].todo, TRUE)
      BY <1>2, <1>5, <3>2, CompensateMoves DEF SuccessReceipt, At
    <3> QED
      BY <1>5, <3>1, <3>2 DEF SuccessReceipt
  <2>2. /\ Below(Entries(t), 3 * NumSteps + 3) /\ Has(Entries(t), "SNAPSHOT_CAPTURED", 0)
        /\ \A j \in Steps : Done(Entries(t), j)
    BY <1>2, <2>1 DEF RoomOK, LoggedOK, Forward
  <2>3. /\ 3 * NumSteps + 3 \in Int /\ Final \in Int /\ 3 * NumSteps + 3 <= Final
        /\ \A j \in Steps : Undoing(j) \in Int /\ 3 * NumSteps + 3 <= Undoing(j)
    BY PlanAssumption, Undo DEF Final
  <2>4. Below(Entries(t), Final) /\ \A j \in run[s].todo : Below(Entries(t), Undoing(j))
    BY <1>2, <2>2, <2>3, BelowMore DEF Runs
  <2> QED
    BY <1>2, <1>3, <2>1, <2>2, <2>4 DEF Lands, RoomOK, LoggedOK, Forward
<1>6. CASE CompensateStep(s)
  <2>1. run[s].pc = "undo" /\ run'[s].pc = "recordUndo" /\ run'[s].txn = t
        /\ run'[s].todo = run[s].todo /\ run'[s].cur = run[s].cur
    BY <1>2, <1>6, DriverUndoMoves DEF CompensateStep, At
  <2>2. run'[s].status \in {"RESTORED", "FAILED", "UNKNOWN"}
    BY <1>2, <1>6 DEF TypeOK, Runs, CompensateStep, Becomes
  <2> QED
    BY <1>2, <1>3, <2>1, <2>2 DEF Lands, RoomOK, LoggedOK, Forward
<1>7. CASE CompensationEnds(s)
  <2>1. run[s].pc = "compensate" /\ run'[s].pc \in {"recovery", "fail"} /\ run'[s].txn = t
        /\ run'[s].todo = run[s].todo
    BY <1>2, <1>7, GotoMoves DEF CompensationEnds, At
  <2> QED
    BY <1>2, <1>3, <2>1 DEF Lands, RoomOK, LoggedOK, Forward
<1>8. CASE \E i \in Steps : SkipStep(s, i)
  <2>1. PICK i \in Steps : SkipStep(s, i)
    BY <1>8
  <2>2. run[s].pc = "compensate" /\ run'[s].pc = "compensate" /\ run'[s].txn = t
        /\ run'[s].todo \subseteq run[s].todo
    BY <1>2, <2>1 DEF TypeOK, Runs, SkipStep, At, Becomes
  <2> QED
    BY <1>2, <1>3, <2>2 DEF Lands, RoomOK, LoggedOK, Forward
<1> QED
  BY <1>4, <1>5, <1>6, <1>7, <1>8

\* COMPENSATION_STARTED follows all that undoes a later step of the plan.
LEMMA StartUndoLogs ==
  ASSUME IInv, HistoryInv, NEW s \in Session, NEW t \in Txn, t = run[s].txn,
         NEW i \in Steps, StartCompensation(s, i)
  PROVE  Logs(s, t, OfStep("COMPENSATION_STARTED", i)) /\ Lands(s, t)
<1> DEFINE e == OfStep("COMPENSATION_STARTED", i)
<1>1. /\ TypeOK /\ run[s].pc = "compensate" /\ events[t] # <<>> /\ run[s] \in Runs
      /\ RoomOK(run[s], Entries(t)) /\ LoggedOK(run[s], Entries(t))
  BY Here DEF StartCompensation, At, Owning, Backward
<1>2. i \in run[s].todo /\ \A j \in run[s].todo : j <= i
  BY DEF StartCompensation, IsNext
<1>3. Below(Entries(t), Undoing(i)) /\ \A j \in run[s].todo : Applied(Entries(t), j)
  BY <1>1, <1>2 DEF RoomOK, LoggedOK, Owning, Backward
<1>4. /\ e \in Events /\ e.type = "COMPENSATION_STARTED" /\ e.step = i
      /\ Rank(e.type, e.step) = Undoing(i)
  BY EventIs, Ranks DEF Types
<1>5. Proper(e) /\ Backed(Entries(t), e)
  BY <1>2, <1>3, <1>4 DEF Proper, Backed, Wholes
<1>6. Logs(s, t, e)
  BY <1>1, <1>3, <1>4, <1>5 DEF StartCompensation, Log, Logs
<1>7. /\ run'[s].pc = "undo" /\ run'[s].txn = t /\ run'[s].todo = run[s].todo
      /\ run'[s].cur = i
  BY <1>1, UndoMoves
<1> HIDE DEF e
<1>8. /\ e \in Entries(t)'
      /\ \A n \in Int : Rank(e.type, e.step) < n => Below(Entries(t)', n)
      /\ \A j \in run[s].todo : Applied(Entries(t)', j)
  BY <1>1, <1>3, <1>6, LogsBelow
<1>9. Undoing(i) + 1 \in Int /\ Undoing(i) < Undoing(i) + 1
  BY Undo
<1>10. Has(Entries(t)', "COMPENSATION_STARTED", i) /\ Below(Entries(t)', Undoing(i) + 1)
  BY <1>4, <1>8, <1>9 DEF Has
<1> QED
  BY <1>2, <1>6, <1>7, <1>8, <1>10 DEF Lands, RoomOK, LoggedOK, Forward, e

\* COMPENSATION_RECORDED answers its start; what is left to undo comes earlier in the plan.
LEMMA RecordUndoLogs ==
  ASSUME IInv, HistoryInv, NEW s \in Session, NEW t \in Txn, t = run[s].txn,
         RecordCompensation(s)
  PROVE  /\ Logs(s, t, Event("COMPENSATION_RECORDED", run[s].cur, run[s].status, "none"))
         /\ Lands(s, t)
<1> DEFINE i == run[s].cur
           e == Event("COMPENSATION_RECORDED", i, run[s].status, "none")
<1>1. /\ TypeOK /\ run[s].pc = "recordUndo" /\ events[t] # <<>> /\ run[s] \in Runs
      /\ RoomOK(run[s], Entries(t)) /\ LoggedOK(run[s], Entries(t)) /\ i \in Steps
  BY Here DEF RecordCompensation, At, Owning, Backward
<1>2. /\ Below(Entries(t), Undoing(i) + 1) /\ \A j \in run[s].todo : j <= i
      /\ \A j \in run[s].todo : Applied(Entries(t), j)
      /\ Has(Entries(t), "COMPENSATION_STARTED", i)
      /\ run[s].status \in {"RESTORED", "FAILED", "UNKNOWN"} \cap Statuses
  BY <1>1 DEF RoomOK, LoggedOK, Owning, Backward, Runs
<1>3. /\ e \in Events /\ e.type = "COMPENSATION_RECORDED" /\ e.step = i
      /\ e.status = run[s].status
  BY <1>1, <1>2, EventIs DEF Types, Changes
<1>4. Rank(e.type, e.step) = Undoing(i) + 1
  BY <1>3, Ranks
<1>5. Proper(e) /\ Backed(Entries(t), e)
  BY <1>1, <1>2, <1>3 DEF Proper, Backed, Wholes
<1>6. Logs(s, t, e)
  BY <1>1, <1>2, <1>4, <1>3, <1>5 DEF RecordCompensation, Log, Logs
<1>7. /\ run'[s].pc = "compensate" /\ run'[s].txn = t /\ run'[s].todo = run[s].todo \ {i}
  BY <1>1, UndoMoves
<1> HIDE DEF e
<1>8. /\ \A n \in Int : Rank(e.type, e.step) < n => Below(Entries(t)', n)
      /\ \A j \in run[s].todo : Applied(Entries(t)', j)
  BY <1>1, <1>2, <1>6, LogsBelow
<1>9. \A j \in run'[s].todo : j \in Steps /\ j < i
  BY <1>1, <1>2, <1>7 DEF Runs, Steps
<1>10. /\ Undoing(i) + 1 < Final /\ Final \in Int
       /\ \A j \in run'[s].todo : Undoing(i) + 1 < Undoing(j) /\ Undoing(j) \in Int
  BY <1>1, <1>9, Undo
<1>11. Below(Entries(t)', Final) /\ \A j \in run'[s].todo : Below(Entries(t)', Undoing(j))
  BY <1>4, <1>8, <1>10
<1> QED
  BY <1>6, <1>7, <1>8, <1>11 DEF Lands, RoomOK, LoggedOK, Forward, e

\* RECOVERY_REQUIRED comes last.
LEMMA RequireLogs ==
  ASSUME IInv, HistoryInv, NEW s \in Session, NEW t \in Txn, t = run[s].txn, RequireRecovery(s)
  PROVE  Logs(s, t, Bare("RECOVERY_REQUIRED")) /\ Lands(s, t)
<1> DEFINE e == Bare("RECOVERY_REQUIRED")
<1>1. /\ TypeOK /\ run[s].pc = "recovery" /\ events[t] # <<>>
      /\ RoomOK(run[s], Entries(t)) /\ LoggedOK(run[s], Entries(t))
  BY Here DEF RequireRecovery, At, Owning, Backward
<1>2. e \in Events /\ e.type = "RECOVERY_REQUIRED" /\ e.step = 0 /\ Rank(e.type, e.step) = Final
  BY EventIs, Ranks DEF Wholes
<1>3. Proper(e) /\ Backed(Entries(t), e)
  BY <1>2 DEF Proper, Backed, Wholes
<1>4. Logs(s, t, e)
  BY <1>1, <1>2, <1>3 DEF RequireRecovery, Log, Logs, RoomOK
<1>5. run'[s].pc = "unknown" /\ run'[s].txn = t /\ run'[s].todo = run[s].todo
  BY <1>1, GotoMoves DEF RequireRecovery
<1>6. \A i \in run'[s].todo : Applied(Entries(t)', i)
  <2>1. \A i \in run[s].todo : Applied(Entries(t), i)
    BY <1>1 DEF LoggedOK, Owning, Backward
  <2> QED
    BY <1>1, <1>4, <1>5, <2>1, LogsBelow
<1> QED
  BY <1>4, <1>5, <1>6 DEF Lands, RoomOK, LoggedOK, Forward
-----------------------------------------------------------------------------
(* The parts of HistoryInv, step by step *)

\* The run() of s leaves, or enters.
Leaves(s) == run'[s].pc = "idle"
Enters(s) == run'[s].pc = "register" /\ run'[s].todo = {}

\* What a session does to the log, and where it is then.
LEMMA SessionLogs ==
  ASSUME IInv, HistoryInv, NEW s \in Session, Acts(s)
  PROVE  \/ events' = events /\ (Leaves(s) \/ Enters(s))
         \/ events' = events /\ run[s].pc \in Owning /\ Lands(s, run[s].txn)
         \/ /\ run[s].pc \in Owning \/ RegisterPlan(s)
            /\ \E e : Logs(s, run[s].txn, e)
            /\ Lands(s, run[s].txn)
<1>0. TypeOK
  BY DEF IInv
<1>1. ASSUME ~At(s, "idle")
      PROVE  run[s].txn \in Txn
  BY <1>1, Here
<1>2. CASE \/ RefusePlan(s) \/ Crash(s) \/ \E at, outcome : Finish(s, at, outcome)
  <2>1. events' = events /\ run'[s] = NoRun
    BY <1>0, <1>2 DEF RefusePlan, Crash, Finish, Leave, Becomes, TypeOK
  <2> QED
    BY <2>1, NoRunIdle DEF Leaves
<1>3. CASE \E t \in Txn, o \in Operation : CallRun(s, t, o)
  <2>1. events' = events /\ run'[s].pc = "register" /\ run'[s].todo = {}
    BY <1>0, <1>3 DEF CallRun, Becomes, NoRun, TypeOK
  <2> QED
    BY <2>1 DEF Enters
<1>4. CASE \/ SnapshotFails(s) \/ SuccessReceipt(s) \/ CompensateStep(s) \/ CompensationEnds(s)
           \/ \E i \in Steps : SkipStep(s, i)
  <2>1. run[s].pc \in Owning /\ ~At(s, "idle")
    BY <1>4 DEF SnapshotFails, SuccessReceipt, CompensateStep, CompensationEnds, SkipStep, At,
                Owning, Forward, Backward
  <2> QED
    BY <1>1, <1>4, <2>1, QuietLands
<1>5. CASE ExecuteStep(s)
  <2>1. run[s].pc \in Owning /\ ~At(s, "idle")
    BY <1>5 DEF ExecuteStep, At, Owning, Forward
  <2> QED
    BY <1>1, <1>5, <2>1, ExecuteLands
<1>6. CASE RegisterPlan(s)
  <2>1. ~At(s, "idle")
    BY <1>6 DEF RegisterPlan, At
  <2> QED
    BY <1>1, <1>6, <2>1, RegisterLogs
<1>7. CASE \/ SafeFailure(s) \/ CaptureSnapshot(s) \/ StartStep(s) \/ RecordStep(s)
           \/ VerifyPostcondition(s)
  <2>1. run[s].pc \in Owning /\ ~At(s, "idle")
    BY <1>7 DEF SafeFailure, CaptureSnapshot, StartStep, RecordStep, VerifyPostcondition, At,
                Owning, Forward
  <2> QED
    BY <1>1, <1>7, <2>1, SafeFailureLogs, CaptureLogs, StartLogs, RecordLogs, VerifyLogs
<1>8. CASE \/ RecordCompensation(s) \/ RequireRecovery(s)
           \/ \E i \in Steps : StartCompensation(s, i)
  <2>1. run[s].pc \in Owning /\ ~At(s, "idle")
    BY <1>8 DEF RecordCompensation, RequireRecovery, StartCompensation, At, Owning, Backward
  <2> QED
    BY <1>1, <1>8, <2>1, RecordUndoLogs, RequireLogs, StartUndoLogs
<1> QED
  BY <1>2, <1>3, <1>4, <1>5, <1>6, <1>7, <1>8 DEF Acts, Step

\* A session that owns its transaction, or registers it, is the only one to do so.
LEMMA Alone ==
  ASSUME IInv, NEW s \in Session, Acts(s), run[s].pc \in Owning \/ RegisterPlan(s)
  PROVE  /\ run[s].txn \in Txn
         /\ plans'[run[s].txn] # None
         /\ \A u \in Txn \ {run[s].txn} : plans'[u] = plans[u]
         /\ \A r \in Session \ {s} : run[r].pc \in Owning => run[r].txn # run[s].txn
<1>1. TypeOK /\ OwnerInv /\ ~At(s, "idle")
  BY DEF IInv, At, Owning, Forward, Backward, RegisterPlan
<1>2. run[s].txn \in Txn /\ run[s].op \in Operation /\ run[s].op # None
  BY <1>1, OwnerNamed, PlanAssumption
<1>3. CASE RegisterPlan(s)
  <2>1. plans[run[s].txn] = None /\ plans' = [plans EXCEPT ![run[s].txn] = run[s].op]
    BY <1>3 DEF RegisterPlan
  <2>2. \A r \in Session : run[r].pc \in Owning =>
          plans[run[r].txn] = run[r].op /\ run[r].op \in Operation
    BY <1>1 DEF OwnerInv, OwnerOK, At, Owning, Forward, Backward
  <2> QED
    BY <1>1, <1>2, <2>1, <2>2, PlanAssumption DEF TypeOK
<1>4. CASE ~RegisterPlan(s)
  <2>1. plans' = plans /\ run[s].pc \in Owning
    BY <1>4, PlansFrame
  <2>2. plans[run[s].txn] = run[s].op
    BY <1>1, <2>1 DEF OwnerInv, OwnerOK
  <2> QED
    BY <1>1, <1>2, <2>1, <2>2, Apart
<1> QED
  BY <1>3, <1>4

\* The logs stay in order, each entry in its form.
LEMMA EntriesStep ==
  ASSUME IInv, HistoryInv, NEW s \in Session, Acts(s)
  PROVE  OrderInv' /\ EntryInv'
<1>1. OrderInv /\ EntryInv /\ TypeOK
  BY DEF HistoryInv, IInv
<1>2. CASE events' = events
  <2>1. ~RegisterPlan(s)
    <3>1. SUFFICES ASSUME RegisterPlan(s) PROVE FALSE
      OBVIOUS
    <3>2. run[s].txn \in Txn
      BY <3>1, Alone
    <3>3. events' = [events EXCEPT ![run[s].txn] = Append(@, Bare("PLAN_REGISTERED"))]
      BY <3>1 DEF RegisterPlan, Log
    <3>4. events[run[s].txn] \in Seq(Events) /\ Bare("PLAN_REGISTERED") \in Events
      BY <1>1, <3>2, EventIs DEF TypeOK, Wholes
    <3>5. events'[run[s].txn] = Append(events[run[s].txn], Bare("PLAN_REGISTERED"))
      BY <1>1, <3>2, <3>3 DEF TypeOK
    <3> QED
      BY <1>2, <3>4, <3>5
  <2>2. plans' = plans
    BY <2>1, PlansFrame
  <2>3. \A t \in Txn : Entries(t)' = Entries(t)
    BY <1>2 DEF Entries
  <2> QED
    BY <1>1, <1>2, <2>2, <2>3 DEF OrderInv, EntryInv
<1>3. ASSUME run[s].pc \in Owning \/ RegisterPlan(s), NEW e, Logs(s, run[s].txn, e)
      PROVE  OrderInv' /\ EntryInv'
  <2>1. /\ run[s].txn \in Txn /\ plans'[run[s].txn] # None
        /\ \A u \in Txn \ {run[s].txn} : plans'[u] = plans[u]
    BY <1>3, Alone
  <2>2. /\ events' = [events EXCEPT ![run[s].txn] = Append(@, e)]
        /\ e \in Events /\ Proper(e) /\ Backed(Entries(run[s].txn), e)
        /\ Below(Entries(run[s].txn), Rank(e.type, e.step))
        /\ events[run[s].txn] = <<>> => e.type = "PLAN_REGISTERED"
    BY <1>3 DEF Logs
  <2> DEFINE t == run[s].txn
  <2> HIDE DEF t
  <2> QED
    BY <1>1, <2>1, <2>2, AppendKeeps
<1> QED
  BY <1>2, <1>3, SessionLogs

\* Every run() keeps the log it should have.
LEMMA RunOKStep ==
  ASSUME IInv, HistoryInv, NEW s \in Session, Acts(s)
  PROVE  RunInv'
<1>1. TypeOK /\ OwnerInv
  BY DEF IInv
<1>2. ASSUME ~At(s, "idle")'
      PROVE  RunOK(s)'
  <2>1. CASE Enters(s)
    BY <2>1 DEF Enters, RunOK, RoomOK, LoggedOK, Owning, Forward, Backward
  <2>2. CASE Lands(s, run[s].txn)
    BY <2>2 DEF Lands, RunOK
  <2> QED
    BY <1>2, <2>1, <2>2, SessionLogs DEF Leaves, At
<1>3. ASSUME NEW r \in Session \ {s}, ~At(r, "idle")'
      PROVE  RunOK(r)'
  <2>1. run'[r] = run[r]
    BY <1>1, RunFrame
  <2>2. RunOK(r) /\ run[r].txn \in Txn
    BY <1>3, <2>1, Here DEF HistoryInv, RunInv, At
  <2>3. CASE run[r].pc \notin Owning
    <3>1. run[r].pc = "register"
      BY <1>1, <1>3, <2>1, <2>3 DEF TypeOK, Runs, At
    <3> QED
      BY <2>1, <2>2, <3>1 DEF RunOK, RoomOK, LoggedOK, Owning, Forward, Backward
  <2>4. CASE run[r].pc \in Owning
    <3>1. Entries(run[r].txn)' = Range(events'[run[r].txn])
      BY <2>1 DEF Entries
    <3>2. events'[run[r].txn] = events[run[r].txn]
      <4>1. CASE events' = events
        BY <4>1
      <4>2. ASSUME run[s].pc \in Owning \/ RegisterPlan(s), NEW e, Logs(s, run[s].txn, e)
            PROVE  events'[run[r].txn] = events[run[r].txn]
        <5>1. run[r].txn # run[s].txn /\ run[s].txn \in Txn
          BY <2>4, <4>2, Alone
        <5> QED
          BY <1>1, <2>2, <4>2, <5>1 DEF Logs, TypeOK
      <4> QED
        BY <4>1, <4>2, SessionLogs
    <3>3. Range(events'[run'[r].txn]) = Range(events[run[r].txn])
      BY <2>1, <3>2
    <3> QED
      BY <2>1, <2>2, <3>3 DEF RunOK, Entries
  <2> QED
    BY <2>3, <2>4
<1> QED
  BY <1>2, <1>3 DEF RunInv

\* A log keeps its entries.
LEMMA EntriesGrow ==
  ASSUME IInv, HistoryInv, NEW s \in Session, Acts(s), NEW t \in Txn
  PROVE  /\ Entries(t) \subseteq Entries(t)'
         /\ (run[s].pc \in Owning \/ RegisterPlan(s) => run[s].txn # t) => Entries(t)' = Entries(t)
<1>1. TypeOK
  BY DEF IInv
<1>2. CASE events' = events
  BY <1>2 DEF Entries
<1>3. ASSUME run[s].pc \in Owning \/ RegisterPlan(s), NEW e, Logs(s, run[s].txn, e)
      PROVE  /\ Entries(t) \subseteq Entries(t)'
             /\ (run[s].pc \in Owning \/ RegisterPlan(s) => run[s].txn # t) => Entries(t)' = Entries(t)
  <2>1. run[s].txn \in Txn
    BY <1>3, Alone
  <2>2. events' = [events EXCEPT ![run[s].txn] = Append(@, e)] /\ e \in Events
    BY <1>3 DEF Logs
  <2>3. CASE t # run[s].txn
    BY <1>1, <2>1, <2>2, <2>3 DEF Entries, TypeOK
  <2>4. CASE t = run[s].txn
    <3>1. events' = [events EXCEPT ![t] = Append(@, e)]
      BY <2>2, <2>4
    <3>2. Entries(t)' = Entries(t) \cup {e}
      BY <1>1, <2>2, <3>1, AppendEntries
    <3> QED
      BY <1>3, <2>4, <3>2
  <2> QED
    BY <2>3, <2>4
<1> QED
  BY <1>2, <1>3, SessionLogs

\* Only RecordStep records the execution of a step.
LEMMA RecordedByRecord ==
  ASSUME IInv, HistoryInv, NEW s \in Session, Acts(s), ~RecordStep(s),
         NEW t \in Txn, NEW f \in Entries(t)', f.type = "STEP_EXECUTION_RECORDED"
  PROVE  f \in Entries(t)
<1>1. TypeOK
  BY DEF IInv
<1>2. CASE events' = events
  BY <1>2 DEF Entries
<1>3. ASSUME run[s].txn \in Txn, NEW e \in Events, e.type # "STEP_EXECUTION_RECORDED", Log(s, e)
      PROVE  f \in Entries(t)
  <2>1. events' = [events EXCEPT ![run[s].txn] = Append(@, e)]
    BY <1>3 DEF Log
  <2>2. CASE t # run[s].txn
    BY <1>1, <1>3, <2>1, <2>2 DEF Entries, TypeOK
  <2>3. CASE t = run[s].txn
    <3>1. events' = [events EXCEPT ![t] = Append(@, e)]
      BY <2>1, <2>3
    <3>2. Entries(t)' = Entries(t) \cup {e}
      BY <1>1, <3>1, AppendEntries
    <3> QED
      BY <1>3, <3>2
  <2> QED
    BY <2>2, <2>3
<1>4. CASE \/ RegisterPlan(s) \/ SafeFailure(s) \/ CaptureSnapshot(s) \/ StartStep(s)
           \/ VerifyPostcondition(s) \/ RecordCompensation(s) \/ RequireRecovery(s)
           \/ \E i \in Steps : StartCompensation(s, i)
  <2>1. ~At(s, "idle")
    BY <1>4 DEF RegisterPlan, SafeFailure, CaptureSnapshot, StartStep, VerifyPostcondition,
                RecordCompensation, RequireRecovery, StartCompensation, At
  <2>2. run[s].txn \in Txn /\ run[s].cur \in Steps /\ run[s].status \in Statuses
    BY <2>1, Here DEF Runs
  <2>3. \E e \in Events : e.type # "STEP_EXECUTION_RECORDED" /\ Log(s, e)
    <3>1. CASE RegisterPlan(s)
      BY <3>1, EventIs DEF RegisterPlan, Wholes
    <3>2. CASE SafeFailure(s)
      BY <3>2, EventIs DEF SafeFailure, Wholes
    <3>3. CASE CaptureSnapshot(s)
      BY <3>3, EventIs DEF CaptureSnapshot, Wholes
    <3>4. CASE RequireRecovery(s)
      BY <3>4, EventIs DEF RequireRecovery, Wholes
    <3>5. CASE StartStep(s)
      BY <2>2, <3>5, EventIs DEF StartStep, Types
    <3>6. CASE \E i \in Steps : StartCompensation(s, i)
      BY <3>6, EventIs DEF StartCompensation, Types
    <3>7. CASE VerifyPostcondition(s)
      BY <2>2, <3>7, EventIs DEF VerifyPostcondition, Types, Statuses, Changes
    <3>8. CASE RecordCompensation(s)
      BY <2>2, <3>8, EventIs DEF RecordCompensation, Types, Changes
    <3> QED
      BY <1>4, <3>1, <3>2, <3>3, <3>4, <3>5, <3>6, <3>7, <3>8
  <2> QED
    BY <1>3, <2>2, <2>3
<1>5. CASE \/ RefusePlan(s) \/ SnapshotFails(s) \/ ExecuteStep(s) \/ SuccessReceipt(s)
           \/ CompensateStep(s) \/ \E i \in Steps : SkipStep(s, i)
           \/ CompensationEnds(s) \/ \E at, outcome : Finish(s, at, outcome)
           \/ Crash(s) \/ \E u \in Txn, o \in Operation : CallRun(s, u, o)
  BY <1>2, <1>5 DEF RefusePlan, SnapshotFails, ExecuteStep, SuccessReceipt, CompensateStep,
                    SkipStep, CompensationEnds, Finish, Crash, CallRun
<1> QED
  BY <1>4, <1>5 DEF Acts, Step

\* No two entries of a log have the same place.
LEMMA OneEntry ==
  ASSUME TypeOK, OrderInv, NEW t \in Txn, NEW e \in Entries(t), NEW f \in Entries(t),
         Rank(e.type, e.step) = Rank(f.type, f.step)
  PROVE  e = f
<1>1. PICK j \in DOMAIN events[t] : events[t][j] = e
  BY EntryType
<1>2. PICK k \in DOMAIN events[t] : events[t][k] = f
  BY EntryType
<1>3. j \in Int /\ k \in Int
  BY DEF TypeOK
<1>4. Rank(e.type, e.step) \in Int
  BY EntryType, RankType
<1>5. ~(j < k) /\ ~(k < j)
  BY <1>1, <1>2, <1>4 DEF OrderInv
<1> QED
  BY <1>1, <1>2, <1>3, <1>5

\* What is done to the host is announced before, and no entry ever denies it.
LEMMA EffectStep ==
  ASSUME IInv, HistoryInv, NEW s \in Session, Acts(s)
  PROVE  EffectInv'
<1> DEFINE u == run[s].txn
           c == run[s].cur
<1>1. TypeOK /\ OrderInv /\ EntryInv /\ EffectInv /\ InHandInv
  BY DEF IInv, HistoryInv
<1> SUFFICES ASSUME NEW t \in Txn, NEW i \in Steps
             PROVE  /\ effect'[t][i] # "none" =>
                         /\ Has(Entries(t)', "STEP_EXECUTION_STARTED", i)
                         /\ \A e \in Entries(t)' :
                              e.type = "STEP_EXECUTION_RECORDED" /\ e.step = i =>
                                e.change # "NOT_APPLIED"
                    /\ effect'[t][i] = "undone" => Has(Entries(t)', "COMPENSATION_STARTED", i)
  BY DEF EffectInv
<1>2. \A type : Has(Entries(t), type, i) => Has(Entries(t)', type, i)
  BY EntriesGrow DEF Has
<1>3. CASE effect'[t][i] = effect[t][i] /\ ~RecordStep(s)
  BY <1>1, <1>2, <1>3, RecordedByRecord DEF EffectInv
<1>4. CASE RecordStep(s)
  <2>1. /\ run[s].pc = "record" /\ u \in Txn /\ c \in Steps
        /\ Below(Entries(u), 3 * c + 1) /\ run[s].status \in Statuses
        /\ run[s].change \in Changes
    BY <1>4, Here DEF RecordStep, At, RoomOK, Runs
  <2>2. effect' = effect
    BY <1>4 DEF RecordStep
  <2> DEFINE e == Event("STEP_EXECUTION_RECORDED", c, run[s].status, run[s].change)
  <2>3. e \in Events /\ e.step = c /\ e.change = run[s].change
    BY <2>1, EventIs DEF Types
  <2>4. events' = [events EXCEPT ![u] = Append(@, e)]
    BY <1>4 DEF RecordStep, Log
  <2> HIDE DEF e
  <2>5. effect[u][c] # "none" => run[s].change # "NOT_APPLIED"
    <3>1. effect[u][c] = "applied" => run[s].change # "NOT_APPLIED"
      BY <1>1, <2>1 DEF InHandInv, InHandOK, Owning, Forward
    <3>2. effect[u][c] # "undone"
      <4>1. SUFFICES ASSUME Has(Entries(u), "COMPENSATION_STARTED", c) PROVE FALSE
        BY <1>1, <2>1 DEF EffectInv
      <4>2. Rank("COMPENSATION_STARTED", c) < 3 * c + 1
        BY <2>1, <4>1 DEF Has, Below
      <4> QED
        BY <2>1, <4>2, Ranks, Undo
    <3> QED
      BY <1>1, <2>1, <3>1, <3>2 DEF TypeOK
  <2>6. \A f \in Entries(t)' : f \in Entries(t) \/ (t = u /\ f = e)
    <3>1. CASE t = u
      <4>1. events' = [events EXCEPT ![t] = Append(@, e)]
        BY <2>4, <3>1
      <4>2. Entries(t)' = Entries(t) \cup {e}
        BY <1>1, <2>3, <4>1, AppendEntries
      <4> QED
        BY <3>1, <4>2
    <3>2. CASE t # u
      BY <1>1, <2>4, <3>2 DEF Entries, TypeOK
    <3> QED
      BY <3>1, <3>2
  <2> QED
    BY <1>1, <1>2, <2>2, <2>3, <2>5, <2>6 DEF EffectInv
<1>5. CASE ExecuteStep(s) /\ effect'[t][i] # effect[t][i]
  <2>1. /\ run[s].pc = "execute" /\ u \in Txn /\ c \in Steps
        /\ Below(Entries(u), 3 * c + 1) /\ Has(Entries(u), "STEP_EXECUTION_STARTED", c)
    BY <1>5, Here DEF ExecuteStep, At, RoomOK, LoggedOK
  <2>2. t = u /\ i = c /\ effect'[t][i] = "applied"
    BY <1>1, <1>5, <2>1 DEF ExecuteStep, TypeOK
  <2>3. Entries(t)' = Entries(t)
    BY <1>5 DEF ExecuteStep, Entries
  <2>4. \A e \in Entries(t) : ~(e.type = "STEP_EXECUTION_RECORDED" /\ e.step = c)
    <3>1. SUFFICES ASSUME NEW e \in Entries(t), e.type = "STEP_EXECUTION_RECORDED", e.step = c
                   PROVE  FALSE
      OBVIOUS
    <3>2. Rank("STEP_EXECUTION_RECORDED", c) < 3 * c + 1
      BY <2>1, <2>2, <3>1 DEF Below
    <3> QED
      BY <2>1, <3>2, Ranks, Undo
  <2> QED
    BY <2>1, <2>2, <2>3, <2>4
<1>6. CASE CompensateStep(s) /\ effect'[t][i] # effect[t][i]
  <2>1. /\ run[s].pc = "undo" /\ u \in Txn /\ c \in Steps
        /\ Applied(Entries(u), c) /\ Has(Entries(u), "COMPENSATION_STARTED", c)
    BY <1>6, Here DEF CompensateStep, At, RoomOK, LoggedOK, Owning, Backward
  <2>2. t = u /\ i = c
    BY <1>1, <1>6, <2>1 DEF CompensateStep, TypeOK
  <2>3. Entries(t)' = Entries(t)
    BY <1>6 DEF CompensateStep, Entries
  <2>4. PICK a \in Entries(t) :
          a.type = "STEP_EXECUTION_RECORDED" /\ a.step = c /\ a.change = "APPLIED"
    BY <2>1, <2>2 DEF Applied
  <2>5. Has(Entries(t), "STEP_EXECUTION_STARTED", c)
    BY <1>1, <2>4 DEF EntryInv, Backed
  <2>6. \A e \in Entries(t) : e.type = "STEP_EXECUTION_RECORDED" /\ e.step = c => e = a
    BY <1>1, <2>4, OneEntry
  <2> QED
    BY <2>1, <2>2, <2>3, <2>4, <2>5, <2>6
<1> QED
  <2>1. effect'[t][i] # effect[t][i] => ExecuteStep(s) \/ CompensateStep(s)
    BY HostFrame
  <2> QED
    BY <1>3, <1>4, <1>5, <1>6, <2>1

\* The journal's other callers record SUCCEEDED for no operation.
LEMMA JournalSuccess ==
  ASSUME TypeOK, NEW o \in Operation, JournalCall(o), NEW q \in Operation
  PROVE  status'[q] = "SUCCEEDED" => status[q] = "SUCCEEDED"
BY DEF TypeOK, JournalCall, J!Prepare, J!Claim, J!Record, J!Reconcile, J!Move, J!States

\* A session records SUCCEEDED for its own operation only, when all is done.
LEMMA RunSuccess ==
  ASSUME TypeOK, NEW s \in Session, Acts(s), NEW q \in Operation
  PROVE  \/ status'[q] = "SUCCEEDED" => status[q] = "SUCCEEDED"
         \/ At(s, "succeed") /\ run[s].op = q /\ run'[s] = NoRun /\ events' = events
<1>1. CASE Finish(s, "fail", "FAILED") \/ Finish(s, "unknown", "UNKNOWN")
  BY <1>1 DEF TypeOK, Finish, J!Record, J!Move
<1>2. CASE Finish(s, "succeed", "SUCCEEDED")
  BY <1>2 DEF TypeOK, Finish, J!Record, J!Move, Leave, Becomes
<1>3. CASE status' = status
  BY <1>3
<1> QED
  BY <1>1, <1>2, <1>3 DEF Acts, Step, Crash, CallRun, RegisterPlan, RefusePlan, SnapshotFails,
       SafeFailure, CaptureSnapshot, StartStep, ExecuteStep, RecordStep,
       VerifyPostcondition, SuccessReceipt, SkipStep, StartCompensation, CompensateStep,
       RecordCompensation, CompensationEnds, RequireRecovery

\* The table of transactions only grows.
LEMMA PlansGrow ==
  ASSUME TypeOK, NEW s \in Session, Acts(s), NEW t \in Txn, plans[t] # None
  PROVE  plans'[t] = plans[t]
<1>1. CASE RegisterPlan(s)
  BY <1>1 DEF RegisterPlan, TypeOK
<1> QED
  BY <1>1, PlansFrame

\* What a session that has come to the end of its plan leaves in the log is whole.
LEMMA EndIsWhole ==
  ASSUME IInv, HistoryInv, NEW s \in Session, At(s, "succeed"), NEW t \in Txn, t = run[s].txn
  PROVE  /\ \A i \in Steps : Done(Entries(t), i)
         /\ \A e \in Entries(t) : e.type # "COMPENSATION_STARTED"
<1>1. /\ Below(Entries(t), 3 * NumSteps + 3) /\ \A i \in Steps : Done(Entries(t), i)
  BY Here DEF At, RoomOK, LoggedOK
<1>2. ASSUME NEW e \in Entries(t), e.type = "COMPENSATION_STARTED"
      PROVE  FALSE
  <2>1. e.step \in Steps
    BY <1>2 DEF HistoryInv, EntryInv, Proper, Wholes
  <2>2. Rank(e.type, e.step) = Undoing(e.step)
    BY <1>2, Ranks
  <2>3. Undoing(e.step) < 3 * NumSteps + 3
    BY <1>1, <2>2 DEF Below
  <2> QED
    BY <2>1, <2>3, Undo, PlanAssumption
<1> QED
  BY <1>1, <1>2

\* What is recorded SUCCEEDED was registered, is whole, and is left by its session.
LEMMA SucceededStep ==
  ASSUME IInv, HistoryInv, NEW s \in Session, Acts(s)
  PROVE  SucceededInv'
<1>1. TypeOK /\ OwnerInv /\ SucceededInv
  BY DEF IInv, HistoryInv
<1>2. At(s, "succeed") => /\ run[s].txn \in Txn /\ run[s].op \in Operation
                          /\ plans[run[s].txn] = run[s].op /\ run[s].pc \in Owning
  BY <1>1, OwnerNamed DEF OwnerInv, OwnerOK, At, Owning, Forward
<1>3. ASSUME NEW o \in Operation, \A t \in Txn : plans'[t] # o
      PROVE  status'[o] # "SUCCEEDED"
  <2>1. \A t \in Txn : plans[t] # o
    BY <1>1, <1>3, PlansGrow, PlanAssumption
  <2>2. status[o] # "SUCCEEDED"
    BY <1>1, <2>1 DEF SucceededInv
  <2> QED
    BY <1>1, <1>2, <2>1, <2>2, RunSuccess
<1>4. ASSUME NEW t \in Txn, plans'[t] # None, status'[plans'[t]] = "SUCCEEDED"
      PROVE  /\ \A i \in Steps : Done(Entries(t)', i)
             /\ \A e \in Entries(t)' : e.type # "COMPENSATION_STARTED"
             /\ \A r \in Session : run'[r].pc \in Owning => run'[r].txn # t
  <2>0. /\ \A r \in Session \ {s} : run'[r] = run[r]
        /\ \/ run'[s].pc \notin Owning
           \/ /\ run[s].pc \in Owning \/ RegisterPlan(s)
              /\ run'[s].txn = run[s].txn
    BY <1>1, RunFrame, OwnerMove, NoRunIdle DEF Owning, Forward, Backward
  <2>1. CASE RegisterPlan(s)
    <3>1. /\ run[s].txn \in Txn /\ run[s].op \in Operation /\ status' = status
          /\ plans[run[s].txn] = None /\ plans' = [plans EXCEPT ![run[s].txn] = run[s].op]
          /\ \A u \in Txn : plans[u] # run[s].op
      BY <1>1, <2>1, OwnerNamed DEF RegisterPlan, At
    <3>2. t # run[s].txn /\ plans'[t] = plans[t]
      BY <1>1, <1>4, <3>1 DEF TypeOK, SucceededInv
    <3>3. Entries(t)' = Entries(t)
      BY <3>2, EntriesGrow
    <3> QED
      BY <1>1, <1>4, <2>0, <3>1, <3>2, <3>3 DEF SucceededInv
  <2>2. CASE ~RegisterPlan(s) /\ status[plans[t]] = "SUCCEEDED"
    <3>1. plans' = plans
      BY <2>2, PlansFrame
    <3>2. /\ \A i \in Steps : Done(Entries(t), i)
          /\ \A e \in Entries(t) : e.type # "COMPENSATION_STARTED"
          /\ \A r \in Session : run[r].pc \in Owning => run[r].txn # t
      BY <1>1, <1>4, <2>2, <3>1 DEF SucceededInv
    <3>3. Entries(t)' = Entries(t)
      BY <2>2, <3>2, EntriesGrow
    <3> QED
      BY <2>0, <2>2, <3>2, <3>3
  <2>3. CASE ~RegisterPlan(s) /\ status[plans[t]] # "SUCCEEDED"
    <3>1. plans' = plans /\ plans[t] \in Operation
      BY <1>1, <1>4, <2>3, PlansFrame DEF TypeOK
    <3>2. At(s, "succeed") /\ run[s].op = plans[t] /\ run'[s] = NoRun /\ events' = events
      BY <1>1, <1>4, <2>3, <3>1, RunSuccess
    <3>3. run[s].txn = t
      BY <1>1, <1>2, <1>4, <3>1, <3>2 DEF OwnerInv
    <3>4. Entries(t)' = Entries(t)
      BY <3>2 DEF Entries
    <3>5. \A r \in Session \ {s} : run[r].pc \in Owning => run[r].txn # t
      BY <1>2, <3>2, <3>3, Alone
    <3> QED
      BY <2>0, <3>2, <3>3, <3>4, <3>5, EndIsWhole, NoRunIdle
  <2> QED
    BY <2>1, <2>2, <2>3
<1> QED
  BY <1>3, <1>4 DEF SucceededInv

\* The journal's other callers touch no log.
LEMMA JournalHistory ==
  ASSUME IInv, HistoryInv, NEW o \in Operation, JournalCall(o)
  PROVE  HistoryInv'
<1>1. plans' = plans /\ events' = events /\ run' = run /\ effect' = effect
  BY DEF JournalCall
<1>2. \A q \in Operation : status'[q] = "SUCCEEDED" => status[q] = "SUCCEEDED"
  BY JournalSuccess DEF IInv
<1>3. \A t : Entries(t)' = Entries(t)
  BY <1>1 DEF Entries
<1>4. OrderInv' /\ EntryInv' /\ EffectInv'
  BY <1>1, <1>3 DEF HistoryInv, OrderInv, EntryInv, EffectInv
<1>5. RunInv'
  BY <1>1, <1>3 DEF HistoryInv, RunInv, RunOK, At, Entries
<1>6. SucceededInv'
  <2>1. \A t \in Txn : plans[t] = None \/ plans[t] \in Operation
    BY DEF IInv, TypeOK
  <2> QED
    BY <1>1, <1>2, <1>3, <2>1 DEF HistoryInv, SucceededInv
<1> QED
  BY <1>4, <1>5, <1>6 DEF HistoryInv

\* A stuttering step keeps the logs, and what the run()s know of them.
LEMMA HistoryStutter ==
  ASSUME HistoryInv, UNCHANGED vars
  PROVE  HistoryInv'
<1>1. plans' = plans /\ events' = events /\ run' = run /\ effect' = effect /\ status' = status
  BY DEF vars
<1>2. \A t : Entries(t)' = Entries(t)
  BY <1>1 DEF Entries
<1>3. OrderInv' /\ EntryInv' /\ EffectInv' /\ SucceededInv'
  BY <1>1, <1>2 DEF HistoryInv, OrderInv, EntryInv, EffectInv, SucceededInv
<1>4. RunInv'
  BY <1>1, <1>2 DEF HistoryInv, RunInv, RunOK, At, Entries
<1> QED
  BY <1>3, <1>4 DEF HistoryInv

\* HistoryInv is inductive, beside IInv.
LEMMA HistoryInductive == IInv /\ HistoryInv /\ [Next]_vars => HistoryInv'
<1> SUFFICES ASSUME IInv, HistoryInv, [Next]_vars PROVE HistoryInv'
  OBVIOUS
<1>1. ASSUME NEW s \in Session, Acts(s) PROVE HistoryInv'
  BY <1>1, EntriesStep, RunOKStep, EffectStep, SucceededStep DEF HistoryInv
<1> QED
  BY <1>1, JournalHistory, HistoryStutter DEF Next, Acts

\* At the start there is no log.
LEMMA InitHistory == Init => HistoryInv
<1> SUFFICES ASSUME Init PROVE HistoryInv
  OBVIOUS
<1>1. \A t \in Txn : events[t] = <<>> /\ plans[t] = None /\ Entries(t) = {}
  BY DEF Init, Entries, Range
<1>2. OrderInv /\ EntryInv
  BY <1>1 DEF OrderInv, EntryInv
<1>3. RunInv /\ EffectInv /\ SucceededInv
  BY <1>1 DEF Init, J!Init, RunInv, NoRun, At, EffectInv, SucceededInv
<1> QED
  BY <1>2, <1>3 DEF HistoryInv

\* Every log is in order, each entry in its form and after the one it answers, and every
\* run() has logged what it has passed and no more.
THEOREM HistoryInvariant == Spec => []HistoryInv
  BY InitIInv, Inductive, InitHistory, HistoryInductive, PTL DEF Spec
-----------------------------------------------------------------------------
(* What the history and the validator read *)

\* An event is in a log once, so it is counted once or not at all.
LEMMA CountIs ==
  ASSUME TypeOK, OrderInv, NEW t \in Txn, NEW n \in 0..Len(events[t]), NEW type, NEW i
  PROVE  /\ (\A j \in 1..n : ~(events[t][j].type = type /\ events[t][j].step = i)) =>
              CountOf(events[t], n, type, i) = 0
         /\ (\E j \in 1..n : events[t][j].type = type /\ events[t][j].step = i) =>
              CountOf(events[t], n, type, i) = 1
<1> DEFINE P == Places(events[t], n, type, i)
<1>1. DOMAIN events[t] = 1..Len(events[t]) /\ Len(events[t]) \in Nat
  BY DEF TypeOK
<1>2. ASSUME NEW j \in P, NEW k \in P PROVE j = k
  <2>1. /\ j \in DOMAIN events[t] /\ k \in DOMAIN events[t] /\ j \in Int /\ k \in Int
        /\ events[t][j].type = type /\ events[t][k].type = type
        /\ events[t][j].step = i /\ events[t][k].step = i
    BY <1>1, <1>2 DEF Places
  <2>2. Rank(type, i) \in Int
    BY <2>1, EntryType, RankType
  <2>3. ~(j < k) /\ ~(k < j)
    BY <2>1, <2>2 DEF OrderInv
  <2> QED
    BY <2>1, <2>3
<1>3. P = {} => Cardinality(P) = 0
  BY FS_EmptySet
<1>4. ASSUME NEW j \in P PROVE Cardinality(P) = 1
  <2>1. P = {j}
    BY <1>2, <1>4
  <2> QED
    BY <2>1, FS_Singleton
<1>5. /\ (\A j \in 1..n : ~(events[t][j].type = type /\ events[t][j].step = i)) => P = {}
      /\ \A j \in 1..n : events[t][j].type = type /\ events[t][j].step = i => j \in P
  BY DEF Places
<1> HIDE DEF P
<1>6. /\ (\A j \in 1..n : ~(events[t][j].type = type /\ events[t][j].step = i)) =>
           Cardinality(P) = 0
      /\ (\E j \in 1..n : events[t][j].type = type /\ events[t][j].step = i) =>
           Cardinality(P) = 1
  BY <1>3, <1>4, <1>5
<1> QED
  BY <1>6 DEF CountOf, P

\* What comes before an entry, and what does not.
LEMMA CountBefore ==
  ASSUME TypeOK, OrderInv, NEW t \in Txn, NEW n \in DOMAIN events[t], NEW type, NEW i,
         NEW r, r = Rank(events[t][n].type, events[t][n].step)
  PROVE  /\ r <= Rank(type, i) => CountOf(events[t], n - 1, type, i) = 0
         /\ Has(Entries(t), type, i) /\ Rank(type, i) < r =>
              CountOf(events[t], n - 1, type, i) = 1
         /\ Has(Entries(t), type, i) /\ Rank(type, i) < r =>
              \E j \in 1..(n - 1) : events[t][j].type = type /\ events[t][j].step = i
<1>1. DOMAIN events[t] = 1..Len(events[t]) /\ Len(events[t]) \in Nat
  BY DEF TypeOK
<1>2. n \in Int /\ n - 1 \in 0..Len(events[t]) /\ r \in Int
  BY <1>1, EntryType, RankType
<1>3. \A j \in 1..(n - 1) : j \in DOMAIN events[t] /\ j < n
  BY <1>1, <1>2
<1>4. ASSUME r <= Rank(type, i), NEW j \in 1..(n - 1),
             events[t][j].type = type, events[t][j].step = i
      PROVE  FALSE
  <2>1. Rank(type, i) \in Int /\ Rank(type, i) < r
    BY <1>3, <1>4, EntryType, RankType DEF OrderInv
  <2> QED
    BY <1>2, <1>4, <2>1
<1>5. ASSUME Has(Entries(t), type, i), Rank(type, i) < r
      PROVE  \E j \in 1..(n - 1) : events[t][j].type = type /\ events[t][j].step = i
  <2>1. PICK e \in Entries(t) : e.type = type /\ e.step = i
    BY <1>5 DEF Has
  <2>2. PICK j \in DOMAIN events[t] : events[t][j] = e
    BY EntryType
  <2>3. Rank(type, i) \in Int
    BY <2>1, EntryType, RankType
  <2>4. ~(n < j) /\ n # j
    BY <1>2, <1>5, <2>1, <2>2, <2>3 DEF OrderInv
  <2>5. j \in 1..(n - 1)
    BY <1>1, <1>2, <2>2, <2>4
  <2> QED
    BY <2>1, <2>2, <2>5
<1> QED
  BY <1>2, <1>4, <1>5, CountIs

\* A step is unresolved when its start is in the log, and its end is not.
LEMMA UnresolvedIs ==
  ASSUME TypeOK, OrderInv, NEW t \in Txn, NEW i \in Steps, NEW started, NEW recorded,
         Has(Entries(t), started, i), ~Has(Entries(t), recorded, i)
  PROVE  i \in Unresolved(t, started, recorded)
<1>1. DOMAIN events[t] = 1..Len(events[t]) /\ Len(events[t]) \in 0..Len(events[t])
  BY DEF TypeOK
<1>2. \E j \in 1..Len(events[t]) : events[t][j].type = started /\ events[t][j].step = i
  BY <1>1, EntryType DEF Has
<1>3. \A j \in 1..Len(events[t]) : ~(events[t][j].type = recorded /\ events[t][j].step = i)
  BY <1>1, EntryType DEF Has
<1>4. /\ CountOf(events[t], Len(events[t]), started, i) = 1
      /\ CountOf(events[t], Len(events[t]), recorded, i) = 0
  BY <1>1, <1>2, <1>3, CountIs
<1> QED
  BY <1>4 DEF Unresolved

\* For any plan and any interruption, what was done to the host is on record or listed as
\* unresolved, and what is recorded SUCCEEDED was done, checked, and not undone.
THEOREM RecordIsTrue == Spec => []RecordTrue
<1>1. ASSUME IInv, HistoryInv PROVE RecordTrue
  <2>0. TypeOK /\ OrderInv /\ EffectInv /\ SucceededInv
    BY <1>1 DEF IInv, HistoryInv
  <2>1. ASSUME NEW t \in Txn, NEW i \in Steps, effect[t][i] # "none"
        PROVE  \/ i \in UnresolvedExecution(t)
               \/ \E e \in LoggedOf(t, "STEP_EXECUTION_RECORDED", i) : e.change # "NOT_APPLIED"
    <3>1. /\ Has(Entries(t), "STEP_EXECUTION_STARTED", i)
          /\ \A e \in Entries(t) :
               e.type = "STEP_EXECUTION_RECORDED" /\ e.step = i => e.change # "NOT_APPLIED"
      BY <2>0, <2>1 DEF EffectInv
    <3>2. CASE Has(Entries(t), "STEP_EXECUTION_RECORDED", i)
      BY <3>1, <3>2 DEF Has, LoggedOf, Logged, Entries
    <3>3. CASE ~Has(Entries(t), "STEP_EXECUTION_RECORDED", i)
      BY <2>0, <3>1, <3>3, UnresolvedIs DEF UnresolvedExecution
    <3> QED
      BY <3>2, <3>3
  <2>2. ASSUME NEW t \in Txn, NEW i \in Steps, effect[t][i] = "undone"
        PROVE  i \in UnresolvedCompensation(t) \/ LoggedOf(t, "COMPENSATION_RECORDED", i) # {}
    <3>1. Has(Entries(t), "COMPENSATION_STARTED", i)
      BY <2>0, <2>2 DEF EffectInv
    <3>2. CASE Has(Entries(t), "COMPENSATION_RECORDED", i)
      BY <3>2 DEF Has, LoggedOf, Logged, Entries
    <3>3. CASE ~Has(Entries(t), "COMPENSATION_RECORDED", i)
      BY <2>0, <3>1, <3>3, UnresolvedIs DEF UnresolvedCompensation
    <3> QED
      BY <3>2, <3>3
  <2>3. ChangesAreOnRecord
    BY <2>1, <2>2 DEF ChangesAreOnRecord
  <2>4. SucceededWhole
    BY <2>0 DEF SucceededInv, SucceededWhole, Done, Executed, LoggedOf, Logged, Entries
  <2> QED
    BY <2>3, <2>4 DEF RecordTrue
<1> QED
  BY <1>1, InitIInv, Inductive, HistoryInvariant, PTL DEF Spec

\* For any plan and any interruption, changes are undone last first, each once, and only
\* changes on record as APPLIED.
THEOREM UndoneInReverse == Spec => []ReverseOrder
<1>1. ASSUME IInv, HistoryInv PROVE ReverseOrder
  <2>1. TypeOK /\ OrderInv /\ EntryInv
    BY <1>1 DEF IInv, HistoryInv
  <2>2. ASSUME NEW t \in Txn, NEW k \in DOMAIN events[t], events[t][k].type = "COMPENSATION_STARTED"
        PROVE  /\ \A j \in 1..(k - 1) : events[t][j].type = "COMPENSATION_STARTED" =>
                    events[t][k].step < events[t][j].step
               /\ \E e \in LoggedOf(t, "STEP_EXECUTION_RECORDED", events[t][k].step) :
                    e.change = "APPLIED"
    <3>1. ASSUME NEW j \in 1..(k - 1), events[t][j].type = "COMPENSATION_STARTED"
          PROVE  events[t][k].step < events[t][j].step
      <4>1. j \in DOMAIN events[t] /\ j < k
        BY <2>1 DEF TypeOK
      <4>2. events[t][j].step \in Steps /\ events[t][k].step \in Steps
        BY <2>1, <2>2, <3>1, <4>1, EntryType DEF EntryInv, Proper, Wholes
      <4>3. Undoing(events[t][j].step) < Undoing(events[t][k].step)
        BY <2>1, <2>2, <3>1, <4>1, Ranks DEF OrderInv
      <4> QED
        BY <4>2, <4>3, PlanAssumption DEF Undoing, Steps
    <3>2. events[t][k] \in Entries(t)
      BY <2>1, EntryType
    <3>3. Applied(Entries(t), events[t][k].step)
      BY <2>1, <2>2, <3>2 DEF EntryInv, Backed
    <3> QED
      BY <3>1, <3>3 DEF Applied, LoggedOf, Logged, Entries
  <2> QED
    BY <2>2 DEF ReverseOrder
<1> QED
  BY <1>1, InitIInv, Inductive, HistoryInvariant, PTL DEF Spec

\* The entry at a place of the log of a transaction is as the validator wants it.
LEMMA EntryAccepted ==
  ASSUME TypeOK, OrderInv, EntryInv, NEW t \in Txn, NEW n \in DOMAIN events[t]
  PROVE  Accepted(events[t], n)
<1> DEFINE e == events[t][n]
           r == Rank(e.type, e.step)
<1>1. e \in Events /\ Proper(e) /\ Backed(Entries(t), e)
  BY EntryType DEF EntryInv
<1>2. /\ DOMAIN events[t] = 1..Len(events[t]) /\ n \in Int
      /\ \A j \in 1..(n - 1) : j \in DOMAIN events[t] /\ j < n
  BY DEF TypeOK
<1>3. \A j \in 1..(n - 1) : Rank(events[t][j].type, events[t][j].step) < r
  BY <1>2 DEF OrderInv
<1>4. /\ \A type, i : r <= Rank(type, i) => CountOf(events[t], n - 1, type, i) = 0
      /\ \A type, i : Has(Entries(t), type, i) /\ Rank(type, i) < r =>
           CountOf(events[t], n - 1, type, i) = 1
      /\ \A type, i : Has(Entries(t), type, i) /\ Rank(type, i) < r =>
           \E j \in 1..(n - 1) : events[t][j].type = type /\ events[t][j].step = i
  BY CountBefore
<1>5. \A i \in Steps : i \in Int /\ 1 <= i /\ Undoing(i) \in Int
  BY Undo
<1>6. CASE e.type \in Wholes
  <2>1. e.step = 0 /\ e.status = "none" /\ e.change = "none"
    BY <1>1, <1>6 DEF Proper, Bare, Event
  <2>2. e.type \in {"SNAPSHOT_CAPTURED", "SAFE_FAILURE"} => ~SnapshotSeen(events[t], n)
    <3>1. SUFFICES ASSUME e.type \in {"SNAPSHOT_CAPTURED", "SAFE_FAILURE"},
                          NEW j \in 1..(n - 1), events[t][j].type = "SNAPSHOT_CAPTURED"
                   PROVE  FALSE
      BY DEF SnapshotSeen
    <3>2. Rank(events[t][j].type, events[t][j].step) = 1 /\ r = 1
      BY <3>1, Ranks
    <3> QED
      BY <1>3, <3>2
  <2> QED
    BY <1>6, <2>1, <2>2 DEF Accepted, Wholes
<1>7. CASE e.type \notin Wholes
  <2>1. e.step \in Steps /\ e.type \in Types
    BY <1>1, <1>7 DEF Proper, Events
  <2>2. CASE e.type = "STEP_EXECUTION_STARTED"
    <3>1. r = 3 * e.step /\ r <= Rank("STEP_EXECUTION_RECORDED", e.step) /\ 1 < r
          /\ r <= Rank("STEP_EXECUTION_STARTED", e.step) /\ Rank("SNAPSHOT_CAPTURED", 0) < r
      BY <1>5, <2>1, <2>2, Ranks
    <3>2. Executing(events[t], n, e.step, 0)
      BY <1>4, <3>1 DEF Executing, Balanced
    <3>3. SnapshotSeen(events[t], n)
      BY <1>1, <1>4, <2>2, <3>1 DEF Backed, SnapshotSeen
    <3>4. ASSUME NEW j \in 1..(n - 1), events[t][j].type = "STEP_EXECUTION_STARTED"
          PROVE  events[t][j].step <= e.step
      <4>1. events[t][j].step \in Nat
        BY <1>2, EntryType, PlanAssumption DEF Events
      <4>2. 3 * events[t][j].step < 3 * e.step
        BY <1>3, <3>1, <3>4, Ranks
      <4> QED
        BY <1>5, <2>1, <4>1, <4>2
    <3> QED
      BY <2>1, <2>2, <3>2, <3>3, <3>4 DEF Accepted
  <2>3. CASE e.type = "STEP_EXECUTION_RECORDED"
    <3>1. r = 3 * e.step + 1 /\ r <= Rank("STEP_EXECUTION_RECORDED", e.step)
          /\ Rank("STEP_EXECUTION_STARTED", e.step) < r
      BY <1>5, <2>1, <2>3, Ranks
    <3>2. Has(Entries(t), "STEP_EXECUTION_STARTED", e.step)
      BY <1>1, <2>3 DEF Backed
    <3>3. Executing(events[t], n, e.step, 1)
      BY <1>4, <3>1, <3>2 DEF Executing, Balanced
    <3> QED
      BY <1>1, <2>1, <2>3, <3>3 DEF Accepted, Proper
  <2>4. CASE e.type = "POSTCONDITION_RECORDED"
    <3>1. r = 3 * e.step + 2 /\ Rank("STEP_EXECUTION_RECORDED", e.step) < r
          /\ Rank("STEP_EXECUTION_STARTED", e.step) < r
      BY <1>5, <2>1, <2>4, Ranks
    <3>2. /\ Has(Entries(t), "STEP_EXECUTION_RECORDED", e.step)
          /\ Has(Entries(t), "STEP_EXECUTION_STARTED", e.step)
      BY <1>1, <2>4 DEF Backed, EntryInv, Has
    <3>3. Executing(events[t], n, e.step, 0)
      BY <1>4, <3>1, <3>2 DEF Executing, Balanced
    <3> QED
      BY <1>1, <2>1, <2>4, <3>3 DEF Accepted, Proper
  <2>5. CASE e.type = "COMPENSATION_STARTED"
    <3>1. r <= Rank("COMPENSATION_STARTED", e.step) /\ r <= Rank("COMPENSATION_RECORDED", e.step)
      BY <1>5, <2>1, <2>5, Ranks
    <3>2. Compensating(events[t], n, e.step, 0)
      BY <1>4, <3>1 DEF Compensating, Balanced
    <3> QED
      BY <2>1, <2>5, <3>2 DEF Accepted
  <2>6. CASE e.type = "COMPENSATION_RECORDED"
    <3>1. Rank("COMPENSATION_STARTED", e.step) < r /\ r <= Rank("COMPENSATION_RECORDED", e.step)
      BY <1>5, <2>1, <2>6, Ranks
    <3>2. Has(Entries(t), "COMPENSATION_STARTED", e.step)
      BY <1>1, <2>6 DEF Backed
    <3>3. Compensating(events[t], n, e.step, 1)
      BY <1>4, <3>1, <3>2 DEF Compensating, Balanced
    <3> QED
      BY <1>1, <2>1, <2>6, <3>3 DEF Accepted, Proper
  <2> QED
    BY <1>7, <2>1, <2>2, <2>3, <2>4, <2>5, <2>6 DEF Types, Wholes
<1> QED
  BY <1>6, <1>7

\* For any plan, any sessions and wherever a run() was cut off, the next start accepts
\* every log.
THEOREM LogsStayReadable == Spec => []HistoryReadable
<1>1. ASSUME IInv, HistoryInv PROVE HistoryReadable
  <2>1. TypeOK /\ OrderInv /\ EntryInv
    BY <1>1 DEF IInv, HistoryInv
  <2>2. ASSUME NEW t \in Txn, plans[t] # None
        PROVE  Readable(events[t])
    <3>1. events[t] # <<>> /\ events[t][1].type = "PLAN_REGISTERED"
      BY <2>1, <2>2 DEF EntryInv
    <3>2. DOMAIN events[t] = 1..Len(events[t]) /\ Len(events[t]) \in Nat
      BY <2>1 DEF TypeOK
    <3>3. ASSUME NEW n \in 2..Len(events[t]), events[t][n].type = "PLAN_REGISTERED" PROVE FALSE
      <4>1. 1 \in DOMAIN events[t] /\ n \in DOMAIN events[t] /\ 1 < n
        BY <3>2
      <4>2. 0 < 0
        BY <2>1, <3>1, <3>3, <4>1, Ranks DEF OrderInv
      <4> QED
        BY <4>2
    <3>4. \A n \in 1..Len(events[t]) : Accepted(events[t], n)
      BY <2>1, <3>2, EntryAccepted
    <3> QED
      BY <3>1, <3>3, <3>4 DEF Readable
  <2> QED
    BY <2>2 DEF HistoryReadable
<1> QED
  BY <1>1, InitIInv, Inductive, HistoryInvariant, PTL DEF Spec
=============================================================================
