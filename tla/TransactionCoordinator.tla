------------------------ MODULE TransactionCoordinator ------------------------
(***************************************************************************)
(* n0te2/transactions.py: TransactionCoordinator.run over an operation      *)
(* journal that keeps the promise of ExecuteOnce.                           *)
(*                                                                         *)
(* A session is one caller of run().  The tables (plans, events and the     *)
(* journal's status) are durable; what a session has in `run' are the local *)
(* variables of run() and _compensate(), gone when its process ends.  Every *)
(* append is a transaction of its own, so a process may end between the     *)
(* driver's change to the host and the event that records it.              *)
(***************************************************************************)
EXTENDS Naturals, Sequences

CONSTANTS
  Operation,      \* operations of the journal
  Txn,            \* transaction ids
  Session,        \* callers of run(), one after the other or at once
  NumSteps,       \* length of a plan
  Compensatable,  \* the steps whose compensatable flag is set
  None

ASSUME PlanAssumption ==
  /\ NumSteps \in Nat \ {0}
  /\ Compensatable \subseteq 1..NumSteps
  /\ None \notin Operation
  /\ None \notin Txn

Steps == 1..NumSteps

VARIABLES
  status,  \* journal: recorded state of each operation
  plans,   \* table transactions: the operation of each registered transaction
  events,  \* table transaction_events, by transaction
  run,     \* the run() a session is in
  effect,  \* the host: what became of each step of a transaction
  execs    \* how often a driver executed a step for an operation

vars == <<status, plans, events, run, effect, execs>>

J == INSTANCE ExecuteOnce

Event(type, step, st, change) == [type |-> type, step |-> step, status |-> st, change |-> change]
Bare(type)      == Event(type, 0, "none", "none")
OfStep(type, i) == Event(type, i, "none", "none")

Types    == {"PLAN_REGISTERED", "SNAPSHOT_CAPTURED", "SAFE_FAILURE",
             "STEP_EXECUTION_STARTED", "STEP_EXECUTION_RECORDED", "POSTCONDITION_RECORDED",
             "COMPENSATION_STARTED", "COMPENSATION_RECORDED", "RECOVERY_REQUIRED"}
Statuses == {"none", "SUCCEEDED", "FAILED", "UNKNOWN", "SATISFIED", "RESTORED"}
Changes  == {"none", "APPLIED", "NOT_APPLIED", "UNKNOWN"}
Events   == [type : Types, step : 0..NumSteps, status : Statuses, change : Changes]

\* Where run() is once its plan is registered.
Forward  == {"snapshot", "start", "execute", "record", "verify", "receipt", "succeed"}
Backward == {"compensate", "undo", "recordUndo", "recovery", "unknown"}
Owning   == Forward \cup Backward \cup {"safeFailure", "fail"}

\* cur: the step at hand; todo: the changed steps _compensate has not handled
\* (run() appends them in the order of the plan, so a set will do); recovery:
\* root_unknown, then recovery_required; status and change: what the driver said.
Runs == [pc : Owning \cup {"idle", "register"}, txn : Txn \cup {None},
         op : Operation \cup {None}, cur : Steps, todo : SUBSET Steps,
         recovery : BOOLEAN, status : Statuses, change : Changes]

NoRun == [pc |-> "idle", txn |-> None, op |-> None, cur |-> 1, todo |-> {},
          recovery |-> FALSE, status |-> "none", change |-> "none"]

TypeOK ==
  /\ status \in [Operation -> J!States]
  /\ plans  \in [Txn -> Operation \cup {None}]
  /\ events \in [Txn -> Seq(Events)]
  /\ run    \in [Session -> Runs]
  /\ effect \in [Txn -> [Steps -> {"none", "applied", "undone"}]]
  /\ execs  \in [Operation -> [Steps -> Nat]]

Init ==
  /\ J!Init
  /\ plans  = [t \in Txn |-> None]
  /\ events = [t \in Txn |-> <<>>]
  /\ run    = [s \in Session |-> NoRun]
  /\ effect = [t \in Txn |-> [i \in Steps |-> "none"]]
  /\ execs  = [o \in Operation |-> [i \in Steps |-> 0]]

-----------------------------------------------------------------------------

At(s, at)     == run[s].pc = at
Becomes(s, r) == run' = [run EXCEPT ![s] = r]
Goto(s, to)   == Becomes(s, [run[s] EXCEPT !.pc = to])
Leave(s)      == Becomes(s, NoRun)               \* run() returns or raises
Log(s, e)     == events' = [events EXCEPT ![run[s].txn] = Append(@, e)]

\* The journal records the outcome and run() returns; it raises when the
\* operation is no longer EXECUTING.
Finish(s, at, outcome) ==
  /\ At(s, at)
  /\ \/ J!Record(run[s].op, outcome)
     \/ status[run[s].op] # "EXECUTING" /\ UNCHANGED status
  /\ Leave(s)
  /\ UNCHANGED <<plans, events, effect, execs>>

-----------------------------------------------------------------------------
(* run(), forward *)

\* `operation = self.journal.get(...)`: it must have been claimed.
CallRun(s, t, o) ==
  /\ At(s, "idle")
  /\ status[o] = "EXECUTING"
  /\ Becomes(s, [NoRun EXCEPT !.pc = "register", !.txn = t, !.op = o])
  /\ UNCHANGED <<status, plans, events, effect, execs>>

\* A bug: no UNIQUE key, and no look, for the operation of a plan.
RegisterSecondPlan(s) ==
  LET t == run[s].txn  o == run[s].op IN
  /\ At(s, "register")
  /\ plans[t] = None
  /\ plans' = [plans EXCEPT ![t] = o]
  /\ Log(s, Bare("PLAN_REGISTERED"))
  /\ Goto(s, "snapshot") \/ Goto(s, "safeFailure")
  /\ UNCHANGED <<status, effect, execs>>

\* _register_plan: one transaction, under UNIQUE keys for both ids; a driver
\* without its five methods fails right after it.
RegisterPlan(s) ==
  LET t == run[s].txn  o == run[s].op IN
  /\ At(s, "register")
  /\ plans[t] = None /\ \A u \in Txn : plans[u] # o
  /\ plans' = [plans EXCEPT ![t] = o]
  /\ Log(s, Bare("PLAN_REGISTERED"))
  /\ Goto(s, "snapshot") \/ Goto(s, "safeFailure")
  /\ UNCHANGED <<status, effect, execs>>

RefusePlan(s) ==
  LET t == run[s].txn  o == run[s].op IN
  /\ At(s, "register")
  /\ plans[t] # None \/ \E u \in Txn : plans[u] = o
  /\ Leave(s)
  /\ UNCHANGED <<status, plans, events, effect, execs>>

\* A bug: the exception is swallowed, and the steps run without a snapshot.
SnapshotSkipped(s) ==
  /\ At(s, "snapshot")
  /\ Goto(s, "start")
  /\ UNCHANGED <<status, plans, events, effect, execs>>

\* prepare_snapshot raised, or answered for another transaction.
SnapshotFails(s) ==
  /\ At(s, "snapshot")
  /\ Goto(s, "safeFailure")
  /\ UNCHANGED <<status, plans, events, effect, execs>>

SafeFailure(s) ==
  /\ At(s, "safeFailure")
  /\ Log(s, Bare("SAFE_FAILURE"))
  /\ Goto(s, "fail")
  /\ UNCHANGED <<status, plans, effect, execs>>

CaptureSnapshot(s) ==
  /\ At(s, "snapshot")
  /\ Log(s, Bare("SNAPSHOT_CAPTURED"))
  /\ Goto(s, "start")
  /\ UNCHANGED <<status, plans, effect, execs>>

StartStep(s) ==
  /\ At(s, "start")
  /\ Log(s, OfStep("STEP_EXECUTION_STARTED", run[s].cur))
  /\ Goto(s, "execute")
  /\ UNCHANGED <<status, plans, effect, execs>>

\* The driver's answers: what it says of a change it is sure of is true.  An
\* exception counts as UNKNOWN/UNKNOWN; SUCCEEDED with an UNKNOWN change is none
\* (StepExecution.__post_init__).
Answers(applied) ==
  [status : {"SUCCEEDED", "FAILED", "UNKNOWN"},
   change : IF applied THEN {"APPLIED"} ELSE {"NOT_APPLIED"}]
  \cup [status : {"FAILED", "UNKNOWN"}, change : {"UNKNOWN"}]

ExecuteStep(s) ==
  LET r == run[s] IN
  /\ At(s, "execute")
  /\ execs' = [execs EXCEPT ![r.op][r.cur] = @ + 1]
  /\ \E applied \in BOOLEAN : \E a \in Answers(applied) :
       /\ effect' = IF applied THEN [effect EXCEPT ![r.txn][r.cur] = "applied"] ELSE effect
       /\ Becomes(s, [r EXCEPT !.pc = "record", !.status = a.status, !.change = a.change])
  /\ UNCHANGED <<status, plans, events>>

\* Enter _compensate.
Compensate(s, todo, rootUnknown) ==
  Becomes(s, [run[s] EXCEPT !.pc = "compensate", !.todo = todo, !.recovery = rootUnknown])

RecordStep(s) ==
  LET r == run[s]
      changed == IF r.change = "APPLIED" THEN r.todo \cup {r.cur} ELSE r.todo IN
  /\ At(s, "record")
  /\ Log(s, Event("STEP_EXECUTION_RECORDED", r.cur, r.status, r.change))
  /\ \/ r.change = "UNKNOWN" /\ Compensate(s, changed, TRUE)
     \/ /\ r.change # "UNKNOWN" /\ r.status # "SUCCEEDED"
        /\ Compensate(s, changed, r.status = "UNKNOWN")
     \/ /\ r.change # "UNKNOWN" /\ r.status = "SUCCEEDED"
        /\ Becomes(s, [r EXCEPT !.pc = "verify", !.todo = changed])
  /\ UNCHANGED <<status, plans, effect, execs>>

\* A bug: only a FAILED postcondition stops the plan, not one that is UNKNOWN.
VerifyUnlessFailed(s) ==
  LET r == run[s] IN
  /\ At(s, "verify")
  /\ \E post \in {"SATISFIED", "FAILED", "UNKNOWN"} :
       /\ Log(s, Event("POSTCONDITION_RECORDED", r.cur, post, "none"))
       /\ \/ post = "FAILED" /\ Compensate(s, r.todo, FALSE)
          \/ /\ post # "FAILED" /\ r.cur < NumSteps
             /\ Becomes(s, [r EXCEPT !.pc = "start", !.cur = @ + 1])
          \/ post # "FAILED" /\ r.cur = NumSteps /\ Goto(s, "receipt")
  /\ UNCHANGED <<status, plans, effect, execs>>

VerifyPostcondition(s) ==
  LET r == run[s] IN
  /\ At(s, "verify")
  /\ \E post \in {"SATISFIED", "FAILED", "UNKNOWN"} :
       /\ Log(s, Event("POSTCONDITION_RECORDED", r.cur, post, "none"))
       /\ \/ post # "SATISFIED" /\ Compensate(s, r.todo, post = "UNKNOWN")
          \/ /\ post = "SATISFIED" /\ r.cur < NumSteps
             /\ Becomes(s, [r EXCEPT !.pc = "start", !.cur = @ + 1])
          \/ post = "SATISFIED" /\ r.cur = NumSteps /\ Goto(s, "receipt")
  /\ UNCHANGED <<status, plans, effect, execs>>

SuccessReceipt(s) ==
  /\ At(s, "receipt")
  /\ Goto(s, "succeed") \/ Compensate(s, run[s].todo, TRUE)
  /\ UNCHANGED <<status, plans, events, effect, execs>>

-----------------------------------------------------------------------------
(* _compensate: `for step in reversed(changed_steps)' *)

\* A bug: `for step in changed_steps'.
IsOldest(s, i) == i \in run[s].todo /\ \A j \in run[s].todo : j >= i

IsNext(s, i) == i \in run[s].todo /\ \A j \in run[s].todo : j <= i

\* A bug: `continue' in a loop that takes its step off the list at the end.
SkipForever(s, i) ==
  /\ At(s, "compensate") /\ IsNext(s, i)
  /\ i \notin Compensatable
  /\ Becomes(s, [run[s] EXCEPT !.recovery = TRUE])
  /\ UNCHANGED <<status, plans, events, effect, execs>>

SkipStep(s, i) ==
  /\ At(s, "compensate") /\ IsNext(s, i)
  /\ i \notin Compensatable
  /\ Becomes(s, [run[s] EXCEPT !.todo = @ \ {i}, !.recovery = TRUE])
  /\ UNCHANGED <<status, plans, events, effect, execs>>

StartCompensation(s, i) ==
  /\ At(s, "compensate") /\ IsNext(s, i)
  /\ i \in Compensatable
  /\ Log(s, OfStep("COMPENSATION_STARTED", i))
  /\ Becomes(s, [run[s] EXCEPT !.pc = "undo", !.cur = i])
  /\ UNCHANGED <<status, plans, effect, execs>>

\* RESTORED is true when the driver says so; an exception counts as UNKNOWN.
CompensateStep(s) ==
  LET r == run[s] IN
  /\ At(s, "undo")
  /\ \E st \in {"RESTORED", "FAILED", "UNKNOWN"}, undone \in BOOLEAN :
       /\ st = "RESTORED" => undone
       /\ effect' = IF undone THEN [effect EXCEPT ![r.txn][r.cur] = "undone"] ELSE effect
       /\ Becomes(s, [r EXCEPT !.pc = "recordUndo", !.status = st])
  /\ UNCHANGED <<status, plans, events, execs>>

RecordCompensation(s) ==
  LET r == run[s] IN
  /\ At(s, "recordUndo")
  /\ Log(s, Event("COMPENSATION_RECORDED", r.cur, r.status, "none"))
  /\ Becomes(s, [r EXCEPT !.pc = "compensate", !.todo = @ \ {r.cur},
                          !.recovery = @ \/ r.status # "RESTORED"])
  /\ UNCHANGED <<status, plans, effect, execs>>

\* A bug: a failed or impossible compensation counts as done.
CompensationEndsWell(s) ==
  /\ At(s, "compensate") /\ run[s].todo = {}
  /\ Goto(s, "fail")
  /\ UNCHANGED <<status, plans, events, effect, execs>>

CompensationEnds(s) ==
  /\ At(s, "compensate") /\ run[s].todo = {}
  /\ Goto(s, IF run[s].recovery THEN "recovery" ELSE "fail")
  /\ UNCHANGED <<status, plans, events, effect, execs>>

RequireRecovery(s) ==
  /\ At(s, "recovery")
  /\ Log(s, Bare("RECOVERY_REQUIRED"))
  /\ Goto(s, "unknown")
  /\ UNCHANGED <<status, plans, effect, execs>>

-----------------------------------------------------------------------------

\* One step of a run() in progress.
Step(s) ==
  \/ RegisterPlan(s) \/ RefusePlan(s) \/ SnapshotFails(s) \/ SafeFailure(s) \/ CaptureSnapshot(s)
  \/ StartStep(s) \/ ExecuteStep(s) \/ RecordStep(s) \/ VerifyPostcondition(s)
  \/ SuccessReceipt(s) \/ CompensateStep(s) \/ RecordCompensation(s)
  \/ \E i \in Steps : SkipStep(s, i) \/ StartCompensation(s, i)
  \/ CompensationEnds(s) \/ RequireRecovery(s)
  \/ Finish(s, "succeed", "SUCCEEDED") \/ Finish(s, "fail", "FAILED")
  \/ Finish(s, "unknown", "UNKNOWN")

\* The process ends, or a BaseException passes through run().
Crash(s) ==
  /\ ~At(s, "idle")
  /\ Leave(s)
  /\ UNCHANGED <<status, plans, events, effect, execs>>

\* The other callers of the journal: an operation is prepared and claimed
\* before it is run; a reviewer may mark it UNKNOWN, and settles an UNKNOWN one.
JournalCall(o) ==
  /\ \/ J!Prepare(o)
     \/ J!Claim(o)
     \/ J!Record(o, "UNKNOWN")
     \/ \E result \in {"SUCCEEDED", "FAILED"} : J!Reconcile(o, result)
  /\ UNCHANGED <<plans, events, run, effect, execs>>

Next ==
  \/ \E s \in Session :
       Step(s) \/ Crash(s) \/ \E t \in Txn, o \in Operation : CallRun(s, t, o)
  \/ \E o \in Operation : JournalCall(o)

Spec == Init /\ [][Next]_vars

\* A run() goes on while its process lives: the driver answers every call.
FairSpec == Spec /\ \A s \in Session : WF_vars(Step(s))

-----------------------------------------------------------------------------
(* Properties *)

\* However many sessions call run(), for however many transactions of the same
\* operation, and wherever they are cut off, a driver is asked at most once to
\* execute a step for an operation: _register_plan refuses a second attempt
\* ("inspect recovery state instead of rerunning").
StepOnce == \A o \in Operation, i \in Steps : execs[o][i] <= 1

\* An operation is recorded FAILED (result "COMPENSATED") only if none of its
\* steps is in force on the host: what a step changed was restored, or the
\* outcome is UNKNOWN and asks for recovery (_compensate, _safe_failure).
NothingLeftBehind ==
  \A t \in Txn : plans[t] # None /\ status[plans[t]] = "FAILED" =>
    \A i \in Steps : effect[t][i] # "applied"

\* A run() that is not cut off returns: it executes each step once and _compensate
\* handles each changed step once.
EveryRunEnds == \A s \in Session : run[s].pc # "idle" ~> run[s].pc = "idle"
-----------------------------------------------------------------------------
(* Why StepOnce and NothingLeftBehind hold: an inductive invariant *)

\* A registered transaction has one session, an operation one transaction, and
\* what is not registered has changed nothing.
OwnerOK(s) ==
  /\ ~At(s, "idle") => run[s].txn \in Txn /\ run[s].op \in Operation
  /\ run[s].pc \in Owning => plans[run[s].txn] = run[s].op

OwnerInv ==
  /\ \A s \in Session : OwnerOK(s)
  /\ \A s, r \in Session :
       s # r /\ {run[s].pc, run[r].pc} \subseteq Owning => run[s].txn # run[r].txn
  /\ \A t, u \in Txn : plans[t] # None /\ plans[t] = plans[u] => t = u

UnregisteredInv ==
  /\ \A t \in Txn : plans[t] = None => \A i \in Steps : effect[t][i] = "none"
  /\ \A o \in Operation : (\A t \in Txn : plans[t] # o) =>
       status[o] # "FAILED" /\ \A i \in Steps : execs[o][i] = 0

\* Step i is one a run() has yet to ask of its driver.
Ahead(s, i) ==
  \/ run[s].pc \in {"snapshot", "safeFailure"}
  \/ run[s].pc \in {"start", "execute"} /\ i >= run[s].cur
  \/ run[s].pc \in {"record", "verify"} /\ i > run[s].cur

Untouched(s, i) == execs[run[s].op][i] = 0 /\ effect[run[s].txn][i] = "none"

AheadOK(s) ==
  /\ run[s].pc \in {"register", "snapshot"} => run[s].cur = 1
  /\ \A i \in Steps : Ahead(s, i) => Untouched(s, i)

AheadInv == \A s \in Session : AheadOK(s)

\* A run() that may still end FAILED has every change in hand, to compensate.
InHandOK(s) ==
  LET r == run[s] IN
  r.pc \in Owning => \A i \in Steps : effect[r.txn][i] = "applied" =>
    /\ r.pc \in Forward \/ (r.pc \in Backward /\ ~r.recovery) =>
         i \in r.todo \/ (r.pc = "record" /\ i = r.cur)
    /\ r.pc = "record" /\ i = r.cur => r.change \in {"APPLIED", "UNKNOWN"}
    /\ r.pc = "recordUndo" /\ r.status = "RESTORED" => i # r.cur
    /\ r.pc \notin {"safeFailure", "fail"}

InHandInv == \A s \in Session : InHandOK(s)

\* A transaction recorded FAILED is left by its session.
FailedInv ==
  \A t \in Txn : plans[t] # None /\ status[plans[t]] = "FAILED" =>
    /\ \A i \in Steps : effect[t][i] # "applied"
    /\ \A s \in Session : run[s].pc \in Owning => run[s].txn # t

IInv == /\ TypeOK /\ OwnerInv /\ UnregisteredInv /\ AheadInv
        /\ StepOnce /\ InHandInv /\ FailedInv
=============================================================================
