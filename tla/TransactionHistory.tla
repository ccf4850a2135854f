-------------------------- MODULE TransactionHistory --------------------------
(***************************************************************************)
(* What n0te2/transactions.py reads back from the log of a transaction:     *)
(* history(), for the one who reviews an interrupted transaction, and       *)
(* _validate_existing(), without which the headquarters does not open.      *)
(***************************************************************************)
EXTENDS TransactionCoordinator, FiniteSets, Functions

\* The events of t of a given type (for a given step).
Logged(t, type)      == {e \in Range(events[t]) : e.type = type}
LoggedOf(t, type, i) == {e \in Logged(t, type) : e.step = i}

\* How often an event of step i is among the first n of a log.
Places(log, n, type, i) == {j \in 1..n : log[j].type = type /\ log[j].step = i}
CountOf(log, n, type, i) == Cardinality(Places(log, n, type, i))

\* _unresolved: steps with more `started' than `recorded' events.
Unresolved(t, started, recorded) ==
  {i \in Steps : CountOf(events[t], Len(events[t]), started, i)
                  > CountOf(events[t], Len(events[t]), recorded, i)}

UnresolvedExecution(t)    == Unresolved(t, "STEP_EXECUTION_STARTED", "STEP_EXECUTION_RECORDED")
UnresolvedCompensation(t) == Unresolved(t, "COMPENSATION_STARTED", "COMPENSATION_RECORDED")

-----------------------------------------------------------------------------
(* _validate_existing: one pass over the events of a transaction *)

\* snapshot_seen, when the pass comes to the event at place n.
SnapshotSeen(log, n) == \E j \in 1..(n - 1) : log[j].type = "SNAPSHOT_CAPTURED"

\* execution_balance and compensation_balance of step i are b at that place.
Balanced(log, n, started, recorded, i, b) ==
  CountOf(log, n - 1, started, i) = CountOf(log, n - 1, recorded, i) + b

Executing(log, n, i, b) ==
  Balanced(log, n, "STEP_EXECUTION_STARTED", "STEP_EXECUTION_RECORDED", i, b)
Compensating(log, n, i, b) ==
  Balanced(log, n, "COMPENSATION_STARTED", "COMPENSATION_RECORDED", i, b)

\* What the pass asks of the event at place n: a conjunct for every exception raised.
\* RECOVERY_REQUIRED needs a reference only.
Accepted(log, n) ==
  LET e == log[n] IN
  /\ e.type = "PLAN_REGISTERED" => e.step = 0 /\ e.status = "none" /\ e.change = "none"
  /\ e.type = "SNAPSHOT_CAPTURED" => e.step = 0 /\ ~SnapshotSeen(log, n)
  /\ e.type = "SAFE_FAILURE" => e.step = 0 /\ ~SnapshotSeen(log, n)
  /\ e.type = "STEP_EXECUTION_STARTED" =>
       /\ e.step \in Steps /\ SnapshotSeen(log, n) /\ Executing(log, n, e.step, 0)
       /\ \A j \in 1..(n - 1) : log[j].type = "STEP_EXECUTION_STARTED" => log[j].step <= e.step
  /\ e.type = "STEP_EXECUTION_RECORDED" =>
       /\ e.step \in Steps /\ Executing(log, n, e.step, 1)
       /\ e.status \in {"SUCCEEDED", "FAILED", "UNKNOWN"} /\ e.change \in Changes \ {"none"}
  /\ e.type = "POSTCONDITION_RECORDED" =>
       /\ e.step \in Steps /\ Executing(log, n, e.step, 0)
       /\ e.status \in {"SATISFIED", "FAILED", "UNKNOWN"} /\ e.change = "none"
  /\ e.type = "COMPENSATION_STARTED" => e.step \in Steps /\ Compensating(log, n, e.step, 0)
  /\ e.type = "COMPENSATION_RECORDED" =>
       /\ e.step \in Steps /\ Compensating(log, n, e.step, 1)
       /\ e.status \in {"RESTORED", "FAILED", "UNKNOWN"}

Readable(log) ==
  /\ log # <<>> /\ log[1].type = "PLAN_REGISTERED"
  /\ \A n \in 2..Len(log) : log[n].type # "PLAN_REGISTERED"
  /\ \A n \in 1..Len(log) : Accepted(log, n)

-----------------------------------------------------------------------------
(* Properties *)

\* Whatever run() was doing when it was cut off, the next start accepts the log:
\* no legal run leaves what _validate_existing calls corruption.
HistoryReadable == \A t \in Txn : plans[t] # None => Readable(events[t])

\* A reviewer finds every change to the host and every change undone: with a
\* result on record that admits it, or as a step history() lists as unresolved.
ChangesAreOnRecord ==
  \A t \in Txn, i \in Steps :
    /\ effect[t][i] # "none" =>
         \/ i \in UnresolvedExecution(t)
         \/ \E e \in LoggedOf(t, "STEP_EXECUTION_RECORDED", i) : e.change # "NOT_APPLIED"
    /\ effect[t][i] = "undone" =>
         i \in UnresolvedCompensation(t) \/ LoggedOf(t, "COMPENSATION_RECORDED", i) # {}

\* SUCCEEDED is recorded for a whole plan only: each step executed and its
\* postcondition seen satisfied, nothing of it undone.
SucceededWhole ==
  \A t \in Txn : plans[t] # None /\ status[plans[t]] = "SUCCEEDED" =>
    /\ \A i \in Steps :
         /\ \E e \in LoggedOf(t, "STEP_EXECUTION_RECORDED", i) : e.status = "SUCCEEDED"
         /\ \E e \in LoggedOf(t, "POSTCONDITION_RECORDED", i) : e.status = "SATISFIED"
    /\ Logged(t, "COMPENSATION_STARTED") = {}

\* What the log and the journal say can be relied on, both of what was done to the
\* host and of what succeeded.
RecordTrue == ChangesAreOnRecord /\ SucceededWhole

\* Steps are compensated in the reverse of the order they were executed in, each
\* once, and only steps on record as APPLIED (_compensate, run()'s changed list).
ReverseOrder ==
  \A t \in Txn : \A k \in DOMAIN events[t] : events[t][k].type = "COMPENSATION_STARTED" =>
    /\ \A j \in 1..(k - 1) :
         events[t][j].type = "COMPENSATION_STARTED" => events[t][k].step < events[t][j].step
    /\ \E e \in LoggedOf(t, "STEP_EXECUTION_RECORDED", events[t][k].step) : e.change = "APPLIED"
-----------------------------------------------------------------------------
(* Why they hold: an inductive invariant, beside IInv.  E is the set of the  *)
(* entries of a log.                                                        *)

Entries(t)      == Range(events[t])
Has(E, type, i) == \E e \in E : e.type = type /\ e.step = i

\* Every entry has a place of its own in the life of a transaction: the steps of the
\* plan one after the other, then those to undo in the reverse order.
Undoing(i) == 3 * NumSteps + 3 + 2 * (NumSteps - i)
Final      == 5 * NumSteps + 4

Rank(type, i) ==
  CASE type = "PLAN_REGISTERED"                       -> 0
    [] type \in {"SNAPSHOT_CAPTURED", "SAFE_FAILURE"} -> 1
    [] type = "STEP_EXECUTION_STARTED"                -> 3 * i
    [] type = "STEP_EXECUTION_RECORDED"               -> 3 * i + 1
    [] type = "POSTCONDITION_RECORDED"                -> 3 * i + 2
    [] type = "COMPENSATION_STARTED"                  -> Undoing(i)
    [] type = "COMPENSATION_RECORDED"                 -> Undoing(i) + 1
    [] type = "RECOVERY_REQUIRED"                     -> Final

OrderInv ==
  \A t \in Txn : \A j, k \in DOMAIN events[t] : j < k =>
    Rank(events[t][j].type, events[t][j].step) < Rank(events[t][k].type, events[t][k].step)

Wholes == {"PLAN_REGISTERED", "SNAPSHOT_CAPTURED", "SAFE_FAILURE", "RECOVERY_REQUIRED"}

\* Each entry has the form that the validator wants.
Proper(e) ==
  /\ e.type \in Wholes => e = Bare(e.type)
  /\ e.type \notin Wholes => e.step \in Steps
  /\ e.type = "STEP_EXECUTION_RECORDED" =>
       e.status \in {"SUCCEEDED", "FAILED", "UNKNOWN"} /\ e.change \in Changes \ {"none"}
  /\ e.type = "POSTCONDITION_RECORDED" =>
       e.status \in {"SATISFIED", "FAILED", "UNKNOWN"} /\ e.change = "none"
  /\ e.type = "COMPENSATION_RECORDED" => e.status \in {"RESTORED", "FAILED", "UNKNOWN"}

Applied(E, i) ==
  \E e \in E : e.type = "STEP_EXECUTION_RECORDED" /\ e.step = i /\ e.change = "APPLIED"

\* ... and comes after the entry that it answers.
Backed(E, e) ==
  /\ e.type = "STEP_EXECUTION_STARTED" => Has(E, "SNAPSHOT_CAPTURED", 0)
  /\ e.type = "STEP_EXECUTION_RECORDED" => Has(E, "STEP_EXECUTION_STARTED", e.step)
  /\ e.type = "POSTCONDITION_RECORDED" => Has(E, "STEP_EXECUTION_RECORDED", e.step)
  /\ e.type = "COMPENSATION_STARTED" => Applied(E, e.step)
  /\ e.type = "COMPENSATION_RECORDED" => Has(E, "COMPENSATION_STARTED", e.step)

EntryInv ==
  \A t \in Txn :
    /\ plans[t] = None <=> events[t] = <<>>
    /\ events[t] # <<>> => events[t][1].type = "PLAN_REGISTERED"
    /\ \A e \in Entries(t) : Proper(e) /\ Backed(Entries(t), e)

\* A run() r with the entries E has logged what it has passed, and no more.
Below(E, n) == \A e \in E : Rank(e.type, e.step) < n

RoomOK(r, E) ==
  /\ r.pc \in {"snapshot", "safeFailure"} => Below(E, 1)
  /\ r.pc = "start" => Below(E, 3 * r.cur)
  /\ r.pc \in {"execute", "record"} => Below(E, 3 * r.cur + 1)
  /\ r.pc = "verify" => Below(E, 3 * r.cur + 2)
  /\ r.pc \in {"receipt", "succeed"} => Below(E, 3 * NumSteps + 3)
  /\ r.pc = "compensate" => Below(E, Final) /\ \A i \in r.todo : Below(E, Undoing(i))
  /\ r.pc \in {"undo", "recordUndo"} =>
       Below(E, Undoing(r.cur) + 1) /\ r.cur \in r.todo /\ \A i \in r.todo : i <= r.cur
  /\ r.pc = "recovery" => Below(E, Final)

\* Step i was executed well ...
Executed(E, i) ==
  \E e \in E : e.type = "STEP_EXECUTION_RECORDED" /\ e.step = i /\ e.status = "SUCCEEDED"

\* ... and its postcondition was seen.
Done(E, i) ==
  /\ Executed(E, i)
  /\ \E e \in E : e.type = "POSTCONDITION_RECORDED" /\ e.step = i /\ e.status = "SATISFIED"

LoggedOK(r, E) ==
  /\ r.pc = "register" => r.todo = {}
  /\ r.pc \in Forward \ {"snapshot"} => Has(E, "SNAPSHOT_CAPTURED", 0)
  /\ r.pc \in {"start", "execute", "record", "verify"} => \A i \in 1..(r.cur - 1) : Done(E, i)
  /\ r.pc \in {"execute", "record"} => Has(E, "STEP_EXECUTION_STARTED", r.cur)
  /\ r.pc = "record" => r.status \in {"SUCCEEDED", "FAILED", "UNKNOWN"} /\ r.change # "none"
  /\ r.pc = "verify" => Executed(E, r.cur)
  /\ r.pc \in {"receipt", "succeed"} => \A i \in Steps : Done(E, i)
  /\ r.pc \in Owning => \A i \in r.todo : Applied(E, i)
  /\ r.pc \in {"undo", "recordUndo"} => Has(E, "COMPENSATION_STARTED", r.cur)
  /\ r.pc = "recordUndo" => r.status \in {"RESTORED", "FAILED", "UNKNOWN"}

RunOK(s)  == RoomOK(run[s], Entries(run[s].txn)) /\ LoggedOK(run[s], Entries(run[s].txn))
RunInv == \A s \in Session : ~At(s, "idle") => RunOK(s)

\* What was done to the host was announced, and no entry denies it.
EffectInv ==
  \A t \in Txn, i \in Steps :
    /\ effect[t][i] # "none" =>
         /\ Has(Entries(t), "STEP_EXECUTION_STARTED", i)
         /\ \A e \in Entries(t) :
              e.type = "STEP_EXECUTION_RECORDED" /\ e.step = i => e.change # "NOT_APPLIED"
    /\ effect[t][i] = "undone" => Has(Entries(t), "COMPENSATION_STARTED", i)

\* What is recorded SUCCEEDED was registered, and is left by its session.
SucceededInv ==
  /\ \A o \in Operation : (\A t \in Txn : plans[t] # o) => status[o] # "SUCCEEDED"
  /\ \A t \in Txn : plans[t] # None /\ status[plans[t]] = "SUCCEEDED" =>
       /\ \A i \in Steps : Done(Entries(t), i)
       /\ \A e \in Entries(t) : e.type # "COMPENSATION_STARTED"
       /\ \A s \in Session : run[s].pc \in Owning => run[s].txn # t

HistoryInv == OrderInv /\ EntryInv /\ RunInv /\ EffectInv /\ SucceededInv
=============================================================================
