---------------------------- MODULE MCTransactions ----------------------------
(* A small instance of TransactionCoordinator. *)
EXTENDS TransactionHistory, SequencesExt

OuterSteps == {1, 3}

-----------------------------------------------------------------------------
(* _validate_existing as the code runs it: a loop over the events of a log.  *)
(* TLC compares it with Readable on all logs of at most LongestLog events    *)
(* of SomeEvents.                                                          *)

\* The loop so far: snapshot_seen, last_execution_ordinal, the two balances.
Unread == [ok |-> TRUE, snapshot |-> FALSE, last |-> 0,
           executing |-> [i \in Steps |-> 0], compensating |-> [i \in Steps |-> 0]]

\* One round: a conjunct of `ok' for every exception raised.
Validate(v, e) ==
  CASE e.type = "PLAN_REGISTERED" ->
         [v EXCEPT !.ok = @ /\ e.step = 0 /\ e.status = "none" /\ e.change = "none"]
    [] e.type = "SNAPSHOT_CAPTURED" ->
         [v EXCEPT !.ok = @ /\ ~v.snapshot /\ e.step = 0, !.snapshot = TRUE]
    [] e.type = "SAFE_FAILURE" ->
         [v EXCEPT !.ok = @ /\ ~v.snapshot /\ e.step = 0]
    [] e.type = "STEP_EXECUTION_STARTED" ->
         [v EXCEPT !.ok = @ /\ v.snapshot /\ e.step >= v.last /\ v.executing[e.step] = 0,
                   !.last = e.step, !.executing[e.step] = @ + 1]
    [] e.type = "STEP_EXECUTION_RECORDED" ->
         [v EXCEPT !.ok = @ /\ e.status \in {"SUCCEEDED", "FAILED", "UNKNOWN"}
                            /\ e.change \in Changes \ {"none"} /\ v.executing[e.step] = 1,
                   !.executing[e.step] = @ - 1]
    [] e.type = "POSTCONDITION_RECORDED" ->
         [v EXCEPT !.ok = @ /\ e.status \in {"SATISFIED", "FAILED", "UNKNOWN"}
                            /\ e.change = "none" /\ v.executing[e.step] = 0]
    [] e.type = "COMPENSATION_STARTED" ->
         [v EXCEPT !.ok = @ /\ v.compensating[e.step] = 0, !.compensating[e.step] = @ + 1]
    [] e.type = "COMPENSATION_RECORDED" ->
         [v EXCEPT !.ok = @ /\ e.status \in {"RESTORED", "FAILED", "UNKNOWN"}
                            /\ v.compensating[e.step] = 1,
                   !.compensating[e.step] = @ - 1]
    [] OTHER -> v   \* RECOVERY_REQUIRED: a reference only

ReadLoop(log) ==
  /\ log # <<>> /\ log[1].type = "PLAN_REGISTERED"
  /\ Len(SelectSeq(log, LAMBDA e : e.type = "PLAN_REGISTERED")) = 1
  /\ FoldLeft(Validate, Unread, log).ok

LongestLog == 6

SomeEvents ==
  {Bare("PLAN_REGISTERED"), Bare("SNAPSHOT_CAPTURED"), Bare("SAFE_FAILURE"), Bare("RECOVERY_REQUIRED")}
  \cup {OfStep(type, i) : type \in {"STEP_EXECUTION_STARTED", "COMPENSATION_STARTED"}, i \in {1, 2}}
  \cup {Event("STEP_EXECUTION_RECORDED", i, "SUCCEEDED", "APPLIED") : i \in {1, 2}}
  \cup {Event("POSTCONDITION_RECORDED", 1, "SATISFIED", "none"),
        Event("COMPENSATION_RECORDED", 1, "RESTORED", "none")}

ASSUME LoopAssumption ==
  \A n \in 0..(LongestLog - 1) : \A log \in [1..n -> SomeEvents] :
    LET whole == <<Bare("PLAN_REGISTERED")>> \o log IN ReadLoop(whole) <=> Readable(whole)
=============================================================================
